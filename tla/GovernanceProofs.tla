------------------------- MODULE GovernanceProofs -------------------------
(***************************************************************************)
(* Proofs about the components that decide who may trade, from the         *)
(* reconciliation of a start on, and how much.                             *)
(***************************************************************************)
EXTENDS Overrides, RiskGovernor, Coordinator, ParamCommit, PolicyLifecycle, Lifecycle,
        TelemetryGate, PreFlight, SequenceTheorems, Inductions

-----------------------------------------------------------------------------
(* Overrides.                                                              *)

\* A process in engage or release.
OvWorking(p) == ovAt[p] \in {"update", "sync", "write", "journal"}

\* The types OvTypeOK leaves out, and the key of an operation under way.
OvShape ==
    /\ ovOp \in [OvProcs -> {"engage", "release", "snapshot"}]
    /\ ovKey \in [OvProcs -> OvKeys \cup {CHOOSE k \in OvKeys : TRUE}]
    /\ ovPrior \in [OvProcs -> BOOLEAN] /\ ovHit \in [OvProcs -> BOOLEAN]
    /\ ovRaced \in BOOLEAN /\ ovTorn \in BOOLEAN
    /\ \A p \in OvProcs : OvWorking(p) => ovKey[p] \in OvKeys
    /\ \A p \in OvProcs : OvWorking(p) => ovOp[p] # "snapshot"

\* Without a race one process is at work.
OvSolo ==
    /\ ~ovRaced => \A p, q \in OvProcs : ovAt[p] # "idle" /\ ovAt[q] # "idle" => p = q
    /\ ovRaced => ovTorn

\* What the file holds, and what a process has read and not used yet, is in force or loose.
OvMirrored ==
    /\ ovFile \subseteq ovDb \cup ovLoose
    /\ \A p \in OvProcs : ovAt[p] \in {"write", "hydrate"} => ovSeen[p] \subseteq ovDb \cup ovLoose
    /\ \A p \in OvProcs : ~ovRaced /\ ovAt[p] = "write" => ovSeen[p] = ovDb

OvInv == OvTypeOK /\ OvShape /\ OvSolo /\ OvMirrored

LEMMA OvInvInit == OvInit => OvInv
  <1> SUFFICES ASSUME OvInit PROVE OvInv
    OBVIOUS
  <1>1. ovKey \in [OvProcs -> OvKeys \cup {CHOOSE k \in OvKeys : TRUE}]
    BY DEF OvInit
  <1> QED BY <1>1 DEF OvInit, OvInv, OvTypeOK, OvShape, OvSolo, OvMirrored, OvWorking

LEMMA OvInvStep == OvInv /\ [OvNext]_ovVars => OvInv'
  <1> SUFFICES ASSUME OvInv, [OvNext]_ovVars PROVE OvInv'
    OBVIOUS
  <1> USE DEF OvInv, OvTypeOK, OvShape, OvSolo, OvMirrored, OvWorking, OvGoto
  <1>1. ASSUME NEW p \in OvProcs, NEW k \in OvKeys, OvEngage(p, k) PROVE OvInv'
    BY <1>1 DEF OvEngage, OvBegins, OvAlone
  <1>2. ASSUME NEW p \in OvProcs, NEW k \in OvKeys, OvRelease(p, k) PROVE OvInv'
    <2>1. ovPrior' \in [OvProcs -> BOOLEAN]
      BY <1>2, (k \in ovDb) \in BOOLEAN DEF OvRelease, OvPrior
    <2> QED BY <1>2, <2>1 DEF OvRelease, OvBegins, OvAlone, ovTable
  <1>3. ASSUME NEW p \in OvProcs, NEW k \in OvKeys, OvSeed(p, k) PROVE OvInv'
    BY <1>3 DEF OvSeed, OvSeeded, ovCall, ovHistory
  <1>4. ASSUME NEW p \in OvProcs, OvUpdate(p) PROVE OvInv'
    BY <1>4 DEF OvUpdate, OvUpdated, ovCall
  <1>5. ASSUME NEW p \in OvProcs, OvSyncRead(p) PROVE OvInv'
    BY <1>5 DEF OvSyncRead, ovCall, ovTable, ovHistory
  <1>6. ASSUME NEW p \in OvProcs, OvSyncWrite(p) PROVE OvInv'
    BY <1>6 DEF OvSyncWrite, ovCall, ovTable
  <1>7. ASSUME NEW p \in OvProcs, OvJournal(p) PROVE OvInv'
    BY <1>7 DEF OvJournal, OvAlone, OvLogged, ovCall, ovTable
  <1>8. ASSUME NEW p \in OvProcs, OvHydrate(p) PROVE OvInv'
    BY <1>8 DEF OvHydrate, OvBegins, OvAlone, ovTable
  <1>9. ASSUME NEW p \in OvProcs, OvAnswer(p) PROVE OvInv'
    BY <1>9 DEF OvAnswer, OvAnswered, OvAlone, ovCall, ovTable, ovHistory
  <1>10. ASSUME NEW p \in OvProcs, OvCrash(p) PROVE OvInv'
    BY <1>10 DEF OvCrash, OvAlone, ovCall, ovTable
  <1>11. CASE OvLoseVault
    BY <1>11 DEF OvLoseVault, ovCall
  <1>12. CASE UNCHANGED ovVars
    BY <1>12 DEF ovVars
  <1> QED BY <1>1, <1>2, <1>3, <1>4, <1>5, <1>6, <1>7, <1>8, <1>9, <1>10, <1>11, <1>12 DEF OvNext

\* The invariant of the mapping, in every behaviour.
LEMMA OvInvariant == OvSpec => []OvInv
  BY OvInvInit, OvInvStep, PTL DEF OvSpec

\* Every step of the two stores is a step of the board of halts, or none.
LEMMA OvStepRefines ==
    ASSUME OvInv, [OvNext]_ovVars
    PROVE  [OvBoard!HbNext]_(OvBoard!hbVars)
  <1> USE DEF OvBoard!HbNext, OvBoard!hbVars
  <1>1. ASSUME NEW p \in OvProcs, NEW k \in OvKeys, OvEngage(p, k) PROVE OvBoard!HbEngage(k)
    BY <1>1 DEF OvEngage, OvBoard!HbEngage
  <1>2. ASSUME NEW p \in OvProcs, NEW k \in OvKeys, OvRelease(p, k) PROVE OvBoard!HbAskRelease
    BY <1>2 DEF OvRelease, ovTable, OvBoard!HbAskRelease
  <1>3. ASSUME NEW p \in OvProcs, NEW k \in OvKeys, OvSeed(p, k)
        PROVE  OvBoard!HbRevive(k) \/ UNCHANGED OvBoard!hbVars
    <2>1. k \in ovDb \/ k \in ovLoose
      BY <1>3 DEF OvSeed, OvInv, OvMirrored
    <2>2. k \in ovDb => ovDb' = ovDb
      BY <1>3 DEF OvSeed, OvSeeded
    <2> QED BY <1>3, <2>1, <2>2 DEF OvSeed, OvSeeded, ovHistory, OvBoard!HbRevive
  <1>4. ASSUME NEW p \in OvProcs, OvUpdate(p)
        PROVE  ovKey[p] \in OvKeys /\ OvBoard!HbRelease(ovKey[p])
    BY <1>4 DEF OvUpdate, OvUpdated, OvInv, OvShape, OvWorking, OvBoard!HbRelease
  <1>5. ASSUME NEW p \in OvProcs, OvSyncWrite(p)
        PROVE  OvBoard!HbSettle \/ UNCHANGED OvBoard!hbVars
    BY <1>5 DEF OvSyncWrite, ovTable, OvBoard!HbSettle
  <1>6. ASSUME NEW p \in OvProcs,
               OvSyncRead(p) \/ OvJournal(p) \/ OvHydrate(p) \/ OvAnswer(p) \/ OvCrash(p)
        PROVE  UNCHANGED OvBoard!hbVars
    BY <1>6 DEF OvSyncRead, OvJournal, OvHydrate, OvAnswer, OvCrash, ovTable, ovHistory
  <1>7. CASE OvLoseVault
    BY <1>7 DEF OvLoseVault, OvBoard!HbLose
  <1>8. CASE UNCHANGED ovVars
    BY <1>8 DEF ovVars
  <1> QED BY <1>1, <1>2, <1>3, <1>4, <1>5, <1>6, <1>7, <1>8 DEF OvNext

\* The vault table and its state file, with every interleaving of processes, crashes and a lost
\* vault, implement the board of halts.
THEOREM OvRefinesBoard == OvSpec => OvImplements
  <1>1. OvInit => OvBoard!HbInit
    BY DEF OvInit, OvBoard!HbInit
  <1>2. OvInv /\ [OvNext]_ovVars => [OvBoard!HbNext]_(OvBoard!hbVars)
    BY OvStepRefines
  <1> QED BY <1>1, <1>2, OvInvariant, PTL DEF OvSpec, OvImplements, OvBoard!HbSpec

\* What a release under way knows of its key.
OvReleasing(p) ==
    LET k == ovKey[p]
    IN /\ k \notin ovAcked
       /\ ovAt[p] = "update" => (ovPrior[p] <=> k \in ovDb) /\ (ovJournal[k] <=> k \in ovDb \cup ovFile)
       /\ ovAt[p] \in {"sync", "write"} =>
             /\ k \notin ovDb /\ (ovHit[p] <=> k \in ovRows)
             /\ ovJournal[k] <=> (ovPrior[p] \/ k \in ovFile)
             /\ ovPrior[p] => ovHit[p]
             /\ k \in ovFile /\ ovHit[p] => ovPrior[p]
       /\ ovAt[p] = "journal" => k \notin ovDb \cup ovFile /\ (ovJournal[k] => ovPrior[p] /\ ovHit[p])

\* What an engagement under way knows of its key.
OvEngaging(p) == ovKey[p] \in ovDb /\ (ovAt[p] = "journal" => ovKey[p] \in ovFile)

\* The journal agrees with the stores on every key nobody works on.
OvAgrees ==
    \A k \in OvKeys : (\A p \in OvProcs : OvWorking(p) => ovKey[p] # k)
        => (ovJournal[k] <=> k \in ovDb \cup ovFile)

\* A row that the file calls active is active, unless its release is about to write the file.
OvRowTrue ==
    \A k \in ovFile \cap ovRows :
        \/ k \in ovDb
        \/ \E p \in OvProcs : ovAt[p] \in {"sync", "write"} /\ ovOp[p] = "release" /\ ovKey[p] = k

\* A halt in force is in the file, or its engagement is about to write it there.
OvFiled ==
    \A k \in ovDb :
        \/ k \in ovFile
        \/ \E p \in OvProcs : ovAt[p] \in {"sync", "write"} /\ ovOp[p] = "engage" /\ ovKey[p] = k

\* What each process knows while nothing has torn.
OvCallSound ==
    \A p \in OvProcs :
        /\ OvWorking(p) /\ ovOp[p] = "release" => OvReleasing(p)
        /\ OvWorking(p) /\ ovOp[p] = "engage" => OvEngaging(p)
        /\ ovAt[p] = "hydrate" => ovSeen[p] \subseteq ovFile /\ ovAcked \subseteq ovDb \cup ovSeen[p]

\* The inductive invariant of acknowledged halts and the journal.
OvSettled == ovAcked \subseteq ovFile /\ OvAgrees /\ OvRowTrue /\ OvFiled /\ OvCallSound
OvCalm == ~ovTorn => OvSettled

LEMMA OvCalmInit == OvInit => OvCalm
  BY DEF OvInit, OvCalm, OvSettled, OvAgrees, OvRowTrue, OvFiled, OvCallSound, OvWorking

LEMMA OvCalmStep == OvInv /\ OvInv' /\ OvCalm /\ [OvNext]_ovVars => OvCalm'
  <1> SUFFICES ASSUME OvInv, OvInv', OvCalm, [OvNext]_ovVars, ~ovTorn'
               PROVE  OvSettled'
    BY DEF OvCalm
  <1>0. ~ovTorn
    BY DEF OvNext, OvEngage, OvRelease, OvSeed, OvUpdate, OvSyncRead, OvSyncWrite, OvJournal, OvHydrate,
           OvAnswer, OvCrash, OvLoseVault, OvBegins, ovHistory, ovVars
  <1> USE <1>0 DEF OvCalm, OvInv, OvTypeOK, OvShape, OvSolo, OvWorking, OvGoto, OvSettled, OvAgrees,
          OvRowTrue, OvFiled, OvCallSound, OvReleasing, OvEngaging
  <1>1. ASSUME NEW p \in OvProcs, NEW k \in OvKeys, OvEngage(p, k)
        PROVE  OvSettled'
    BY <1>1 DEF OvEngage, OvBegins, OvAlone
  <1>2. ASSUME NEW p \in OvProcs, NEW k \in OvKeys, OvRelease(p, k)
        PROVE  OvSettled'
    BY <1>2 DEF OvRelease, OvPrior, OvBegins, OvAlone, ovTable
  <1>3. ASSUME NEW p \in OvProcs, NEW k \in OvKeys, OvSeed(p, k)
        PROVE  OvSettled'
    BY <1>3 DEF OvSeed, OvSeeded, ovCall, ovHistory
  <1>4. ASSUME NEW p \in OvProcs, OvUpdate(p)
        PROVE  OvSettled'
    <2>1. \A q \in OvProcs : ovAt[q] # "idle" => q = p
      BY <1>4 DEF OvUpdate
    <2>2. OvReleasing(p)'
      <3>1. /\ ovKey'[p] = ovKey[p] /\ ovAt'[p] = "sync" /\ ovPrior' = ovPrior /\ ovJournal' = ovJournal
            /\ ovFile' = ovFile /\ ovAcked' = ovAcked /\ ovRows' = ovRows /\ ovDb' = ovDb \ {ovKey[p]}
            /\ ovHit'[p] = (ovKey[p] \in ovRows)
        BY <1>4 DEF OvUpdate, OvUpdated, ovCall
      <3>2. ovKey[p] \notin ovAcked /\ (ovPrior[p] <=> ovKey[p] \in ovDb)
            /\ (ovJournal[ovKey[p]] <=> ovKey[p] \in ovDb \cup ovFile)
        BY <1>4 DEF OvUpdate
      <3>3. ovKey[p] \in ovFile /\ ovKey[p] \in ovRows => ovKey[p] \in ovDb
        BY <1>4, <2>1 DEF OvUpdate
      <3> QED BY <3>1, <3>2, <3>3
    <2>3. OvCallSound'
      BY <1>4, <2>1, <2>2 DEF OvUpdate, ovCall
    <2>4. (ovAcked \subseteq ovFile /\ OvAgrees)'
      BY <1>4, <2>1 DEF OvUpdate, OvUpdated, ovCall
    <2>5. (OvRowTrue /\ OvFiled)'
      BY <1>4, <2>1 DEF OvUpdate, OvUpdated, ovCall
    <2> QED BY <2>3, <2>4, <2>5
  <1>5. ASSUME NEW p \in OvProcs, OvSyncRead(p)
        PROVE  OvSettled'
    BY <1>5 DEF OvSyncRead, ovCall, ovTable, ovHistory
  <1>6. ASSUME NEW p \in OvProcs, OvSyncWrite(p)
        PROVE  OvSettled'
    BY <1>6 DEF OvSyncWrite, ovCall, ovTable, OvMirrored
  <1>7. ASSUME NEW p \in OvProcs, OvJournal(p)
        PROVE  OvSettled'
    <2>1. \A q \in OvProcs : ovAt[q] # "idle" => q = p
      BY <1>7 DEF OvJournal
    <2>2. (OvRowTrue /\ OvFiled /\ OvCallSound)'
      BY <1>7, <2>1 DEF OvJournal, ovCall, ovTable
    <2>3. (ovAcked \subseteq ovFile)'
      BY <1>7, <2>1 DEF OvJournal
    <2>4. OvAgrees'
      <3>1. \A k \in OvKeys \ {ovKey[p]} : ovJournal'[k] = ovJournal[k]
        BY <1>7 DEF OvJournal
      <3>2. ovJournal'[ovKey[p]] <=> ovKey[p] \in ovDb \cup ovFile
        BY <1>7 DEF OvJournal, OvLogged
      <3> QED BY <1>7, <2>1, <3>1, <3>2 DEF OvJournal, ovTable
    <2> QED BY <2>2, <2>3, <2>4
  <1>8. ASSUME NEW p \in OvProcs, OvHydrate(p)
        PROVE  OvSettled'
    BY <1>8 DEF OvHydrate, OvBegins, OvAlone, ovTable
  <1>9. ASSUME NEW p \in OvProcs, OvAnswer(p)
        PROVE  OvSettled'
    BY <1>9 DEF OvAnswer, OvAnswered, OvAlone, ovCall, ovTable, ovHistory
  <1>10. ASSUME NEW p \in OvProcs, OvCrash(p) PROVE FALSE
    BY <1>10 DEF OvCrash
  <1>11. ASSUME OvLoseVault
         PROVE  OvSettled'
    BY <1>11 DEF OvLoseVault, ovCall
  <1>12. ASSUME UNCHANGED ovVars
         PROVE  OvSettled'
    BY <1>12 DEF ovVars
  <1> QED BY <1>1, <1>2, <1>3, <1>4, <1>5, <1>6, <1>7, <1>8, <1>9, <1>10, <1>11, <1>12 DEF OvNext

\* The invariant of a table without tears, in every behaviour.
LEMMA OvCalmInvariant == OvSpec => []OvCalm
  BY OvInvariant, OvCalmInit, OvCalmStep, PTL DEF OvSpec

\* A snapshot that is answered shows every acknowledged halt.
LEMMA OvTells ==
    ASSUME OvInv, OvCalm, [OvNext]_ovVars, NEW p \in OvProcs,
           ovAt[p] = "hydrate", ovAt'[p] = "idle", ~ovTorn'
    PROVE  ovAcked \subseteq ovDb
  <1>1. ASSUME NEW q \in OvProcs, OvAnswer(q) PROVE OvAnswer(p)
    BY <1>1 DEF OvAnswer, OvGoto, OvInv, OvTypeOK
  <1>2. \E q \in OvProcs : OvAnswer(q)
    BY DEF OvNext, OvEngage, OvRelease, OvSeed, OvUpdate, OvSyncRead, OvSyncWrite, OvJournal, OvHydrate,
           OvCrash, OvLoseVault, OvGoto, ovVars, OvInv, OvTypeOK
  <1> QED BY <1>1, <1>2 DEF OvAnswer, ovHistory, OvCalm, OvSettled, OvCallSound

\* What the override registry promises, for any number of processes and keys: it implements the
\* board of halts; an acknowledged halt is in every snapshot until its release; the journal's last
\* word is what the stores say.
THEOREM OverridesStand == OvSpec => OvStands
  <1>1. OvInv /\ OvCalm => OvTypeOK /\ OvJournaled
    <2> SUFFICES ASSUME OvInv, OvCalm, ~ovTorn, \A p \in OvProcs : ovAt[p] = "idle", NEW k \in OvKeys
                 PROVE  ovJournal[k] = (k \in ovDb \cup ovFile)
      BY DEF OvInv, OvJournaled
    <2>1. ovJournal[k] \in BOOLEAN
      BY DEF OvInv, OvTypeOK
    <2>2. ovJournal[k] <=> k \in ovDb \cup ovFile
      BY DEF OvCalm, OvSettled, OvAgrees, OvWorking
    <2> QED BY <2>1, <2>2
  <1>2. OvInv /\ OvCalm /\ [OvNext]_ovVars
          => [\A p \in OvProcs : (ovAt[p] = "hydrate" /\ ovAt'[p] = "idle" /\ ~ovTorn')
                                    => ovAcked \subseteq ovDb]_ovVars
    BY OvTells
  <1> QED BY <1>1, <1>2, OvInvariant, OvCalmInvariant, OvRefinesBoard, PTL DEF OvSpec, OvStands, OvTold

-----------------------------------------------------------------------------
(* RiskGovernor.                                                           *)

RgStates ==
    [legs : SUBSET RgLegs, peak : [RgLegs -> RgPnls \cup {0}], fall : [RgLegs -> Nat],
     exit : SUBSET RgLegs, broker : Nat]
\* What the governor can have measured: it only judges legs it has a key for.
RgMeasured == {s \in RgStates : s.exit \subseteq s.legs}

\* The row as it is stored: the high-water has no column.
RgStored(s) == [stamp |-> "current", state |-> [s EXCEPT !.broker = 0]]

RgShape ==
    /\ rgState \in RgMeasured /\ rgVerdict = rgState.exit
    /\ rgStage \in Seq(RgMeasured) /\ (rgSaved = <<>> \/ \E s \in RgMeasured : rgSaved = <<s>>)
    /\ rgRow \in {RgNoRow, RgFossil} \/ \E s \in RgMeasured : rgRow = RgStored(s)
    /\ rgFaults \in Nat

\* The state the fingerprint names is on its way to the row, or is the row.
RgOnTheWay ==
    rgFaults = 0 =>
        /\ rgSaved = <<>> => rgStage = <<>>
        /\ rgSaved # <<>> => IF rgStage = <<>> THEN rgRow = RgStored(rgSaved[1])
                             ELSE rgStage[Len(rgStage)] = rgSaved[1]

RgInv == RgShape /\ RgOnTheWay /\ RgLatched

\* A governor that starts has measured nothing.
LEMMA RgFreshMeasured ==
    /\ RgFresh \in RgMeasured /\ [RgFresh EXCEPT !.legs = RgLegs] \in RgMeasured
    /\ RgFresh.exit = {} /\ [RgFresh EXCEPT !.legs = RgLegs].exit = {}
  BY RgAssumption DEF RgFresh, RgMeasured, RgStates

\* What a boot makes of each kind of row.
LEMMA RgRehydrates ==
    /\ RgRehydrated(RgNoRow) = [RgFresh EXCEPT !.legs = RgLegs]
    /\ RgRehydrated(RgFossil) = RgFresh
    /\ \A s \in RgMeasured : RgRehydrated(RgStored(s)) = [s EXCEPT !.broker = 0]
  <1>1. RgNoRow # RgFossil /\ RgFossil.stamp = "old" /\ RgNoRow.stamp = "none"
    BY DEF RgNoRow, RgFossil
  <1>2. ASSUME NEW s \in RgMeasured
        PROVE  /\ RgStored(s) # RgNoRow /\ RgStored(s).stamp # "old"
               /\ RgStored(s).state = [s EXCEPT !.broker = 0]
    BY DEF RgNoRow, RgStored
  <1>3. RgRehydrated(RgNoRow) = [RgFresh EXCEPT !.legs = RgLegs]
    BY <1>1 DEF RgRehydrated
  <1>4. RgRehydrated(RgFossil) = RgFresh
    BY <1>1 DEF RgRehydrated
  <1>5. ASSUME NEW s \in RgMeasured PROVE RgRehydrated(RgStored(s)) = [s EXCEPT !.broker = 0]
    BY <1>2 DEF RgRehydrated
  <1> QED BY <1>3, <1>4, <1>5

\* What a boot takes from the row could have been measured.
LEMMA RgRehydratedType == RgShape => RgRehydrated(rgRow) \in RgMeasured
  <1>1. \A s \in RgMeasured : [s EXCEPT !.broker = 0] \in RgMeasured
    BY DEF RgMeasured, RgStates
  <1> QED BY <1>1, RgRehydrates, RgFreshMeasured DEF RgShape

LEMMA RgInvInit == RgInit => RgInv
  <1> SUFFICES ASSUME RgInit PROVE RgInv
    OBVIOUS
  <1>1. rgState \in RgMeasured /\ rgState.exit = {}
    BY RgRehydrates, RgFreshMeasured DEF RgInit
  <1>2. RgShape
    BY <1>1 DEF RgInit, RgShape
  <1> QED BY <1>2 DEF RgInit, RgInv, RgOnTheWay, RgLatched

\* A cycle of the governor.
LEMMA RgEvaluateStep ==
    ASSUME RgInv, NEW due \in SUBSET RgLegs, NEW pnl \in [RgLegs -> RgPnls], NEW e \in RgEquities,
           RgEvaluate(due, pnl, e)
    PROVE  RgInv'
  <1> DEFINE broker == IF e > rgState.broker THEN e ELSE rgState.broker
             peak == [l \in RgLegs |-> IF l \in due THEN RgPeak(l, pnl[l]) ELSE rgState.peak[l]]
             over == {l \in due : RgOver(peak[l], pnl[l], broker)}
             fall == [l \in RgLegs |-> IF l \in due THEN peak[l] - pnl[l] ELSE rgState.fall[l]]
  <1>1. /\ rgState' = [legs |-> rgState.legs \union due, peak |-> peak, fall |-> fall,
                       exit |-> RgExit(due, over), broker |-> broker]
        /\ rgVerdict' = RgExit(due, over) /\ rgBreach' = (rgBreach \ due) \union over
        /\ UNCHANGED <<rgSaved, rgStage, rgRow, rgFaults, rgLost>>
    BY Zenon DEF RgEvaluate
  <1>2. rgState \in RgMeasured
    BY DEF RgInv, RgShape
  <1>3. peak \in [RgLegs -> RgPnls \cup {0}]
    BY <1>2 DEF RgPeak, RgMeasured, RgStates
  <1>4. fall \in [RgLegs -> Nat]
    <2>1. ASSUME NEW l \in due PROVE peak[l] - pnl[l] \in Nat
      <3>1. pnl[l] \in Int /\ rgState.peak[l] \in Int
        <4>1. l \in RgLegs /\ rgState.peak \in [RgLegs -> RgPnls \cup {0}] /\ RgPnls \subseteq Int
          BY <1>2, RgAssumption DEF RgMeasured, RgStates
        <4>2. pnl[l] \in RgPnls /\ rgState.peak[l] \in RgPnls \cup {0}
          BY <4>1
        <4>3. \A n \in RgPnls \cup {0} : n \in Int
          BY <4>1
        <4> QED BY <4>2, <4>3
      <3>2. peak[l] = IF pnl[l] > rgState.peak[l] THEN pnl[l] ELSE rgState.peak[l]
        BY DEF RgPeak
      <3> QED BY <3>1, <3>2
    <2>2. \A l \in RgLegs : rgState.fall[l] \in Nat
      BY <1>2 DEF RgMeasured, RgStates
    <2> HIDE DEF peak
    <2> QED BY <2>1, <2>2
  <1>5. broker \in Nat
    BY <1>2, RgAssumption DEF RgMeasured, RgStates
  <1>6. RgExit(due, over) \subseteq rgState.legs \union due
    BY <1>2 DEF RgExit, RgMeasured, RgStates
  <1> HIDE DEF broker, peak, over, fall
  <1>7. rgState' \in RgMeasured
    BY <1>1, <1>2, <1>3, <1>4, <1>5, <1>6 DEF RgMeasured, RgStates
  <1>8. RgShape'
    BY <1>1, <1>7 DEF RgInv, RgShape
  <1>9. RgLatched'
    BY <1>1 DEF RgInv, RgShape, RgLatched, RgExit
  <1> QED BY <1>1, <1>8, <1>9 DEF RgInv, RgOnTheWay

LEMMA RgInvStep == RgInv /\ [RgNext]_rgVars => RgInv'
  <1> SUFFICES ASSUME RgInv, [RgNext]_rgVars PROVE RgInv'
    OBVIOUS
  <1>1. ASSUME NEW ok \in BOOLEAN, RgPersist(ok) PROVE RgInv'
    <2>1. RgShape'
      BY <1>1 DEF RgInv, RgShape, RgPersist, RgPayload
    <2>2. RgOnTheWay'
      BY <1>1 DEF RgInv, RgShape, RgPersist, RgPayload, RgOnTheWay
    <2> QED BY <1>1, <2>1, <2>2 DEF RgInv, RgPersist, RgLatched
  <1>2. ASSUME NEW n \in 1..RgMaxCycles, RgDrain(n) PROVE RgInv'
    <2>1. rgStage[n] \in RgMeasured /\ rgStage # <<>> /\ n \in 1..Len(rgStage)
      BY <1>2 DEF RgInv, RgShape, RgDrain
    <2>2. rgRow' = RgStored(rgStage[n])
      BY <1>2 DEF RgDrain, RgLatest, RgStored
    <2>3. rgStage \in Seq(RgMeasured) /\ rgStage' = SubSeq(rgStage, n + 1, Len(rgStage))
      BY <1>2 DEF RgDrain, RgInv, RgShape
    <2>4. /\ rgStage' \in Seq(RgMeasured)
          /\ n = Len(rgStage) => rgStage' = <<>>
          /\ n # Len(rgStage) => rgStage' # <<>> /\ rgStage'[Len(rgStage')] = rgStage[Len(rgStage)]
      <3>1. rgStage' \in Seq(RgMeasured) /\ Len(rgStage') = Len(rgStage) - n
        BY <2>1, <2>3
      <3>2. \A i \in 1..(Len(rgStage) - n) : rgStage'[i] = rgStage[n + i]
        BY <2>1, <2>3
      <3>3. n = Len(rgStage) => rgStage' = <<>>
        BY <2>1, <3>1, EmptySeq
      <3> QED BY <2>1, <3>1, <3>2, <3>3
    <2>5. RgShape'
      BY <1>2, <2>1, <2>2, <2>4 DEF RgInv, RgShape, RgDrain
    <2>6. RgOnTheWay'
      BY <1>2, <2>1, <2>2, <2>4 DEF RgInv, RgShape, RgDrain, RgOnTheWay
    <2> QED BY <1>2, <2>5, <2>6 DEF RgInv, RgDrain, RgLatched
  <1>3. CASE RgArchive
    BY <1>3 DEF RgInv, RgShape, RgArchive, RgOnTheWay, RgLatched
  <1>4. CASE RgRestart
    <2>1. RgShape'
      BY <1>4, RgRehydratedType DEF RgInv, RgShape, RgRestart
    <2>2. RgLatched'
      <3> SUFFICES ASSUME ~rgLost' PROVE rgBreach' \subseteq rgVerdict'
        BY DEF RgLatched
      <3>1. rgRow = RgStored(rgState) /\ ~rgLost
        BY <1>4 DEF RgRestart, RgStored
      <3>2. rgVerdict' = [rgState EXCEPT !.broker = 0].exit
        BY <1>4, <3>1, RgRehydrates DEF RgRestart, RgInv, RgShape
      <3> QED BY <1>4, <3>1, <3>2 DEF RgRestart, RgInv, RgShape, RgMeasured, RgStates, RgLatched
    <2> QED BY <1>4, <2>1, <2>2 DEF RgInv, RgShape, RgRestart, RgOnTheWay
  <1>5. CASE UNCHANGED rgVars
    BY <1>5 DEF rgVars, RgInv, RgShape, RgOnTheWay, RgLatched
  <1> QED BY <1>1, <1>2, <1>3, <1>4, <1>5, RgEvaluateStep DEF RgNext

\* A leg past its drawdown limit stays exit-only over restarts until it is back inside, and the row
\* is as new as the fingerprint says, for any legs, readings and number of cycles.
THEOREM GovernorHolds == RgSpec => []RgHolds
  <1>1. RgInv => RgHolds
    <2> SUFFICES ASSUME RgInv PROVE RgHolds
      OBVIOUS
    <2>1. RgTypeOK
      <3>1. rgRow.stamp \in {"none", "old", "current"}
        BY DEF RgInv, RgShape, RgNoRow, RgFossil, RgStored
      <3> QED BY <3>1 DEF RgInv, RgShape, RgMeasured, RgStates, RgTypeOK
    <2>2. RgRowCurrent
      BY DEF RgInv, RgShape, RgOnTheWay, RgRowCurrent, RgPayload, RgStored, RgMeasured, RgStates
    <2> QED BY <2>1, <2>2 DEF RgInv, RgHolds
  <1> QED BY <1>1, RgInvInit, RgInvStep, PTL DEF RgSpec

-----------------------------------------------------------------------------
(* Coordinator.                                                            *)

\* A leg seen is a leg held; its row is not younger than the cycle that saw it first.
CoSound ==
    /\ coDay \in 1..CoMaxDay /\ coPos \in [CoLegs -> {-CoSize, 0, CoSize}]
    /\ coOpened \in [CoLegs -> 0..CoMaxDay] /\ coSeen \in [CoLegs -> 0..CoMaxDay]
    /\ \A l \in CoLegs : /\ coOpened[l] <= coDay /\ coSeen[l] <= coDay
                         /\ coSeen[l] # 0 => coPos[l] # 0 /\ coOpened[l] \in 1..coSeen[l]

CoPlanned == coCycle # <<>> => \A l \in DOMAIN coCycle[1].plan : coCycle[1].plan[l].signal \in CoSignals

CoInv == CoSound /\ CoPlanned /\ CoNoWash /\ CoExitsPass /\ CoAgedOut

LEMMA CoInvInit == CoInit => CoInv
  BY CoAssumption DEF CoInit, CoInv, CoSound, CoPlanned, CoNoWash, CoExitsPass, CoAgedOut

\* The registry and the history after a cycle.
LEMMA CoRegistered ==
    ASSUME CoSound, NEW opened, opened = [l \in CoLegs |-> CoRegister(l)],
           NEW seen, seen = [l \in CoLegs |-> IF coPos[l] # 0 /\ coSeen[l] = 0 THEN coDay ELSE coSeen[l]]
    PROVE  /\ opened \in [CoLegs -> 0..CoMaxDay] /\ seen \in [CoLegs -> 0..CoMaxDay]
           /\ \A l \in CoLegs : /\ opened[l] <= coDay /\ seen[l] <= coDay
                                /\ seen[l] # 0 => coPos[l] # 0 /\ opened[l] \in 1..seen[l]
  BY CoAssumption DEF CoSound, CoRegister

\* A position held for CoMaxDays since a cycle saw it is one of the exhausted.
LEMMA CoAged ==
    ASSUME CoSound, NEW opened, opened = [l \in CoLegs |-> CoRegister(l)],
           NEW seen, seen = [l \in CoLegs |-> IF coPos[l] # 0 /\ coSeen[l] = 0 THEN coDay ELSE coSeen[l]],
           NEW l \in CoLegs, coPos[l] # 0, seen[l] # 0, coDay - seen[l] + 1 >= CoMaxDays
    PROVE  l \in CoExhausted(opened)
  <1>1. opened[l] \in 1..seen[l] /\ seen[l] <= coDay /\ seen[l] \in Nat
    BY CoRegistered
  <1>2. CoDaysHeld(l, opened) >= CoMaxDays /\ CoDaysHeld(l, opened) >= CoMultiday
    BY <1>1, CoAssumption DEF CoDaysHeld, CoSound
  <1> QED BY <1>2 DEF CoExhausted

\* Of two entries that oppose each other on one risk unit, one is among the losers.
LEMMA CoOneLoses ==
    ASSUME NEW sig, NEW mode, NEW one, one, NEW l \in CoLegs, NEW m \in CoLegs,
           sig[l] = "long", sig[m] = "short"
    PROVE  l \in CoBlocked(sig, mode, one) \/ m \in CoBlocked(sig, mode, one)
  <1>1. l # m
    OBVIOUS
  <1>2. CoSharpe[l] < CoSharpe[m] \/ CoSharpe[m] < CoSharpe[l]
    BY <1>1, CoAssumption
  <1>3. {sig[l], sig[m]} \subseteq CoEntries /\ {sig[m], sig[l]} \subseteq CoEntries /\ sig[l] # sig[m]
    BY DEF CoEntries
  <1>4. l \in CoLosers(sig, mode, one) \/ m \in CoLosers(sig, mode, one)
    BY <1>1, <1>2, <1>3 DEF CoLosers
  <1> QED BY <1>4 DEF CoBlocked

\* A cycle.
LEMMA CoCoordinateStep ==
    ASSUME CoInv, NEW sig \in [CoLegs -> CoSignals], NEW split \in CoSplits, NEW spyOut \in BOOLEAN,
           NEW one \in BOOLEAN, NEW veto \in BOOLEAN, CoCoordinate(sig, split, spyOut, one, veto)
    PROVE  CoInv'
  <1> DEFINE opened == [l \in CoLegs |-> CoRegister(l)]
             seen == [l \in CoLegs |-> IF coPos[l] # 0 /\ coSeen[l] = 0 THEN coDay ELSE coSeen[l]]
             locked == {l \in CoLegs : sig[l] \in CoEntries /\ l \in CoLocked(opened, sig[l])}
             active == [l \in CoLegs |-> IF l \in locked THEN "none" ELSE sig[l]]
             lost == CoBlocked(active, CoMode(split, spyOut), one)
             kept == [l \in CoLegs |-> IF l \in lost THEN "none" ELSE active[l]]
             breach == veto \/ CoBreach(CoProposed(kept, split))
             due == {l \in CoLegs : sig[l] # "none"}
             blocked(l) == l \in locked \union lost \/ CoStopped(kept[l], breach)
             plan == [l \in due |-> CoPlan(kept[l], blocked(l), l \in CoExhausted(opened))]
  <1>1. /\ coOpened' = opened /\ coSeen' = seen /\ coDay' = coDay /\ coPos' = coPos
        /\ coCycle' = <<[sig |-> sig, one |-> one, day |-> coDay, plan |-> plan, held |-> coPos, seen |-> seen]>>
    BY Zenon DEF CoCoordinate
  <1>2. /\ coCycle' # <<>> /\ coCycle'[1].sig = sig /\ coCycle'[1].one = one /\ coCycle'[1].day = coDay
        /\ coCycle'[1].plan = plan /\ coCycle'[1].held = coPos /\ coCycle'[1].seen = seen
    BY <1>1
  <1>3. CoSound
    BY DEF CoInv
  <1>4. \A l \in CoLegs : kept[l] \in CoSignals
    BY DEF CoSignals
  <1>5. \A l \in CoLegs : sig[l] = "exit" => kept[l] = "exit"
    BY DEF CoBlocked, CoLosers, CoEntries
  <1>6. \A l, m \in CoLegs : one /\ kept[l] = "long" => kept[m] # "short"
    <2> SUFFICES ASSUME NEW l \in CoLegs, NEW m \in CoLegs, one, kept[l] = "long", kept[m] = "short"
                 PROVE  FALSE
      OBVIOUS
    <2>1. active[l] = "long" /\ active[m] = "short" /\ l \notin lost /\ m \notin lost
      OBVIOUS
    <2> HIDE DEF active
    <2> QED BY <2>1, CoOneLoses
  <1> HIDE DEF kept, lost, active, locked, breach, opened, seen, blocked
  <1>7. ASSUME NEW l \in due
        PROVE  /\ plan[l].signal \in {"exit", "none", kept[l]} /\ (kept[l] = "exit" => plan[l].signal = "exit")
               /\ l \in CoExhausted(opened) => plan[l].forced /\ plan[l].signal = "exit"
    BY DEF CoPlan, CoEntries
  <1>8. DOMAIN plan = due /\ due \subseteq CoLegs
    OBVIOUS
  <1> HIDE DEF plan, due
  <1>9. CoSound'
    <2>1. /\ opened \in [CoLegs -> 0..CoMaxDay] /\ seen \in [CoLegs -> 0..CoMaxDay]
          /\ \A l \in CoLegs : /\ opened[l] <= coDay /\ seen[l] <= coDay
                               /\ seen[l] # 0 => coPos[l] # 0 /\ opened[l] \in 1..seen[l]
      BY <1>3, CoRegistered DEF opened, seen
    <2> QED BY <1>1, <1>3, <2>1 DEF CoSound
  <1>10. CoPlanned'
    BY <1>2, <1>4, <1>7, <1>8 DEF CoPlanned, CoSignals
  <1>11. CoNoWash'
    BY <1>2, <1>6, <1>7, <1>8 DEF CoNoWash
  <1>12. CoExitsPass'
    BY <1>2, <1>5, <1>7, <1>8 DEF CoExitsPass
  <1>13. CoAgedOut'
    <2>1. ASSUME NEW l \in CoLegs, coPos[l] # 0, seen[l] # 0, coDay - seen[l] + 1 >= CoMaxDays
          PROVE  l \in CoExhausted(opened)
      BY <1>3, <2>1, CoAged DEF opened, seen
    <2> QED BY <1>2, <1>7, <1>8, <2>1 DEF CoAgedOut
  <1> QED BY <1>9, <1>10, <1>11, <1>12, <1>13 DEF CoInv

LEMMA CoInvStep == CoInv /\ [CoNext]_coVars => CoInv'
  <1> SUFFICES ASSUME CoInv, [CoNext]_coVars PROVE CoInv'
    OBVIOUS
  <1> USE DEF CoInv, CoPlanned, CoNoWash, CoExitsPass, CoAgedOut
  <1>1. CASE CoDayPasses
    <2>1. coCycle' = <<>> /\ coDay' \in 1..CoMaxDay /\ coDay < coDay'
      BY <1>1, CoAssumption DEF CoDayPasses, CoSound
    <2>2. CoSound'
      <3>1. coPos' = coPos /\ coOpened' = coOpened /\ coSeen' = coSeen
        BY <1>1 DEF CoDayPasses
      <3>2. \A l \in CoLegs : coOpened'[l] <= coDay' /\ coSeen'[l] <= coDay'
        BY <2>1, <3>1, CoAssumption DEF CoSound
      <3> QED BY <2>1, <3>1, <3>2 DEF CoSound
    <2> QED BY <2>1, <2>2
  <1>2. CASE CoBegin
    BY <1>2 DEF CoBegin, CoSound
  <1>3. ASSUME NEW l \in CoLegs, NEW q \in {-CoSize, 0, CoSize}, CoFills(l, q) PROVE CoInv'
    <2>1. coCycle' = <<>> /\ coDay' = coDay /\ coOpened' = coOpened
      BY <1>3 DEF CoFills
    <2>2. coPos' = [coPos EXCEPT ![l] = q] /\ coPos \in [CoLegs -> {-CoSize, 0, CoSize}]
      BY <1>3 DEF CoFills, CoSound
    <2>3. (coSeen' = coSeen /\ q # 0) \/ coSeen' = [coSeen EXCEPT ![l] = 0]
      <3>1. coPos[l] \in Int
        BY <2>2, CoAssumption
      <3>2. q = 0 => ~(q * coPos[l] > 0)
        BY <3>1
      <3> QED BY <1>3, <3>2 DEF CoFills
    <2>4. coPos' \in [CoLegs -> {-CoSize, 0, CoSize}] /\ coPos'[l] = q
          /\ \A m \in CoLegs : m # l => coPos'[m] = coPos[m]
      BY <2>2
    <2>5. coSeen' \in [CoLegs -> 0..CoMaxDay] /\ (coSeen'[l] # 0 => q # 0)
          /\ \A m \in CoLegs : coSeen'[m] \in {0, coSeen[m]}
      <3>1. coSeen \in [CoLegs -> 0..CoMaxDay] /\ 0 \in 0..CoMaxDay
        BY CoAssumption DEF CoSound
      <3>2. CASE coSeen' = coSeen /\ q # 0
        BY <3>1, <3>2
      <3>3. CASE coSeen' = [coSeen EXCEPT ![l] = 0]
        BY <3>1, <3>3
      <3> QED BY <2>3, <3>2, <3>3
    <2>6. CoSound'
      BY <2>1, <2>4, <2>5 DEF CoSound
    <2> QED BY <2>1, <2>6
  <1>4. CASE UNCHANGED coVars
    BY <1>4 DEF coVars, CoSound
  <1> QED BY <1>1, <1>2, <1>3, <1>4, CoCoordinateStep DEF CoNext

\* A cycle never enters two legs against each other on one risk unit, never holds an exit back, and
\* forces out what is held too long, for any legs, betas, budgets and caps.
THEOREM CoordinatorCoordinates == CoSpec => []CoCoordinates
  <1>1. CoInv => CoCoordinates
    BY DEF CoInv, CoSound, CoPlanned, CoTypeOK, CoCoordinates
  <1> QED BY <1>1, CoInvInit, CoInvStep, PTL DEF CoSpec

-----------------------------------------------------------------------------
(* ParamCommit.                                                            *)

\* The types PcTypeOK leaves out.
PcShape ==
    /\ {pcLive, pcStaged} \subseteq PcStrategies /\ {pcRules, pcStagedRules} \subseteq PcResearch
    /\ pcCand \in [PcProcs -> PcStrategies] /\ pcOldS \in [PcProcs -> PcStrategies]
    /\ pcCandRules \in [PcProcs -> PcResearch] /\ pcOldR \in [PcProcs -> PcResearch]
    /\ pcLog \subseteq PcStrategies /\ pcOldLog \in [PcProcs -> SUBSET PcStrategies]
    /\ pcAt \in [PcProcs -> {"idle", "audit", "strategy", "rules", "log", "append"}]
    /\ pcSchema \in [PcProcs -> BOOLEAN] /\ \A p \in PcProcs : pcAt[p] = "rules" => pcSchema[p]
    /\ pcRun \in {"up", "down"} /\ (pcAlert => pcRun = "up")

\* Everything that may become the live strategy has passed the audit.
PcPassed(s) == \E pair \in pcPassed : pair[1] = s
PcVetted ==
    /\ PcPassed(pcLive)
    /\ \A p \in PcProcs : PcBusy(p) => PcPassed(pcCand[p]) /\ PcPassed(pcOldS[p])

PcAlone == \A p, q \in PcProcs : PcBusy(p) /\ PcBusy(q) => p = q

\* The pair of files a commit found, and the one it is about to leave, belong together.
PcPaired(p) ==
    /\ pcAt[p] = "strategy" =>
         /\ pcOldS[p] = pcLive /\ pcOldR[p] = pcRules
         /\ PcParity(pcCand[p], IF pcSchema[p] THEN pcCandRules[p] ELSE pcRules)
    /\ pcAt[p] = "rules" =>
         /\ pcLive = pcCand[p] /\ PcParity(pcCand[p], pcCandRules[p]) /\ PcParity(pcOldS[p], pcOldR[p])

\* Without a tear the files disagree only between the two writes of a commit that is alone.
PcWhole ==
    ~pcTorn => /\ PcAlone /\ \A p \in PcProcs : PcPaired(p)
               /\ (\A p \in PcProcs : pcAt[p] # "rules") => PcParity(pcLive, pcRules)

\* The log names what is live, or will when the commit under way is over or taken back.
PcNamed(p) ==
    /\ pcAt[p] = "strategy" => pcOldS[p] = pcLive
    /\ pcAt[p] = "rules" => pcOldS[p] \in pcLog \cup {PcFirst.s}
    /\ pcAt[p] \in {"rules", "log", "append"} => pcLive = pcCand[p]
    /\ pcAt[p] = "append" => pcOldLog[p] = pcLog
PcKnown ==
    ~pcSilent => /\ PcAlone /\ \A p \in PcProcs : PcNamed(p)
                 /\ (\A p \in PcProcs : pcAt[p] \notin {"rules", "log", "append"})
                      => pcLive \in pcLog \cup {PcFirst.s}

PcInv == PcShape /\ PcVetted /\ PcWhole /\ PcKnown

LEMMA PcInvInit == PcInit => PcInv
  <1> SUFFICES ASSUME PcInit PROVE PcInv
    OBVIOUS
  <1>1. PcShape
    BY PcAssumption DEF PcInit, PcShape
  <1>2. PcVetted
    BY DEF PcInit, PcVetted, PcPassed, PcBusy
  <1>3. PcWhole
    BY PcFirstPasses DEF PcInit, PcWhole, PcAlone, PcBusy, PcPaired
  <1>4. PcKnown
    BY DEF PcInit, PcKnown, PcAlone, PcBusy, PcNamed
  <1> QED BY <1>1, <1>2, <1>3, <1>4 DEF PcInv

\* The audit: from here on the process is at work.
LEMMA PcAuditStep == ASSUME PcInv, NEW p \in PcProcs, PcAudit(p) PROVE PcInv'
  <1> DEFINE r == IF pcSchema[p] THEN pcCandRules[p] ELSE pcRules
             passes == PcAssert(pcCand[p], r) /\ PcParity(pcCand[p], r)
  <1>1. /\ pcAt[p] = "audit" /\ pcLive' = pcLive /\ pcRules' = pcRules /\ pcLog' = pcLog
        /\ pcCand' = pcCand /\ pcCandRules' = pcCandRules /\ pcSchema' = pcSchema /\ pcOldLog' = pcOldLog
        /\ pcStaged' = pcStaged /\ pcStagedRules' = pcStagedRules /\ pcRun' = pcRun /\ pcAlert' = pcAlert
    BY DEF PcAudit, pcFiles, pcDesk, pcDaemon
  <1>2. CASE ~passes
    <2>1. /\ pcAt' = [pcAt EXCEPT ![p] = "idle"] /\ pcOldS' = pcOldS /\ pcOldR' = pcOldR
          /\ pcPassed' = pcPassed /\ pcTorn' = pcTorn /\ pcSilent' = pcSilent
      BY <1>2, Zenon DEF PcAudit
    <2>2. PcShape'
      BY <1>1, <2>1 DEF PcInv, PcShape
    <2>3. \A q \in PcProcs : pcAt'[q] = pcAt[q] \/ (q = p /\ pcAt'[q] = "idle")
      BY <2>1 DEF PcInv, PcShape
    <2>4. PcVetted'
      BY <1>1, <2>1, <2>3 DEF PcInv, PcVetted, PcPassed, PcBusy
    <2>5. PcWhole'
      BY <1>1, <2>1, <2>3 DEF PcInv, PcWhole, PcAlone, PcBusy, PcPaired
    <2>6. PcKnown'
      BY <1>1, <2>1, <2>3 DEF PcInv, PcKnown, PcAlone, PcBusy, PcNamed
    <2> QED BY <2>2, <2>4, <2>5, <2>6 DEF PcInv
  <1>3. CASE passes
    <2>1. /\ pcAt' = [pcAt EXCEPT ![p] = "strategy"]
          /\ pcOldS' = [pcOldS EXCEPT ![p] = pcLive] /\ pcOldR' = [pcOldR EXCEPT ![p] = pcRules]
          /\ pcPassed' = pcPassed \cup {<<pcCand[p], r>>}
          /\ pcTorn' = (pcTorn \/ PcOverlaps(p)) /\ pcSilent' = (pcSilent \/ PcOverlaps(p))
      BY <1>3 DEF PcAudit
    <2>2. PcShape'
      BY <1>1, <2>1 DEF PcInv, PcShape
    <2>3. /\ pcAt'[p] = "strategy" /\ pcOldS'[p] = pcLive /\ pcOldR'[p] = pcRules
          /\ \A q \in PcProcs : q # p => pcAt'[q] = pcAt[q] /\ pcOldS'[q] = pcOldS[q] /\ pcOldR'[q] = pcOldR[q]
      BY <2>1 DEF PcInv, PcShape
    <2>4. PcVetted'
      <3>1. <<pcCand[p], r>> \in pcPassed' /\ <<pcCand[p], r>>[1] = pcCand[p] /\ pcPassed \subseteq pcPassed'
        BY <2>1
      <3> HIDE DEF r
      <3>2. PcPassed(pcLive)' /\ PcPassed(pcCand[p])'
        BY <1>1, <3>1 DEF PcInv, PcVetted, PcPassed
      <3>3. PcPassed(pcOldS[p])'
        BY <1>1, <2>3, <3>2 DEF PcPassed
      <3>4. ASSUME NEW q \in PcProcs, q # p, PcBusy(q)' PROVE PcPassed(pcCand[q])' /\ PcPassed(pcOldS[q])'
        <4>1. PcPassed(pcCand[q]) /\ PcPassed(pcOldS[q])
          BY <2>3, <3>4 DEF PcInv, PcVetted, PcBusy
        <4>2. pcCand'[q] = pcCand[q] /\ pcOldS'[q] = pcOldS[q]
          BY <1>1, <2>3, <3>4
        <4> QED BY <3>1, <4>1, <4>2 DEF PcPassed
      <3> QED BY <3>2, <3>3, <3>4 DEF PcVetted
    <2>5. (\A q \in PcProcs \ {p} : ~PcBusy(q)) => PcAlone'
      BY <2>3 DEF PcAlone, PcBusy
    <2>6. ~pcTorn' => ~pcTorn /\ \A q \in PcProcs \ {p} : ~PcBusy(q)
      BY <2>1 DEF PcOverlaps
    <2>7. ~pcSilent' => ~pcSilent /\ \A q \in PcProcs \ {p} : ~PcBusy(q)
      BY <2>1 DEF PcOverlaps
    <2>8. PcWhole'
      BY <1>1, <1>3, <2>3, <2>5, <2>6 DEF PcInv, PcWhole, PcBusy, PcPaired
    <2>9. PcKnown'
      BY <1>1, <2>3, <2>5, <2>7 DEF PcInv, PcKnown, PcBusy, PcNamed
    <2> QED BY <2>2, <2>4, <2>8, <2>9 DEF PcInv
  <1> QED BY <1>2, <1>3

\* The write of the strategy file.
LEMMA PcWriteStrategyStep == ASSUME PcInv, NEW p \in PcProcs, PcWriteStrategy(p) PROVE PcInv'
  <1>1. /\ pcAt[p] = "strategy" /\ pcLive' = pcCand[p] /\ pcAt' = [pcAt EXCEPT ![p] = PcAfter(p)]
        /\ UNCHANGED <<pcRules, pcDesk, pcLog, pcWork, pcDaemon, pcPassed, pcTorn, pcSilent>>
    BY DEF PcWriteStrategy, PcWritten
  <1>2. /\ pcAt'[p] = IF pcSchema[p] THEN "rules" ELSE "log"
        /\ \A q \in PcProcs : q # p => pcAt'[q] = pcAt[q]
    BY <1>1 DEF PcInv, PcShape, PcAfter
  <1>3. PcShape'
    BY <1>1, <1>2 DEF PcInv, PcShape, PcAfter, pcWork, pcDesk, pcDaemon
  <1>4. PcVetted'
    BY <1>1, <1>2 DEF PcInv, PcVetted, PcPassed, PcBusy, pcWork
  <1>5. PcAlone => PcAlone'
    BY <1>1, <1>2 DEF PcAlone, PcBusy
  <1>6. PcAlone => \A q \in PcProcs : q # p => pcAt[q] \in {"idle", "audit"}
    BY <1>1 DEF PcAlone, PcBusy
  <1>7. PcWhole'
    BY <1>1, <1>2, <1>5, <1>6 DEF PcInv, PcWhole, PcPaired, pcWork
  <1>8. PcKnown'
    BY <1>1, <1>2, <1>5, <1>6 DEF PcInv, PcKnown, PcNamed, pcWork
  <1> QED BY <1>3, <1>4, <1>7, <1>8 DEF PcInv

\* The write of the validation file.
LEMMA PcWriteRulesStep == ASSUME PcInv, NEW p \in PcProcs, PcWriteRules(p) PROVE PcInv'
  <1>1. /\ pcAt[p] = "rules" /\ pcRules' = pcCandRules[p] /\ pcAt' = [pcAt EXCEPT ![p] = "log"]
        /\ UNCHANGED <<pcLive, pcDesk, pcLog, pcWork, pcDaemon, pcPassed, pcTorn, pcSilent>>
    BY DEF PcWriteRules
  <1>2. pcAt'[p] = "log" /\ \A q \in PcProcs : q # p => pcAt'[q] = pcAt[q]
    BY <1>1 DEF PcInv, PcShape
  <1>3. PcShape'
    BY <1>1, <1>2 DEF PcInv, PcShape, pcWork, pcDesk, pcDaemon
  <1>4. PcVetted'
    BY <1>1, <1>2 DEF PcInv, PcVetted, PcPassed, PcBusy, pcWork
  <1>5. PcAlone => PcAlone'
    BY <1>1, <1>2 DEF PcAlone, PcBusy
  <1>6. PcAlone => \A q \in PcProcs : q # p => pcAt[q] \in {"idle", "audit"}
    BY <1>1 DEF PcAlone, PcBusy
  <1>7. PcWhole'
    BY <1>1, <1>2, <1>5, <1>6 DEF PcInv, PcWhole, PcPaired, pcWork
  <1>8. PcKnown'
    BY <1>1, <1>2, <1>5, <1>6 DEF PcInv, PcKnown, PcNamed, pcWork
  <1> QED BY <1>3, <1>4, <1>7, <1>8 DEF PcInv

\* A write raises, and the handler puts the old texts back or raises too.
LEMMA PcWriteFailsStep ==
    ASSUME PcInv, NEW p \in PcProcs, NEW repaired \in BOOLEAN, PcWriteFails(p, repaired) PROVE PcInv'
  <1>1. /\ pcAt[p] \in {"strategy", "rules"} /\ pcAt' = [pcAt EXCEPT ![p] = "idle"]
        /\ pcSilent' = (pcSilent \/ ~repaired)
        /\ UNCHANGED <<pcDesk, pcLog, pcWork, pcDaemon, pcPassed>>
    BY DEF PcWriteFails
  <1>2. pcAt'[p] = "idle" /\ \A q \in PcProcs : q # p => pcAt'[q] = pcAt[q]
    BY <1>1 DEF PcInv, PcShape
  <1>3. repaired => /\ pcTorn' = pcTorn /\ pcLive' = pcOldS[p]
                    /\ pcRules' = IF pcSchema[p] THEN pcOldR[p] ELSE pcRules
    BY DEF PcWriteFails, PcRepair
  <1>4. ~repaired => pcTorn' /\ pcLive' = pcLive /\ pcRules' = pcRules
    BY DEF PcWriteFails, pcFiles
  <1>5. PcShape'
    <2>1. pcLive' \in PcStrategies /\ pcRules' \in PcResearch
      BY <1>3, <1>4 DEF PcInv, PcShape
    <2> QED BY <1>1, <1>2, <2>1 DEF PcInv, PcShape, pcWork, pcDesk, pcDaemon
  <1>6. PcVetted'
    <2>1. PcPassed(pcLive')
      BY <1>1, <1>3, <1>4 DEF PcInv, PcVetted, PcBusy
    <2> QED BY <1>1, <1>2, <2>1 DEF PcInv, PcVetted, PcBusy, PcPassed, pcWork
  <1>7. PcAlone => PcAlone' /\ \A q \in PcProcs : q # p => pcAt[q] \in {"idle", "audit"}
    BY <1>1, <1>2 DEF PcAlone, PcBusy
  <1>8. PcWhole'
    <2> SUFFICES ASSUME ~pcTorn' PROVE PcWhole'
      BY DEF PcWhole
    <2>1. repaired /\ ~pcTorn /\ PcAlone
      BY <1>3, <1>4 DEF PcInv, PcWhole
    <2>2. PcParity(pcLive', pcRules')
      <3>1. CASE pcAt[p] = "rules"
        BY <1>3, <2>1, <3>1 DEF PcInv, PcShape, PcWhole, PcPaired
      <3>2. CASE pcAt[p] = "strategy"
        <4>1. pcOldS[p] = pcLive /\ pcOldR[p] = pcRules
          BY <2>1, <3>2 DEF PcInv, PcWhole, PcPaired
        <4>2. PcParity(pcLive, pcRules)
          BY <1>7, <2>1, <3>2 DEF PcInv, PcWhole
        <4> QED BY <1>3, <2>1, <4>1, <4>2
      <3> QED BY <1>1, <3>1, <3>2
    <2> HIDE DEF PcParity
    <2> QED BY <1>1, <1>2, <1>7, <2>1, <2>2 DEF PcWhole, PcPaired, PcParity
  <1>9. PcKnown'
    <2> SUFFICES ASSUME ~pcSilent' PROVE PcKnown'
      BY DEF PcKnown
    <2>1. repaired /\ ~pcSilent /\ PcAlone
      BY <1>1 DEF PcInv, PcKnown
    <2>2. pcLive' \in pcLog \cup {PcFirst.s}
      BY <1>1, <1>3, <1>7, <2>1 DEF PcInv, PcKnown, PcNamed
    <2> QED BY <1>1, <1>2, <1>7, <2>1, <2>2 DEF PcKnown, PcNamed
  <1> QED BY <1>5, <1>6, <1>8, <1>9 DEF PcInv

\* The log is read, and replaced.
LEMMA PcReadLogStep == ASSUME PcInv, NEW p \in PcProcs, PcReadLog(p) PROVE PcInv'
  <1>1. /\ pcAt[p] = "log" /\ pcAt' = [pcAt EXCEPT ![p] = "append"]
        /\ pcOldLog' = [pcOldLog EXCEPT ![p] = pcLog]
        /\ UNCHANGED <<pcFiles, pcDesk, pcLog, pcCand, pcCandRules, pcSchema, pcOldS, pcOldR, pcDaemon,
                       pcPassed, pcTorn, pcSilent>>
    BY DEF PcReadLog
  <1>2. /\ pcAt'[p] = "append" /\ pcOldLog'[p] = pcLog
        /\ \A q \in PcProcs : q # p => pcAt'[q] = pcAt[q] /\ pcOldLog'[q] = pcOldLog[q]
    BY <1>1 DEF PcInv, PcShape
  <1>3. PcShape'
    BY <1>1, <1>2 DEF PcInv, PcShape, pcFiles, pcDesk, pcDaemon
  <1>4. PcVetted'
    BY <1>1, <1>2 DEF PcInv, PcVetted, PcPassed, PcBusy, pcFiles
  <1>5. PcAlone => PcAlone'
    BY <1>1, <1>2 DEF PcAlone, PcBusy
  <1>6. PcWhole'
    BY <1>1, <1>2, <1>5 DEF PcInv, PcWhole, PcPaired, pcFiles
  <1>7. PcKnown'
    BY <1>1, <1>2, <1>5 DEF PcInv, PcKnown, PcNamed, pcFiles
  <1> QED BY <1>3, <1>4, <1>6, <1>7 DEF PcInv

LEMMA PcAppendLogStep ==
    ASSUME PcInv, NEW p \in PcProcs, NEW fails \in BOOLEAN, PcAppendLog(p, fails) PROVE PcInv'
  <1>1. /\ pcAt[p] = "append" /\ pcAt' = [pcAt EXCEPT ![p] = "idle"]
        /\ UNCHANGED <<pcFiles, pcDesk, pcWork, pcDaemon, pcPassed, pcTorn>>
    BY DEF PcAppendLog
  <1>2. pcAt'[p] = "idle" /\ \A q \in PcProcs : q # p => pcAt'[q] = pcAt[q]
    BY <1>1 DEF PcInv, PcShape
  <1>3. /\ fails => pcSilent' /\ pcLog' = pcLog
        /\ ~fails => pcSilent' = pcSilent /\ pcLog' = pcOldLog[p] \cup {pcCand[p]}
    BY DEF PcAppendLog, PcRows
  <1>4. PcShape'
    <2>1. pcLog' \subseteq PcStrategies
      BY <1>3 DEF PcInv, PcShape
    <2> QED BY <1>1, <1>2, <2>1 DEF PcInv, PcShape, pcFiles, pcWork, pcDesk, pcDaemon
  <1>5. PcVetted'
    BY <1>1, <1>2 DEF PcInv, PcVetted, PcPassed, PcBusy, pcFiles, pcWork
  <1>6. PcAlone => PcAlone' /\ \A q \in PcProcs : q # p => pcAt[q] \in {"idle", "audit"}
    BY <1>1, <1>2 DEF PcAlone, PcBusy
  <1>7. PcWhole'
    BY <1>1, <1>2, <1>6 DEF PcInv, PcWhole, PcPaired, pcFiles, pcWork
  <1>8. PcKnown'
    <2> SUFFICES ASSUME ~pcSilent' PROVE PcKnown'
      BY DEF PcKnown
    <2>1. ~pcSilent /\ PcAlone /\ pcLive' = pcLive /\ pcLive = pcCand[p] /\ pcLog' = pcLog \cup {pcCand[p]}
      BY <1>1, <1>3 DEF PcInv, PcKnown, PcNamed, pcFiles
    <2> QED BY <1>2, <1>6, <2>1 DEF PcKnown, PcNamed
  <1> QED BY <1>4, <1>5, <1>7, <1>8 DEF PcInv

LEMMA PcCrashStep == ASSUME PcInv, NEW p \in PcProcs, PcCrash(p) PROVE PcInv'
  <1>1. /\ pcAt' = [pcAt EXCEPT ![p] = "idle"]
        /\ UNCHANGED <<pcFiles, pcDesk, pcLog, pcWork, pcDaemon, pcPassed>>
    BY DEF PcCrash
  <1>2. pcAt'[p] = "idle" /\ \A q \in PcProcs : q # p => pcAt'[q] = pcAt[q]
    BY <1>1 DEF PcInv, PcShape
  <1>3. /\ ~pcTorn' => ~pcTorn /\ pcAt[p] # "rules"
        /\ ~pcSilent' => ~pcSilent /\ pcAt[p] \notin {"rules", "log", "append"}
    BY DEF PcCrash
  <1>4. PcShape'
    BY <1>1, <1>2 DEF PcInv, PcShape, pcFiles, pcWork, pcDesk, pcDaemon
  <1>5. PcVetted'
    BY <1>1, <1>2 DEF PcInv, PcVetted, PcPassed, PcBusy, pcFiles, pcWork
  <1>6. PcAlone => PcAlone'
    BY <1>1, <1>2 DEF PcAlone, PcBusy
  <1>7. PcWhole'
    BY <1>1, <1>2, <1>3, <1>6 DEF PcInv, PcWhole, PcPaired, pcFiles, pcWork
  <1>8. PcKnown'
    BY <1>1, <1>2, <1>3, <1>6 DEF PcInv, PcKnown, PcNamed, pcFiles, pcWork
  <1> QED BY <1>4, <1>5, <1>7, <1>8 DEF PcInv

\* The payloads are read.
LEMMA PcBeginStep == ASSUME PcInv, NEW p \in PcProcs, NEW b \in BOOLEAN, PcBegin(p, b) PROVE PcInv'
  <1>1. /\ pcAt[p] = "idle" /\ pcAt' = [pcAt EXCEPT ![p] = "audit"] /\ pcSchema' = [pcSchema EXCEPT ![p] = b]
        /\ pcCand' = [pcCand EXCEPT ![p] = pcStaged]
        /\ pcCandRules' = [pcCandRules EXCEPT ![p] = IF b THEN pcStagedRules ELSE pcRules]
        /\ UNCHANGED <<pcFiles, pcDesk, pcLog, pcOldS, pcOldR, pcOldLog, pcDaemon, pcPassed, pcTorn, pcSilent>>
    BY DEF PcBegin
  <1>2. /\ pcAt'[p] = "audit"
        /\ \A q \in PcProcs : q # p => /\ pcAt'[q] = pcAt[q] /\ pcCand'[q] = pcCand[q]
                                       /\ pcCandRules'[q] = pcCandRules[q] /\ pcSchema'[q] = pcSchema[q]
    BY <1>1 DEF PcInv, PcShape
  <1>3. PcShape'
    <2>1. pcSchema' \in [PcProcs -> BOOLEAN]
      BY <1>1 DEF PcInv, PcShape
    <2>2. pcCand' \in [PcProcs -> PcStrategies] /\ pcCandRules' \in [PcProcs -> PcResearch]
      BY <1>1 DEF PcInv, PcShape
    <2> QED BY <1>1, <1>2, <2>1, <2>2 DEF PcInv, PcShape, pcFiles, pcDesk, pcDaemon
  <1>4. PcVetted'
    BY <1>1, <1>2 DEF PcInv, PcVetted, PcPassed, PcBusy, pcFiles
  <1>5. PcAlone => PcAlone'
    BY <1>1, <1>2 DEF PcAlone, PcBusy
  <1>6. PcWhole'
    BY <1>1, <1>2, <1>5 DEF PcInv, PcWhole, PcPaired, pcFiles
  <1>7. PcKnown'
    BY <1>1, <1>2, <1>5 DEF PcInv, PcKnown, PcNamed, pcFiles
  <1> QED BY <1>3, <1>4, <1>6, <1>7 DEF PcInv

LEMMA PcInvStep == PcInv /\ [PcNext]_pcVars => PcInv'
  <1> SUFFICES ASSUME PcInv, [PcNext]_pcVars PROVE PcInv'
    OBVIOUS
  <1> USE DEF PcInv, PcShape, PcVetted, PcPassed, PcBusy, PcWhole, PcAlone, PcPaired, PcKnown, PcNamed,
              pcFiles, pcDesk, pcWork, pcDaemon
  <1>1. ASSUME NEW s \in PcStrategies, NEW r \in PcResearch, PcStage(s, r) PROVE PcInv'
    BY <1>1 DEF PcStage
  <1>2. ASSUME NEW remote \in BOOLEAN, PcBoot(remote) PROVE PcInv'
    BY <1>2 DEF PcBoot
  <1>3. CASE PcShutdown
    BY <1>3 DEF PcShutdown
  <1>4. CASE UNCHANGED pcVars
    BY <1>4 DEF pcVars
  <1> QED
    BY ONLY PcInv, [PcNext]_pcVars, <1>1, <1>2, <1>3, <1>4, PcAuditStep, PcWriteStrategyStep, PcWriteRulesStep,
       PcWriteFailsStep, PcReadLogStep, PcAppendLogStep, PcCrashStep, PcBeginStep DEF PcNext

\* A step that silences nothing takes no row out of the log.
LEMMA PcLogGrows == PcInv /\ [PcNext]_pcVars => (~pcSilent' => pcLog \subseteq pcLog')
  <1> SUFFICES ASSUME PcInv, [PcNext]_pcVars, ~pcSilent' PROVE pcLog \subseteq pcLog'
    OBVIOUS
  <1>1. ASSUME NEW p \in PcProcs, NEW b \in BOOLEAN, PcAppendLog(p, b) PROVE pcLog \subseteq pcLog'
    BY <1>1 DEF PcAppendLog, PcRows, PcInv, PcKnown, PcNamed
  <1>2. \/ pcLog' = pcLog
        \/ \E p \in PcProcs, b \in BOOLEAN : PcAppendLog(p, b)
    BY DEF PcNext, pcVars, PcStage, PcAudit, PcWriteStrategy, PcWriteRules, PcReadLog, PcCrash, PcBegin,
           PcWriteFails, PcBoot, PcShutdown
  <1> QED BY <1>1, <1>2

\* What is live was audited, its two files belong together between commits, and the log names it: for
\* any processes, files and number of faults and commits.
THEOREM ParametersCommitWhole == PcSpec => PcCommitsWhole
  <1>1. PcInv => PcTypeOK /\ PcAudited /\ PcConsistent
    <2> SUFFICES ASSUME PcInv PROVE PcTypeOK /\ PcAudited /\ PcConsistent
      OBVIOUS
    <2>1. PcTypeOK
      BY DEF PcInv, PcShape, PcTypeOK
    <2>2. PcAudited
      BY DEF PcInv, PcVetted, PcPassed, PcAudited
    <2>3. PcConsistent
      BY DEF PcInv, PcWhole, PcBusy, PcConsistent
    <2> QED BY <2>1, <2>2, <2>3
  <1>2. PcInv /\ PcInv' /\ [PcNext]_pcVars =>
            [~pcSilent' => /\ pcLog \subseteq pcLog'
                           /\ (\A p \in PcProcs : ~PcBusy(p))' => pcLive' \in pcLog' \cup {PcFirst.s}]_pcVars
    BY PcLogGrows DEF PcInv, PcKnown, PcBusy
  <1> QED BY <1>1, <1>2, PcInvInit, PcInvStep, PTL DEF PcSpec, PcCommitsWhole, PcLogged

-----------------------------------------------------------------------------
(* PolicyLifecycle.                                                        *)

\* A lifecycle row, on the day plDay at the latest.
PlRowType == [state : PlStates, clean : 0..PlMinDays, prior : {"none", "PROBATIONAL", "SOVEREIGN"}, updated : Nat]

PlShape ==
    /\ plRow \in [PlLegs -> PlRowType] /\ plStored \in [PlProcs -> PlRowType]
    /\ \A l \in PlLegs : plRow[l].updated <= plDay
    /\ plDay \in 1..PlMaxDay /\ plEvicted \in 0..(PlMaxDay + PlLockDays)
    /\ plAt \in [PlProcs -> {"idle", "pick", "held", "write"}] /\ plAt["intraday"] # "write"
    /\ plTodo \in [PlProcs -> SUBSET PlLegs] /\ plLeg \in [PlProcs -> PlLegs \cup {PlAnyLeg}]
    /\ \A p \in PlProcs : plAt[p] \in {"held", "write"} => plLeg[p] \in PlLegs
    /\ plGoal \in [state : PlStates, clean : 0..PlMinDays]
    /\ plStatus \in [PlLegs -> PlStatus] /\ plPromoted \subseteq PlLegs

\* The shadow rows: every row logged since the shock is queued or committed.
PlLogged ==
    /\ plQueued \in [PlLegs -> Nat] /\ plRows \in [PlLegs -> Nat] /\ plSince \in [PlLegs -> Nat]
    /\ \A l \in PlLegs : plSince[l] = plQueued[l] + plRows[l] /\ plSince[l] <= PlMinSamples

\* Sovereignty and the memory of it, in the row and in every copy that was read, were earned.
PlEarnedCopies ==
    /\ \A l \in PlLegs : "SOVEREIGN" \in {plRow[l].state, plRow[l].prior} => l \in plPromoted
    /\ \A p \in PlProcs : plAt[p] \in {"held", "write"} /\ "SOVEREIGN" \in {plStored[p].state, plStored[p].prior}
                            => plLeg[p] \in plPromoted

\* A day is counted before the row is written, and only by the evening.
PlCountKept ==
    /\ plCounted \in [PlLegs -> Nat]
    /\ \A l \in PlLegs : plCounted[l] <= plRow[l].updated \/ (plAt["evening"] = "write" /\ plLeg["evening"] = l)
    /\ \A l \in PlLegs : plCounted[l] <= plDay
    /\ plAt["evening"] = "held" => /\ plCounted[plLeg["evening"]] <= plStored["evening"].updated
                                   /\ plStored["evening"].updated <= plDay
    /\ plAt["evening"] # "write" => plGoal.clean = 0

\* What was read is what is there, unless somebody else wrote the leg's row.
PlFreshCopies ==
    /\ plStale \in [PlProcs -> BOOLEAN]
    /\ \A p \in PlProcs : plAt[p] = "held" /\ ~plStale[p] => plRow[plLeg[p]].state = plStored[p].state
    /\ plAt["evening"] = "write" /\ plGoal.state = "SOVEREIGN" /\ ~plStale["evening"]
         => plRow[plLeg["evening"]].state # "PASSIVE_SHADOW"

PlInv == PlShape /\ PlLogged /\ PlEarnedCopies /\ PlCountKept /\ PlFreshCopies

LEMMA PlInvInit == PlInit => PlInv
  <1> SUFFICES ASSUME PlInit PROVE PlInv
    OBVIOUS
  <1>1. PlFresh \in PlRowType /\ PlFresh.state = "PASSIVE_SHADOW" /\ PlFresh.prior = "none" /\ PlFresh.updated = 0
    BY PlAssumption DEF PlFresh, PlRowType, PlStates
  <1>2. PlShape
    BY <1>1, PlAssumption DEF PlInit, PlShape, PlProcs, PlStates, PlStatus
  <1>3. PlLogged
    BY PlAssumption DEF PlInit, PlLogged
  <1>4. PlEarnedCopies
    BY <1>1 DEF PlInit, PlEarnedCopies, PlProcs
  <1>5. PlCountKept
    BY <1>1 DEF PlInit, PlCountKept, PlProcs
  <1>6. PlFreshCopies
    <2>1. plStale \in [PlProcs -> BOOLEAN]
      BY DEF PlInit
    <2> QED BY <2>1 DEF PlInit, PlFreshCopies, PlProcs
  <1> QED BY <1>2, <1>3, <1>4, <1>5, <1>6 DEF PlInv

\* An upsert changes one row, and marks what others hold of it as old.
PlWrote(p, l, state, prior) ==
    /\ plRow' \in [PlLegs -> PlRowType]
    /\ plRow'[l].state = state /\ plRow'[l].prior = prior /\ plRow'[l].updated = plDay
    /\ \A m \in PlLegs : m # l => plRow'[m] = plRow[m]
    /\ \A m \in PlLegs : plRow'[m].updated <= plDay /\ plRow[m].updated <= plRow'[m].updated
    /\ plStale' \in [PlProcs -> BOOLEAN]
    /\ \A q \in PlProcs : q # p /\ plAt[q] \in {"held", "write"} /\ ~plStale'[q] => ~plStale[q] /\ plLeg[q] # l

\* What an upsert writes, and whose copies it makes stale.
LEMMA PlUpserted ==
    ASSUME PlInv, NEW p, NEW l \in PlLegs, NEW state \in PlStates, NEW clean \in 0..PlMinDays,
           NEW prior \in {"none", "PROBATIONAL", "SOVEREIGN"}, PlUpsert(p, l, state, clean, prior)
    PROVE  PlWrote(p, l, state, prior)
  <1>1. plRow' = [plRow EXCEPT ![l] = [state |-> state, clean |-> clean, prior |-> prior, updated |-> plDay]]
    BY DEF PlUpsert
  <1>2. plDay \in Nat /\ plRow \in [PlLegs -> PlRowType] /\ \A m \in PlLegs : plRow[m].updated <= plDay
    BY DEF PlInv, PlShape
  <1>3. [state |-> state, clean |-> clean, prior |-> prior, updated |-> plDay] \in PlRowType
    BY <1>2 DEF PlRowType
  <1>4. \A m \in PlLegs : plRow[m].updated \in Nat
    BY <1>2 DEF PlRowType
  <1>5. plStale' = [q \in PlProcs |->
                      (q # p /\ plStale[q]) \/ (q # p /\ plAt[q] \in {"held", "write"} /\ plLeg[q] = l)]
    BY DEF PlUpsert
  <1>6. plStale' \in [PlProcs -> BOOLEAN]
    BY <1>5
  <1>7. \A q \in PlProcs : q # p /\ plAt[q] \in {"held", "write"} /\ ~plStale'[q] => ~plStale[q] /\ plLeg[q] # l
    BY <1>5
  <1>8. plRow' \in [PlLegs -> PlRowType]
    BY <1>1, <1>2, <1>3
  <1>9. \A m \in PlLegs : m # l => plRow'[m] = plRow[m]
    BY <1>1, <1>2
  <1>10. plRow'[l].state = state /\ plRow'[l].prior = prior /\ plRow'[l].updated = plDay
    BY <1>1, <1>2
  <1>11. \A m \in PlLegs : plRow'[m].updated <= plDay /\ plRow[m].updated <= plRow'[m].updated
    BY <1>2, <1>4, <1>9, <1>10
  <1> QED BY <1>6, <1>7, <1>8, <1>9, <1>10, <1>11 DEF PlWrote

\* The fields of a row.
LEMMA PlRowFields ==
    ASSUME NEW r \in PlRowType
    PROVE  /\ r.state \in PlStates /\ r.clean \in 0..PlMinDays /\ r.updated \in Nat
           /\ r.prior \in {"none", "PROBATIONAL", "SOVEREIGN"}
  BY DEF PlRowType

LEMMA PlEvictStep == ASSUME PlInv, NEW l \in PlLegs, PlEvict(l) PROVE PlInv'
  <1>1. /\ plEvicted' = plDay + PlLockDays /\ PlUpsert("none", l, "PASSIVE_SHADOW", 0, plRow[l].prior)
        /\ UNCHANGED <<plDay, plAt, plKind, plTask, plGoal, plShadow, plPromoted, plCounted>>
    BY DEF PlEvict
  <1>2. /\ plRow[l].prior \in {"none", "PROBATIONAL", "SOVEREIGN"}
        /\ "PASSIVE_SHADOW" \in PlStates /\ 0 \in 0..PlMinDays /\ "none" \notin PlProcs
    BY PlRowFields, PlAssumption DEF PlInv, PlShape, PlStates, PlProcs
  <1>3. /\ plRow' \in [PlLegs -> PlRowType]
        /\ plRow'[l].state = "PASSIVE_SHADOW" /\ plRow'[l].prior = plRow[l].prior
        /\ \A m \in PlLegs : m # l => plRow'[m] = plRow[m]
        /\ \A m \in PlLegs : plRow'[m].updated <= plDay /\ plRow[m].updated <= plRow'[m].updated
        /\ plStale' \in [PlProcs -> BOOLEAN]
        /\ \A q \in PlProcs : plAt[q] \in {"held", "write"} /\ ~plStale'[q] => ~plStale[q] /\ plLeg[q] # l
    <2>1. PlWrote("none", l, "PASSIVE_SHADOW", plRow[l].prior)
      BY <1>1, <1>2, PlUpserted
    <2> QED BY <1>2, <2>1 DEF PlWrote
  <1>4. PlShape'
    <2>1. plEvicted' \in 0..(PlMaxDay + PlLockDays)
      BY <1>1, PlAssumption DEF PlInv, PlShape
    <2> QED BY <1>1, <1>3, <2>1 DEF PlInv, PlShape, plTask, plShadow
  <1>5. PlLogged'
    BY <1>1 DEF PlInv, PlLogged, plShadow
  <1>6. PlEarnedCopies'
    BY <1>1, <1>3 DEF PlInv, PlEarnedCopies, plTask
  <1>7. PlCountKept'
    <2>1. \A m \in PlLegs : plRow[m].updated \in Nat /\ plRow'[m].updated \in Nat
      BY <1>3, PlRowFields DEF PlInv, PlShape
    <2>2. \A m \in PlLegs : plCounted[m] <= plRow'[m].updated \/ (plAt["evening"] = "write" /\ plLeg["evening"] = m)
      BY <1>3, <2>1 DEF PlInv, PlCountKept
    <2> QED BY <1>1, <2>2 DEF PlInv, PlCountKept, plTask
  <1>8. PlFreshCopies'
    <2>1. ASSUME NEW q \in PlProcs, plAt[q] = "held", ~plStale'[q] PROVE plRow'[plLeg[q]].state = plStored[q].state
      BY <1>3, <2>1 DEF PlInv, PlShape, PlFreshCopies
    <2>2. ASSUME plAt["evening"] = "write", plGoal.state = "SOVEREIGN", ~plStale'["evening"]
          PROVE  plRow'[plLeg["evening"]].state # "PASSIVE_SHADOW"
      BY <1>3, <2>2 DEF PlInv, PlShape, PlFreshCopies, PlProcs
    <2> QED BY <1>1, <1>3, <2>1, <2>2 DEF PlFreshCopies, plTask
  <1> QED BY <1>4, <1>5, <1>6, <1>7, <1>8 DEF PlInv

\* The day turns, and the loop over the legs.
LEMMA PlLoopStep ==
    ASSUME PlInv, \/ PlTomorrow
                  \/ \E p \in PlProcs, kind \in {"shock", "recovery"} : PlStart(p, kind)
                  \/ \E p \in PlProcs : PlRead(p) \/ PlDone(p)
    PROVE  PlInv'
  <1>1. CASE PlTomorrow
    <2>1. /\ plDay \in Nat /\ plDay' = plDay + 1 /\ plDay' \in 1..PlMaxDay /\ plAt["evening"] = "idle"
          /\ UNCHANGED <<plRow, plEvicted, plAt, plKind, plTask, plGoal, plShadow, plStale, plPromoted, plCounted>>
      BY <1>1, PlAssumption DEF PlTomorrow, PlInv, PlShape
    <2>2. \A l \in PlLegs : plRow[l].updated \in Nat /\ plRow[l].updated <= plDay'
      BY <2>1, PlRowFields DEF PlInv, PlShape
    <2>3. PlShape'
      BY <2>1, <2>2 DEF PlInv, PlShape, plTask, plShadow
    <2>4. PlCountKept'
      BY <2>1 DEF PlInv, PlCountKept, plTask
    <2> QED BY <2>1, <2>3, <2>4 DEF PlInv, PlLogged, PlEarnedCopies, PlFreshCopies, plTask, plShadow
  <1>2. ASSUME NEW p \in PlProcs, NEW kind \in {"shock", "recovery"}, PlStart(p, kind) PROVE PlInv'
    <2>1. /\ plAt[p] = "idle" /\ plAt' = [plAt EXCEPT ![p] = "pick"] /\ plTodo' = [plTodo EXCEPT ![p] = PlLegs]
          /\ UNCHANGED <<plRow, plEvicted, plDay, plLeg, plStored, plGoal, plShadow, plStale, plPromoted, plCounted>>
      BY <1>2 DEF PlStart
    <2>2. plAt'[p] = "pick" /\ \A q \in PlProcs : q # p => plAt'[q] = plAt[q]
      BY <2>1 DEF PlInv, PlShape
    <2>3. PlShape'
      BY <2>1, <2>2 DEF PlInv, PlShape, PlProcs, plShadow
    <2>4. PlEarnedCopies'
      BY <2>1, <2>2 DEF PlInv, PlEarnedCopies
    <2>5. PlCountKept'
      BY <2>1, <2>2 DEF PlInv, PlCountKept, PlProcs
    <2>6. PlFreshCopies'
      BY <2>1, <2>2 DEF PlInv, PlFreshCopies, PlProcs
    <2> QED BY <2>1, <2>3, <2>4, <2>5, <2>6 DEF PlInv, PlLogged, plShadow
  <1>3. ASSUME NEW p \in PlProcs, PlRead(p) PROVE PlInv'
    <2>1. PICK l \in plTodo[p] :
            /\ plLeg' = [plLeg EXCEPT ![p] = l] /\ plStored' = [plStored EXCEPT ![p] = plRow[l]]
            /\ plTodo' = [plTodo EXCEPT ![p] = @ \ {l}]
      BY <1>3 DEF PlRead
    <2>2. /\ plAt[p] = "pick" /\ plAt' = [plAt EXCEPT ![p] = "held"] /\ plStale' = [plStale EXCEPT ![p] = FALSE]
          /\ UNCHANGED <<plRow, plEvicted, plDay, plKind, plGoal, plShadow, plPromoted, plCounted>>
      BY <1>3 DEF PlRead
    <2>3. l \in PlLegs
      BY <2>1 DEF PlInv, PlShape
    <2>4. /\ plAt'[p] = "held" /\ plLeg'[p] = l /\ plStored'[p] = plRow[l]
          /\ \A q \in PlProcs : q # p => plAt'[q] = plAt[q] /\ plLeg'[q] = plLeg[q] /\ plStored'[q] = plStored[q]
      BY <2>1, <2>2 DEF PlInv, PlShape
    <2>5. /\ plStale' \in [PlProcs -> BOOLEAN]
          /\ \A q \in PlProcs : q # p => plStale'[q] = plStale[q]
      BY <2>2 DEF PlInv, PlFreshCopies
    <2>6. PlShape'
      <3>1. plStored' \in [PlProcs -> PlRowType] /\ plTodo' \in [PlProcs -> SUBSET PlLegs]
            /\ plLeg' \in [PlProcs -> PlLegs \cup {PlAnyLeg}]
        BY <2>1, <2>3 DEF PlInv, PlShape
      <3>2. plAt' \in [PlProcs -> {"idle", "pick", "held", "write"}] /\ plAt'["intraday"] # "write"
        BY <2>2, <2>4 DEF PlInv, PlShape, PlProcs
      <3> QED BY <2>2, <2>3, <2>4, <3>1, <3>2 DEF PlInv, PlShape, plShadow
    <2>7. PlEarnedCopies'
      BY <2>2, <2>3, <2>4 DEF PlInv, PlEarnedCopies
    <2>8. PlCountKept'
      <3>1. plAt'["evening"] = "write" => p # "evening" /\ plAt["evening"] = "write"
        BY <2>4 DEF PlProcs
      <3>2. plAt["evening"] = "write" => p # "evening"
        BY <2>2
      <3>3. \A m \in PlLegs : plCounted[m] <= plRow[m].updated \/ (plAt'["evening"] = "write" /\ plLeg'["evening"] = m)
        BY <2>4, <3>2 DEF PlInv, PlCountKept, PlProcs
      <3>4. plAt'["evening"] = "held" => /\ plCounted[plLeg'["evening"]] <= plStored'["evening"].updated
                                         /\ plStored'["evening"].updated <= plDay
        <4>1. CASE p = "evening"
          BY <2>2, <2>3, <2>4, <4>1 DEF PlInv, PlShape, PlCountKept
        <4>2. CASE p # "evening"
          BY <2>4, <4>2 DEF PlInv, PlCountKept, PlProcs
        <4> QED BY <4>1, <4>2
      <3>5. plAt'["evening"] # "write" => plGoal.clean = 0
        BY <2>4, <3>2 DEF PlInv, PlCountKept, PlProcs
      <3> QED BY <2>2, <3>3, <3>4, <3>5 DEF PlInv, PlCountKept
    <2>9. PlFreshCopies'
      BY <2>2, <2>4, <2>5 DEF PlInv, PlFreshCopies, PlProcs
    <2> QED BY <2>2, <2>6, <2>7, <2>8, <2>9 DEF PlInv, PlLogged, plShadow
  <1>4. ASSUME NEW p \in PlProcs, PlDone(p) PROVE PlInv'
    <2>1. /\ plAt[p] = "pick" /\ plAt' = [plAt EXCEPT ![p] = "idle"]
          /\ UNCHANGED <<plRow, plEvicted, plDay, plKind, plTask, plGoal, plShadow, plStale, plPromoted, plCounted>>
      BY <1>4 DEF PlDone
    <2>2. plAt'[p] = "idle" /\ \A q \in PlProcs : q # p => plAt'[q] = plAt[q]
      BY <2>1 DEF PlInv, PlShape
    <2>3. PlShape'
      BY <2>1, <2>2 DEF PlInv, PlShape, PlProcs, plShadow, plTask
    <2>4. PlEarnedCopies'
      BY <2>1, <2>2 DEF PlInv, PlEarnedCopies, plTask
    <2>5. PlCountKept'
      BY <2>1, <2>2 DEF PlInv, PlCountKept, PlProcs, plTask
    <2>6. PlFreshCopies'
      BY <2>1, <2>2 DEF PlInv, PlFreshCopies, PlProcs, plTask
    <2> QED BY <2>1, <2>3, <2>4, <2>5, <2>6 DEF PlInv, PlLogged, plShadow
  <1> QED BY <1>1, <1>2, <1>3, <1>4

\* The evening evaluates a leg and writes nothing yet.
LEMMA PlQuietStep ==
    ASSUME PlInv, plAt["evening"] = "held", plAt' = [plAt EXCEPT !["evening"] = "write"],
           UNCHANGED <<plEvicted, plDay, plKind, plTask, plShadow, plPromoted, plRow, plStale>>,
           plGoal' \in [state : PlStates, clean : 0..PlMinDays],
           plGoal'.state = "SOVEREIGN" => plStored["evening"].state # "PASSIVE_SHADOW",
           plCounted' = plCounted \/ plCounted' = [plCounted EXCEPT ![plLeg["evening"]] = plDay]
    PROVE  PlInv'
  <1>1. plAt'["evening"] = "write" /\ plAt'["intraday"] = plAt["intraday"]
    BY DEF PlInv, PlShape, PlProcs
  <1>2. plLeg' = plLeg /\ plStored' = plStored /\ plTodo' = plTodo /\ plLeg["evening"] \in PlLegs
    BY DEF PlInv, PlShape, PlProcs, plTask
  <1>3. PlShape'
    BY <1>1, <1>2 DEF PlInv, PlShape, PlProcs, plShadow
  <1>4. PlLogged'
    BY DEF PlInv, PlLogged, plShadow
  <1>5. PlEarnedCopies'
    BY <1>1, <1>2 DEF PlInv, PlEarnedCopies, PlProcs
  <1>6. PlCountKept'
    <2>1. plDay \in Nat
      BY DEF PlInv, PlShape
    <2>2. /\ plCounted' \in [PlLegs -> Nat]
          /\ \A l \in PlLegs : plCounted'[l] <= plDay
          /\ \A l \in PlLegs : l # plLeg["evening"] => plCounted'[l] = plCounted[l]
      BY <1>2, <2>1 DEF PlInv, PlCountKept
    <2> QED BY <1>1, <1>2, <2>2 DEF PlInv, PlCountKept
  <1>7. PlFreshCopies'
    BY <1>1, <1>2 DEF PlInv, PlFreshCopies, PlProcs
  <1> QED BY <1>3, <1>4, <1>5, <1>6, <1>7 DEF PlInv

\* The evening rolls a leg back: a first write, before the final one.
LEMMA PlRollbackStep ==
    ASSUME PlInv, plAt["evening"] = "held", plAt' = [plAt EXCEPT !["evening"] = "write"],
           UNCHANGED <<plEvicted, plDay, plKind, plTask, plShadow, plPromoted>>, PlRollback
    PROVE  PlInv'
  <1> DEFINE l == plLeg["evening"]
             down == PlStagedDown(plStored["evening"].state)
  <1>1. plAt'["evening"] = "write" /\ plAt'["intraday"] = plAt["intraday"]
    BY DEF PlInv, PlShape, PlProcs
  <1>2. plLeg' = plLeg /\ plStored' = plStored /\ plTodo' = plTodo /\ l \in PlLegs
    BY DEF PlInv, PlShape, PlProcs, plTask
  <1>3. /\ PlUpsert("evening", l, down, 0, plRow[l].prior)
        /\ plGoal' = [state |-> down, clean |-> plStored["evening"].clean] /\ plCounted' = plCounted
    BY DEF PlRollback
  <1>4. down \in PlStates /\ down # "SOVEREIGN" /\ 0 \in 0..PlMinDays
    BY PlAssumption DEF PlStagedDown, PlStates
  <1>5. /\ plRow[l].prior \in {"none", "PROBATIONAL", "SOVEREIGN"}
        /\ plStored["evening"].clean \in 0..PlMinDays
    BY <1>2, PlRowFields DEF PlInv, PlShape, PlProcs
  <1> HIDE DEF l, down
  <1>6. /\ plRow' \in [PlLegs -> PlRowType]
        /\ plRow'[l].state = down /\ plRow'[l].prior = plRow[l].prior
        /\ \A m \in PlLegs : m # l => plRow'[m] = plRow[m]
        /\ \A m \in PlLegs : plRow'[m].updated <= plDay /\ plRow[m].updated <= plRow'[m].updated
        /\ plStale' \in [PlProcs -> BOOLEAN]
        /\ \A q \in PlProcs : q # "evening" /\ plAt[q] \in {"held", "write"} /\ ~plStale'[q]
                                => ~plStale[q] /\ plLeg[q] # l
    <2>1. PlWrote("evening", l, down, plRow[l].prior)
      BY <1>2, <1>3, <1>4, <1>5, PlUpserted
    <2> QED BY <2>1 DEF PlWrote
  <1>7. plGoal' \in [state : PlStates, clean : 0..PlMinDays] /\ plGoal'.state # "SOVEREIGN"
    BY <1>3, <1>4, <1>5
  <1>8. PlShape'
    BY <1>1, <1>2, <1>6, <1>7 DEF PlInv, PlShape, PlProcs, plShadow, l
  <1>9. PlLogged'
    BY DEF PlInv, PlLogged, plShadow
  <1>10. PlEarnedCopies'
    BY <1>1, <1>2, <1>4, <1>6 DEF PlInv, PlEarnedCopies, PlProcs
  <1>11. PlCountKept'
    <2>1. \A m \in PlLegs : plRow[m].updated \in Nat /\ plRow'[m].updated \in Nat
      BY <1>6, PlRowFields DEF PlInv, PlShape
    <2>2. \A m \in PlLegs : m # l => plCounted[m] <= plRow'[m].updated
      BY <1>6 DEF PlInv, PlCountKept
    <2> QED BY <1>1, <1>2, <1>3, <2>2 DEF PlInv, PlCountKept, l
  <1>12. PlFreshCopies'
    <2>1. ASSUME plAt["intraday"] = "held", ~plStale'["intraday"]
          PROVE  plRow'[plLeg["intraday"]].state = plStored["intraday"].state
      BY <1>6, <2>1 DEF PlInv, PlShape, PlFreshCopies, PlProcs
    <2> QED BY <1>1, <1>2, <1>6, <1>7, <2>1 DEF PlFreshCopies, PlProcs
  <1> QED BY <1>8, <1>9, <1>10, <1>11, <1>12 DEF PlInv

\* The evening, one leg, up to its final upsert.
LEMMA PlEveningStep ==
    ASSUME PlInv,
           \/ \E ledger \in PlLedgers, ahead \in BOOLEAN : PlSieve(ledger, ahead)
           \/ \E bad \in PlSlo, maintains, anomaly, gates \in BOOLEAN, traded \in {0, PlMinDays} :
                PlProbation(bad, maintains, anomaly, traded, gates)
           \/ \E bad \in PlSlo, maintains \in BOOLEAN : PlSovereign(bad, maintains)
    PROVE  PlInv'
  <1> DEFINE stored == plStored["evening"]
  <1>1. stored.state \in PlStates /\ stored.clean \in 0..PlMinDays /\ PlMinDays \in Nat
    BY PlRowFields, PlAssumption DEF PlInv, PlShape, PlProcs
  <1>2. ASSUME NEW state, PlEvaluated(state)
        PROVE  /\ plAt["evening"] = "held" /\ stored.state = state
               /\ plAt' = [plAt EXCEPT !["evening"] = "write"]
               /\ UNCHANGED <<plEvicted, plDay, plKind, plTask, plShadow, plPromoted>>
    BY <1>2 DEF PlEvaluated
  <1>3. ASSUME NEW state, PlEvaluated(state), PlKeep PROVE PlInv'
    <2>1. /\ plGoal' = [state |-> stored.state, clean |-> stored.clean] /\ plCounted' = plCounted
          /\ plRow' = plRow /\ plStale' = plStale
      BY <1>3 DEF PlKeep
    <2>2. plGoal' \in [state : PlStates, clean : 0..PlMinDays] /\ plGoal'.state = stored.state
      BY <1>1, <2>1
    <2> QED BY <1>2, <1>3, <2>1, <2>2, PlQuietStep
  <1>4. ASSUME NEW state, PlEvaluated(state), PlRollback PROVE PlInv'
    BY <1>2, <1>4, PlRollbackStep
  <1>5. ASSUME NEW ledger \in PlLedgers, NEW ahead \in BOOLEAN, PlSieve(ledger, ahead) PROVE PlInv'
    <2>1. CASE PlKeep
      BY <1>3, <1>5, <2>1 DEF PlSieve
    <2>2. CASE /\ plGoal' = [state |-> "PROBATIONAL", clean |-> 0]
               /\ UNCHANGED <<plRow, plStale, plCounted>>
      <3>1. plGoal' \in [state : PlStates, clean : 0..PlMinDays] /\ plGoal'.state = "PROBATIONAL"
        BY <1>1, <2>2 DEF PlStates
      <3>2. PlEvaluated("PASSIVE_SHADOW")
        BY <1>5 DEF PlSieve
      <3> QED BY <1>2, <2>2, <3>1, <3>2, PlQuietStep
    <2> QED BY <1>5, <2>1, <2>2 DEF PlSieve
  <1>6. ASSUME NEW bad \in PlSlo, NEW maintains \in BOOLEAN, NEW anomaly \in BOOLEAN, NEW gates \in BOOLEAN,
               NEW traded \in {0, PlMinDays}, PlProbation(bad, maintains, anomaly, traded, gates)
        PROVE  PlInv'
    <2> DEFINE clean == IF anomaly THEN 0
                        ELSE PlLess(stored.clean + (IF PlCounts(stored) THEN 1 ELSE 0), PlMinDays)
    <2>1. PlEvaluated("PROBATIONAL")
      BY <1>6 DEF PlProbation
    <2>2. CASE PlRollback
      BY <1>4, <2>1, <2>2
    <2>3. CASE /\ plCounted' = [plCounted EXCEPT ![plLeg["evening"]] = IF clean > stored.clean THEN plDay ELSE @]
               /\ plGoal' = [clean |-> clean,
                             state |-> IF PlPromotes(traded, clean, gates) THEN "SOVEREIGN" ELSE "PROBATIONAL"]
               /\ UNCHANGED <<plRow, plStale>>
      <3>1. clean \in 0..PlMinDays
        BY <1>1 DEF PlLess
      <3> HIDE DEF clean, stored
      <3>2. plGoal' \in [state : PlStates, clean : 0..PlMinDays]
        BY <2>3, <3>1 DEF PlStates
      <3>3. plCounted' = plCounted \/ plCounted' = [plCounted EXCEPT ![plLeg["evening"]] = plDay]
        <4>1. plCounted \in [PlLegs -> Nat]
          BY DEF PlInv, PlCountKept
        <4> QED BY <2>3, <4>1
      <3>4. stored.state = "PROBATIONAL"
        BY <1>2, <2>1
      <3> QED BY <1>2, <2>1, <2>3, <3>2, <3>3, <3>4, PlQuietStep DEF stored
    <2>4. PlRollback \/ /\ plCounted' = [plCounted EXCEPT ![plLeg["evening"]] =
                                           IF clean > stored.clean THEN plDay ELSE @]
                        /\ plGoal' = [clean |-> clean,
                                      state |-> IF PlPromotes(traded, clean, gates) THEN "SOVEREIGN"
                                                ELSE "PROBATIONAL"]
                        /\ UNCHANGED <<plRow, plStale>>
      BY <1>6, Zenon DEF PlProbation
    <2> QED BY <2>2, <2>3, <2>4
  <1>7. ASSUME NEW bad \in PlSlo, NEW maintains \in BOOLEAN, PlSovereign(bad, maintains) PROVE PlInv'
    <2>1. PlEvaluated("SOVEREIGN") /\ (PlRollback \/ PlKeep)
      BY <1>7 DEF PlSovereign
    <2> QED BY <1>3, <1>4, <2>1
  <1> QED BY <1>5, <1>6, <1>7

\* A pass over a leg ends.
LEMMA PlForgotten ==
    ASSUME PlInv, NEW p \in PlProcs, PlForget(p)
    PROVE  /\ plAt' \in [PlProcs -> {"idle", "pick", "held", "write"}] /\ plAt'["intraday"] # "write"
           /\ plLeg' \in [PlProcs -> PlLegs \cup {PlAnyLeg}] /\ plStored' \in [PlProcs -> PlRowType]
           /\ plTodo' = plTodo /\ plAt'[p] = "pick"
           /\ \A q \in PlProcs : q # p => plAt'[q] = plAt[q] /\ plLeg'[q] = plLeg[q] /\ plStored'[q] = plStored[q]
  <1>1. PlFresh \in PlRowType
    BY PlAssumption DEF PlFresh, PlRowType, PlStates
  <1> QED BY <1>1 DEF PlInv, PlShape, PlForget, PlProcs

\* The evening's final upsert.
LEMMA PlWriteStep == ASSUME PlInv, PlWrite PROVE PlInv'
  <1> DEFINE l == plLeg["evening"]
  <1>1. /\ plAt["evening"] = "write" /\ PlForget("evening")
        /\ plGoal' = [state |-> "PASSIVE_SHADOW", clean |-> 0]
        /\ PlUpsert("evening", l, plGoal.state, plGoal.clean, plRow[l].prior)
        /\ plPromoted' = IF plGoal.state = "SOVEREIGN" /\ plStored["evening"].state # "SOVEREIGN"
                         THEN plPromoted \cup {l} ELSE plPromoted
        /\ UNCHANGED <<plEvicted, plDay, plKind, plShadow, plCounted>>
    BY DEF PlWrite
  <1>2. l \in PlLegs /\ plGoal.state \in PlStates /\ plGoal.clean \in 0..PlMinDays /\ 0 \in 0..PlMinDays
        /\ "evening" \in PlProcs
    BY <1>1, PlAssumption DEF PlInv, PlShape, PlProcs
  <1>3. plRow[l].prior \in {"none", "PROBATIONAL", "SOVEREIGN"}
    BY <1>2, PlRowFields DEF PlInv, PlShape
  <1> HIDE DEF l
  <1>4. /\ plRow' \in [PlLegs -> PlRowType]
        /\ plRow'[l].state = plGoal.state /\ plRow'[l].prior = plRow[l].prior /\ plRow'[l].updated = plDay
        /\ \A m \in PlLegs : m # l => plRow'[m] = plRow[m]
        /\ \A m \in PlLegs : plRow'[m].updated <= plDay /\ plRow[m].updated <= plRow'[m].updated
        /\ plStale' \in [PlProcs -> BOOLEAN]
        /\ \A q \in PlProcs : q # "evening" /\ plAt[q] \in {"held", "write"} /\ ~plStale'[q]
                                => ~plStale[q] /\ plLeg[q] # l
    <2>1. PlWrote("evening", l, plGoal.state, plRow[l].prior)
      BY <1>1, <1>2, <1>3, PlUpserted
    <2> QED BY <2>1 DEF PlWrote
  <1>5. /\ plAt' \in [PlProcs -> {"idle", "pick", "held", "write"}] /\ plAt'["intraday"] # "write"
        /\ plLeg' \in [PlProcs -> PlLegs \cup {PlAnyLeg}] /\ plStored' \in [PlProcs -> PlRowType]
        /\ plTodo' = plTodo /\ plAt'["evening"] = "pick"
        /\ \A q \in PlProcs : q # "evening"
                                => plAt'[q] = plAt[q] /\ plLeg'[q] = plLeg[q] /\ plStored'[q] = plStored[q]
    BY <1>1, <1>2, PlForgotten, Zenon
  <1>6. PlShape'
    BY <1>1, <1>2, <1>4, <1>5 DEF PlInv, PlShape, PlStates, plShadow
  <1>7. PlLogged'
    BY <1>1 DEF PlInv, PlLogged, plShadow
  <1>8. PlEarnedCopies'
    <2>1. plRow'[l].state = "SOVEREIGN" => l \in plPromoted'
      BY <1>1, <1>4, <1>2 DEF PlInv, PlEarnedCopies, l
    <2>2. plPromoted \subseteq plPromoted'
      BY <1>1
    <2> QED BY <1>2, <1>4, <1>5, <2>1, <2>2 DEF PlInv, PlEarnedCopies, PlProcs
  <1>9. PlCountKept'
    BY <1>1, <1>2, <1>4, <1>5 DEF PlInv, PlCountKept, l
  <1>10. PlFreshCopies'
    <2>1. ASSUME plAt["intraday"] = "held", ~plStale'["intraday"]
          PROVE  plRow'[plLeg["intraday"]].state = plStored["intraday"].state
      BY <1>4, <2>1 DEF PlInv, PlShape, PlFreshCopies, PlProcs
    <2> QED BY <1>4, <1>5, <2>1 DEF PlFreshCopies, PlProcs
  <1> QED BY <1>6, <1>7, <1>8, <1>9, <1>10 DEF PlInv

\* The intraday handler lets a leg be, or upserts its row with an earned state and prior.
LEMMA PlIntradayStep ==
    ASSUME PlInv, plAt["intraday"] = "held", PlForget("intraday"), PlLogged',
           UNCHANGED <<plEvicted, plDay, plKind, plGoal, plPromoted, plCounted>>, plStatus' = plStatus,
           \/ UNCHANGED <<plRow, plStale>>
           \/ \E state \in PlStates, clean \in 0..PlMinDays, prior \in {"none", "PROBATIONAL", "SOVEREIGN"} :
                /\ PlUpsert("intraday", plLeg["intraday"], state, clean, prior)
                /\ "SOVEREIGN" \in {state, prior} => plLeg["intraday"] \in plPromoted
    PROVE  PlInv'
  <1> DEFINE l == plLeg["intraday"]
  <1>1. l \in PlLegs /\ "intraday" \in PlProcs
    BY DEF PlInv, PlShape, PlProcs
  <1>2. /\ plAt' \in [PlProcs -> {"idle", "pick", "held", "write"}] /\ plAt'["intraday"] # "write"
        /\ plLeg' \in [PlProcs -> PlLegs \cup {PlAnyLeg}] /\ plStored' \in [PlProcs -> PlRowType]
        /\ plTodo' = plTodo /\ plAt'["intraday"] = "pick"
        /\ \A q \in PlProcs : q # "intraday"
                                => plAt'[q] = plAt[q] /\ plLeg'[q] = plLeg[q] /\ plStored'[q] = plStored[q]
    BY <1>1, PlForgotten, Zenon
  <1> HIDE DEF l
  <1>3. /\ plRow' \in [PlLegs -> PlRowType]
        /\ "SOVEREIGN" \in {plRow'[l].state, plRow'[l].prior} => l \in plPromoted
        /\ \A m \in PlLegs : m # l => plRow'[m] = plRow[m]
        /\ \A m \in PlLegs : plRow'[m].updated <= plDay /\ plRow[m].updated <= plRow'[m].updated
        /\ plStale' \in [PlProcs -> BOOLEAN]
        /\ \A q \in PlProcs : q # "intraday" /\ plAt[q] \in {"held", "write"} /\ ~plStale'[q]
                                => ~plStale[q] /\ (plLeg[q] # l \/ plRow' = plRow)
    <2>1. CASE UNCHANGED <<plRow, plStale>>
      <3>1. \A m \in PlLegs : plRow[m].updated \in Nat /\ plRow[m].updated <= plDay
        BY PlRowFields DEF PlInv, PlShape
      <3>2. plStale' \in [PlProcs -> BOOLEAN]
        BY <2>1 DEF PlInv, PlFreshCopies
      <3> QED BY <1>1, <2>1, <3>1, <3>2 DEF PlInv, PlShape, PlEarnedCopies
    <2>2. ASSUME NEW state \in PlStates, NEW clean \in 0..PlMinDays,
                 NEW prior \in {"none", "PROBATIONAL", "SOVEREIGN"},
                 PlUpsert("intraday", l, state, clean, prior), "SOVEREIGN" \in {state, prior} => l \in plPromoted
          PROVE  /\ plRow' \in [PlLegs -> PlRowType]
                 /\ "SOVEREIGN" \in {plRow'[l].state, plRow'[l].prior} => l \in plPromoted
                 /\ \A m \in PlLegs : m # l => plRow'[m] = plRow[m]
                 /\ \A m \in PlLegs : plRow'[m].updated <= plDay /\ plRow[m].updated <= plRow'[m].updated
                 /\ plStale' \in [PlProcs -> BOOLEAN]
                 /\ \A q \in PlProcs : q # "intraday" /\ plAt[q] \in {"held", "write"} /\ ~plStale'[q]
                                         => ~plStale[q] /\ plLeg[q] # l
      <3>1. PlWrote("intraday", l, state, prior)
        BY <1>1, <2>2, PlUpserted
      <3> QED BY <2>2, <3>1 DEF PlWrote
    <2> QED BY <2>1, <2>2, Zenon DEF l
  <1>4. PlShape'
    BY <1>2, <1>3 DEF PlInv, PlShape
  <1>5. PlEarnedCopies'
    BY <1>2, <1>3 DEF PlInv, PlEarnedCopies, PlProcs
  <1>6. PlCountKept'
    <2>1. \A m \in PlLegs : plRow[m].updated \in Nat /\ plRow'[m].updated \in Nat
      BY <1>3, PlRowFields DEF PlInv, PlShape
    <2>2. \A m \in PlLegs : plCounted[m] <= plRow'[m].updated \/ (plAt["evening"] = "write" /\ plLeg["evening"] = m)
      BY <1>3, <2>1 DEF PlInv, PlCountKept
    <2> QED BY <1>2, <2>2 DEF PlInv, PlCountKept, PlProcs
  <1>7. PlFreshCopies'
    <2>1. ASSUME plAt["evening"] = "held", ~plStale'["evening"]
          PROVE  plRow'[plLeg["evening"]].state = plStored["evening"].state
      BY <1>3, <2>1 DEF PlInv, PlShape, PlFreshCopies, PlProcs
    <2>2. ASSUME plAt["evening"] = "write", plGoal.state = "SOVEREIGN", ~plStale'["evening"]
          PROVE  plRow'[plLeg["evening"]].state # "PASSIVE_SHADOW"
      BY <1>3, <2>2 DEF PlInv, PlShape, PlFreshCopies, PlProcs
    <2> QED BY <1>2, <1>3, <2>1, <2>2 DEF PlFreshCopies, PlProcs
  <1> QED BY <1>4, <1>5, <1>6, <1>7 DEF PlInv

LEMMA PlShockStep == ASSUME PlInv, PlShock PROVE PlInv'
  <1> DEFINE l == plLeg["intraday"]
             state == plStored["intraday"].state
  <1>1. /\ plAt["intraday"] = "held" /\ PlForget("intraday") /\ plStatus' = plStatus
        /\ UNCHANGED <<plEvicted, plDay, plKind, plGoal, plPromoted, plCounted>>
    BY DEF PlShock
  <1>2. CASE PlHasAuthority(state)
    <2>1. /\ PlUpsert("intraday", l, "PASSIVE_SHADOW", 0, state)
          /\ plQueued' = [plQueued EXCEPT ![l] = 0] /\ plRows' = [plRows EXCEPT ![l] = 0]
          /\ plSince' = [plSince EXCEPT ![l] = 0]
      BY <1>2, Zenon DEF PlShock, PlPrior
    <2>2. PlLogged'
      <3>1. PlMinSamples \in Nat /\ plQueued \in [PlLegs -> Nat] /\ plRows \in [PlLegs -> Nat] /\ plSince \in [PlLegs -> Nat]
        BY PlAssumption DEF PlInv, PlLogged
      <3> HIDE DEF l
      <3>2. /\ plQueued' \in [PlLegs -> Nat] /\ plRows' \in [PlLegs -> Nat] /\ plSince' \in [PlLegs -> Nat]
            /\ \A m \in PlLegs : IF m = l THEN plQueued'[m] = 0 /\ plRows'[m] = 0 /\ plSince'[m] = 0
                                 ELSE plQueued'[m] = plQueued[m] /\ plRows'[m] = plRows[m] /\ plSince'[m] = plSince[m]
        BY <2>1, <3>1
      <3> QED BY <3>1, <3>2 DEF PlInv, PlLogged
    <2>3. /\ "PASSIVE_SHADOW" \in PlStates /\ 0 \in 0..PlMinDays /\ state \in {"none", "PROBATIONAL", "SOVEREIGN"}
          /\ "SOVEREIGN" \in {"PASSIVE_SHADOW", state} => l \in plPromoted
      BY <1>1, <1>2, PlAssumption DEF PlStates, PlHasAuthority, PlInv, PlEarnedCopies, PlProcs
    <2> HIDE DEF state
    <2> QED BY <1>1, <2>1, <2>2, <2>3, PlIntradayStep
  <1>3. CASE ~PlHasAuthority(state)
    <2>1. UNCHANGED <<plRow, plStale>> /\ UNCHANGED <<plQueued, plRows, plSince>>
      BY <1>3, Zenon DEF PlShock
    <2>2. PlLogged'
      BY <2>1 DEF PlInv, PlLogged
    <2> QED BY <1>1, <2>1, <2>2, PlIntradayStep
  <1> QED BY <1>2, <1>3

LEMMA PlRecoverStep == ASSUME PlInv, NEW stable \in BOOLEAN, NEW edge \in BOOLEAN, PlRecover(stable, edge) PROVE PlInv'
  <1> DEFINE l == plLeg["intraday"]
             stored == plStored["intraday"]
  <1>1. /\ plAt["intraday"] = "held" /\ PlForget("intraday") /\ plStatus' = plStatus
        /\ UNCHANGED <<plEvicted, plDay, plKind, plGoal, plPromoted, plCounted>>
        /\ UNCHANGED <<plQueued, plRows, plSince>>
    BY DEF PlRecover, plShadow
  <1>2. PlLogged'
    BY <1>1 DEF PlInv, PlLogged
  <1>3. \/ UNCHANGED <<plRow, plStale>>
        \/ stored.prior # "none" /\ PlUpsert("intraday", l, stored.prior, stored.clean, "none")
    BY Zenon DEF PlRecover, PlRestored
  <1>4. /\ stored.prior # "none" => stored.prior \in PlStates
        /\ stored.clean \in 0..PlMinDays
        /\ "SOVEREIGN" \in {stored.prior, "none"} => l \in plPromoted
    BY <1>1, PlRowFields DEF PlInv, PlShape, PlEarnedCopies, PlProcs, PlStates
  <1> HIDE DEF stored
  <1>5. CASE UNCHANGED <<plRow, plStale>>
    BY <1>1, <1>2, <1>5, PlIntradayStep
  <1>6. CASE stored.prior # "none" /\ PlUpsert("intraday", l, stored.prior, stored.clean, "none")
    BY <1>1, <1>2, <1>4, <1>6, PlIntradayStep
  <1> QED BY <1>3, <1>5, <1>6

\* The registry and the writer's queue.
LEMMA PlRegistryStep ==
    ASSUME PlInv,
           \/ \E l \in PlLegs : PlDefault(l) \/ PlCommitted(l)
           \/ \E l \in PlLegs, status \in {"REGISTERED", "UNREGISTERED"} : PlRegister(l, status)
           \/ \E l \in PlLegs, running \in BOOLEAN : PlLog(l, running)
    PROVE  PlInv'
  <1>1. /\ UNCHANGED <<plRow, plEvicted, plDay, plAt, plKind, plTask, plGoal, plStale, plPromoted, plCounted>>
        /\ plStatus' \in [PlLegs -> PlStatus]
    <2>1. ASSUME NEW l \in PlLegs, NEW status \in PlStatus, PlRegister(l, status)
          PROVE  /\ UNCHANGED <<plRow, plEvicted, plDay, plAt, plKind, plTask, plGoal, plStale, plPromoted, plCounted>>
                 /\ plStatus' \in [PlLegs -> PlStatus]
      BY <2>1 DEF PlRegister, PlInv, PlShape
    <2>2. ASSUME NEW l \in PlLegs, NEW running \in BOOLEAN, PlLog(l, running)
          PROVE  /\ UNCHANGED <<plRow, plEvicted, plDay, plAt, plKind, plTask, plGoal, plStale, plPromoted, plCounted>>
                 /\ plStatus' \in [PlLegs -> PlStatus]
      BY <2>2 DEF PlLog, PlInv, PlShape, PlStatus
    <2>3. ASSUME NEW l \in PlLegs, PlCommitted(l)
          PROVE  /\ UNCHANGED <<plRow, plEvicted, plDay, plAt, plKind, plTask, plGoal, plStale, plPromoted, plCounted>>
                 /\ plStatus' \in [PlLegs -> PlStatus]
      BY <2>3 DEF PlCommitted, PlInv, PlShape
    <2> QED BY <2>1, <2>2, <2>3 DEF PlDefault, PlStatus
  <1>2. PlLogged'
    <2>1. ASSUME NEW l \in PlLegs, NEW running \in BOOLEAN, PlLog(l, running) PROVE PlLogged'
      <3>1. /\ plSince' = [plSince EXCEPT ![l] = @ + 1]
            /\ \/ plQueued' = [plQueued EXCEPT ![l] = @ + 1] /\ plRows' = plRows
               \/ plRows' = [plRows EXCEPT ![l] = @ + 1] /\ plQueued' = plQueued
            /\ plQueued[l] + plRows[l] < PlMinSamples
        BY <2>1 DEF PlLog
      <3> QED BY <3>1, PlAssumption DEF PlInv, PlLogged
    <2>2. ASSUME NEW l \in PlLegs, PlCommitted(l) PROVE PlLogged'
      BY <2>2, PlAssumption DEF PlCommitted, PlInv, PlLogged
    <2>3. ASSUME NEW l \in PlLegs, NEW status, PlRegister(l, status) PROVE PlLogged'
      BY <2>3 DEF PlRegister, PlInv, PlLogged
    <2> QED BY <2>1, <2>2, <2>3 DEF PlDefault
  <1> QED BY <1>1, <1>2 DEF PlInv, PlShape, PlEarnedCopies, PlCountKept, PlFreshCopies, plTask

LEMMA PlInvStep == PlInv /\ [PlNext]_plVars => PlInv'
  <1> SUFFICES ASSUME PlInv, [PlNext]_plVars PROVE PlInv'
    OBVIOUS
  <1>1. CASE UNCHANGED plVars
    BY <1>1 DEF plVars, PlInv, PlShape, PlLogged, PlEarnedCopies, PlCountKept, PlFreshCopies
  <1>2. PlStart("evening", "shock") => \E p \in PlProcs, kind \in {"shock", "recovery"} : PlStart(p, kind)
    BY DEF PlProcs
  <1>3. \A kind \in {"shock", "recovery"} : PlStart("intraday", kind) =>
            \E p \in PlProcs, k \in {"shock", "recovery"} : PlStart(p, k)
    BY DEF PlProcs
  <1> QED BY <1>1, <1>2, <1>3, PlEvictStep, PlLoopStep, PlEveningStep, PlWriteStep, PlShockStep, PlRecoverStep,
             PlRegistryStep DEF PlNext

\* The rows of a step, for the two promises about single steps.
LEMMA PlRowSteps ==
    ASSUME PlInv, [PlNext]_plVars, NEW l \in PlLegs,
           plRow[l].state = "PASSIVE_SHADOW", plRow'[l].state # "PASSIVE_SHADOW"
    PROVE  \/ \E p \in PlProcs : plLeg[p] = l /\ plAt[p] \in {"held", "write"} /\ plStale[p]
           \/ plAt["evening"] = "write" /\ plRow'[l].state = "PROBATIONAL"
           \/ plKind = "recovery" /\ plSince[l] >= PlMinSamples
  <1>1. \/ \E m \in PlLegs : PlEvict(m)
        \/ PlWrite \/ PlShock \/ \E stable, edge \in BOOLEAN : PlRecover(stable, edge)
        \/ plAt["evening"] = "held" /\ PlRollback
    <2>1. plRow' # plRow
      OBVIOUS
    <2> QED
      BY <2>1 DEF PlNext, plVars, PlDefault, PlCommitted, PlRegister, PlLog, PlTomorrow, PlStart, PlRead, PlDone,
                  PlSieve, PlKeep, PlEvaluated, PlProbation, PlSovereign
  <1>2. ASSUME NEW p, NEW m, NEW state, NEW clean, NEW prior, PlUpsert(p, m, state, clean, prior)
        PROVE  l = m /\ plRow'[l].state = state
    BY <1>2 DEF PlUpsert, PlInv, PlShape
  <1>3. ASSUME NEW m \in PlLegs, PlEvict(m) PROVE FALSE
    BY <1>2, <1>3 DEF PlEvict
  <1>4. ASSUME PlWrite
        PROVE  \/ plLeg["evening"] = l /\ plStale["evening"]
               \/ plRow'[l].state = "PROBATIONAL"
    <2>1. l = plLeg["evening"] /\ plRow'[l].state = plGoal.state /\ plAt["evening"] = "write"
      BY <1>2, <1>4 DEF PlWrite
    <2>2. plGoal.state \in PlStates
      BY DEF PlInv, PlShape
    <2> QED BY <2>1, <2>2 DEF PlInv, PlFreshCopies, PlStates
  <1>5. ASSUME PlShock PROVE FALSE
    <2>1. PlUpsert("intraday", plLeg["intraday"], "PASSIVE_SHADOW", 0, PlPrior(plStored["intraday"].state))
          \/ plRow' = plRow
      BY <1>5, Zenon DEF PlShock
    <2> QED BY <1>2, <2>1
  <1>6. ASSUME NEW stable \in BOOLEAN, NEW edge \in BOOLEAN, PlRecover(stable, edge)
        PROVE  plKind = "recovery" /\ plSince[l] >= PlMinSamples
    <2> DEFINE m == plLeg["intraday"]
               stored == plStored["intraday"]
    <2>1. \/ plRow' = plRow
          \/ PlRecovers(m, edge) /\ PlUpsert("intraday", m, stored.prior, stored.clean, "none")
      BY <1>6, Zenon DEF PlRecover, PlRestored
    <2>2. l = m /\ PlRecovers(m, edge)
      BY <1>2, <2>1
    <2>3. plRows[l] >= PlMinSamples
      BY <2>2 DEF PlRecovers
    <2> QED BY <1>6, <2>3, PlAssumption DEF PlRecover, PlInv, PlLogged
  <1>7. ASSUME plAt["evening"] = "held", PlRollback PROVE plLeg["evening"] = l /\ plStale["evening"]
    <2> DEFINE down == PlStagedDown(plStored["evening"].state)
    <2>1. PlUpsert("evening", plLeg["evening"], down, 0, plRow[plLeg["evening"]].prior)
      BY <1>7 DEF PlRollback
    <2>2. l = plLeg["evening"] /\ down # "PASSIVE_SHADOW"
      BY <1>2, <2>1
    <2>3. plStored["evening"].state = "SOVEREIGN"
      BY <2>2 DEF PlStagedDown
    <2> QED BY <1>7, <2>2, <2>3 DEF PlInv, PlFreshCopies, PlProcs
  <1>8. PlWrite => plAt["evening"] = "write"
    BY DEF PlWrite
  <1> QED BY <1>1, <1>3, <1>4, <1>5, <1>6, <1>7, <1>8 DEF PlProcs

\* An evening that counts a clean day has not counted that day before.
LEMMA PlCountSteps ==
    ASSUME PlInv, [PlNext]_plVars, plAt["evening"] = "held", plGoal'.clean > plStored["evening"].clean
    PROVE  plCounted[plLeg["evening"]] < plDay
  <1> DEFINE stored == plStored["evening"]
  <1>1. stored.clean \in Nat /\ stored.updated \in Nat /\ plDay \in Nat /\ plGoal.clean = 0
        /\ plLeg["evening"] \in PlLegs /\ PlMinDays \in Nat
    BY PlRowFields, PlAssumption DEF PlInv, PlShape, PlCountKept, PlProcs
  <1>2. plCounted[plLeg["evening"]] <= stored.updated /\ stored.updated <= plDay /\ plCounted[plLeg["evening"]] \in Nat
    BY <1>1 DEF PlInv, PlCountKept
  <1>3. SUFFICES stored.updated # plDay
    BY <1>1, <1>2
  <1>4. plGoal'.clean # 0 /\ plGoal'.clean # stored.clean
    BY <1>1
  <1>5. \E bad \in PlSlo, maintains, anomaly, gates \in BOOLEAN, traded \in {0, PlMinDays} :
          PlProbation(bad, maintains, anomaly, traded, gates) /\ ~PlRollback
    <2>1. ~PlKeep /\ ~PlRollback /\ plGoal' # plGoal /\ plGoal' # [state |-> "PROBATIONAL", clean |-> 0]
      BY <1>1, <1>4 DEF PlKeep, PlRollback
    <2> QED
      BY <2>1 DEF PlNext, plVars, PlEvict, PlDefault, PlCommitted, PlRegister, PlLog, PlTomorrow, PlStart, PlRead,
                  PlDone, PlSieve, PlSovereign, PlShock, PlRecover, PlWrite
  <1>6. PICK bad \in PlSlo, maintains \in BOOLEAN, anomaly \in BOOLEAN, gates \in BOOLEAN, traded \in {0, PlMinDays} :
          PlProbation(bad, maintains, anomaly, traded, gates) /\ ~PlRollback
    BY <1>5
  <1>7. plGoal'.clean = IF anomaly THEN 0 ELSE PlLess(stored.clean + (IF PlCounts(stored) THEN 1 ELSE 0), PlMinDays)
    BY <1>6 DEF PlProbation
  <1>8. PlCounts(stored)
    BY <1>1, <1>4, <1>7 DEF PlLess
  <1> QED BY <1>8 DEF PlCounts

\* No leg is sovereign that was never promoted, a clean day is counted once, and authority comes back in
\* the named ways only, for any legs, ledgers, thresholds and days, with two writers over one row.
THEOREM PolicyPromotesEarned == PlSpec => PlPromotesEarned
  <1>1. PlInv => PlTypeOK /\ PlEarned
    <2> SUFFICES ASSUME PlInv PROVE PlTypeOK /\ PlEarned
      OBVIOUS
    <2>1. \A l \in PlLegs : /\ plRow[l].state \in PlStates /\ plRow[l].clean \in 0..PlMinDays
                            /\ plRow[l].prior \in {"none", "PROBATIONAL", "SOVEREIGN"}
                            /\ plRow[l].updated \in 0..plDay /\ plStatus[l] \in PlStatus
      BY PlRowFields DEF PlInv, PlShape
    <2>2. \A l \in PlLegs : plQueued[l] + plRows[l] \in 0..PlMinSamples
      BY PlAssumption DEF PlInv, PlLogged
    <2>3. PlEarned
      BY DEF PlInv, PlEarnedCopies, PlEarned
    <2> QED BY <2>1, <2>2, <2>3 DEF PlInv, PlShape, PlTypeOK
  <1>2. PlInv /\ [PlNext]_plVars =>
          [plAt["evening"] = "held" /\ plGoal'.clean > plStored["evening"].clean =>
             plCounted[plLeg["evening"]] < plDay]_plVars
    BY PlCountSteps
  <1>3. PlInv /\ [PlNext]_plVars =>
          [\A l \in PlLegs :
             plRow[l].state = "PASSIVE_SHADOW" /\ plRow'[l].state # "PASSIVE_SHADOW" =>
               \/ \E p \in PlProcs : plLeg[p] = l /\ plAt[p] \in {"held", "write"} /\ plStale[p]
               \/ plAt["evening"] = "write" /\ plRow'[l].state = "PROBATIONAL"
               \/ plKind = "recovery" /\ plSince[l] >= PlMinSamples]_plVars
    BY PlRowSteps
  <1> QED BY <1>1, <1>2, <1>3, PlInvInit, PlInvStep, PTL DEF PlSpec, PlPromotesEarned, PlCountedOnce, PlAuthority

-----------------------------------------------------------------------------
(* Lifecycle.                                                              *)

LcTelemetry == Seq([ret : Int, dear : BOOLEAN])

\* One turn of the CUSUM's fold, and the function the fold looks its value up in.
LcTurn(weeks, g, s) ==
    IF s = {} THEN <<0, FALSE>> ELSE LcCusumWeek(weeks[Max(s)].ret, g[s \ {Max(s)}])
LcFold(weeks) == CHOOSE g : g = [s \in SUBSET (DOMAIN weeks) |-> LcTurn(weeks, g, s)]

\* Such a function exists for the weeks up to any, hence for all.
LEMMA LcFoldIs ==
    ASSUME NEW weeks \in LcTelemetry
    PROVE  LcFold(weeks) = [s \in SUBSET (1..Len(weeks)) |-> LcTurn(weeks, LcFold(weeks), s)]
  <1> DEFINE Is(g, n) == g = [s \in SUBSET (1..n) |-> LcTurn(weeks, g, s)]
             K == {n \in Nat : \E g : Is(g, n)}
  <1>1. 0 \in K
    <2> DEFINE g == [s \in SUBSET (1..0) |-> <<0, FALSE>>]
    <2>1. 1..0 = {}
      OBVIOUS
    <2>2. \A s \in SUBSET (1..0) : LcTurn(weeks, g, s) = <<0, FALSE>>
      BY <2>1 DEF LcTurn
    <2>3. Is(g, 0)
      BY <2>2
    <2> QED BY <2>3
  <1>2. ASSUME NEW n \in Nat, n \in K PROVE n + 1 \in K
    <2>1. PICK g : Is(g, n)
      BY <1>2
    <2> DEFINE h == [s \in SUBSET (1..(n + 1)) |-> LcTurn(weeks, g, s)]
    <2>2. ASSUME NEW s \in SUBSET (1..(n + 1)) PROVE LcTurn(weeks, h, s) = LcTurn(weeks, g, s)
      <3>1. CASE s = {}
        BY <3>1 DEF LcTurn
      <3>2. CASE s # {}
        <4>1. Max(s) \in s /\ \A y \in s : Max(s) >= y
          <5>1. n + 1 \in Nat
            OBVIOUS
          <5> QED BY <3>2, <5>1, MaxIs
        <4>2. s \ {Max(s)} \in SUBSET (1..n) /\ s \ {Max(s)} \in SUBSET (1..(n + 1))
          <5>1. ASSUME NEW x \in s \ {Max(s)} PROVE x \in 1..n
            <6>1. x \in 1..(n + 1) /\ Max(s) \in 1..(n + 1) /\ Max(s) >= x /\ x # Max(s)
              BY <4>1
            <6> QED BY <6>1
          <5> QED BY <5>1
        <4>3. g[s \ {Max(s)}] = LcTurn(weeks, g, s \ {Max(s)})
          BY <2>1, <4>2
        <4>4. h[s \ {Max(s)}] = LcTurn(weeks, g, s \ {Max(s)})
          BY <4>2
        <4> QED BY <4>3, <4>4 DEF LcTurn
      <3> QED BY <3>1, <3>2
    <2>3. Is(h, n + 1)
      BY <2>2
    <2>4. \E k : Is(k, n + 1)
      <3> HIDE DEF Is, h
      <3> QED BY <2>3
    <2> HIDE DEF Is
    <2> QED BY <2>4
  <1>3. Nat \subseteq K
    <2> HIDE DEF K
    <2> QED BY <1>1, <1>2, NatRises
  <1>4. Len(weeks) \in Nat /\ DOMAIN weeks = 1..Len(weeks)
    BY DEF LcTelemetry
  <1>5. \E g : g = [s \in SUBSET (DOMAIN weeks) |-> LcTurn(weeks, g, s)]
    BY <1>3, <1>4
  <1> QED BY <1>4, <1>5, Zenon DEF LcFold

\* The CUSUM after n weeks, from the one before.
LEMMA LcFoldAt ==
    ASSUME NEW weeks \in LcTelemetry
    PROVE  /\ LcCusum(weeks) = LcFold(weeks)[1..Len(weeks)][2]
           /\ LcFold(weeks)[1..0] = <<0, FALSE>>
           /\ \A n \in 1..Len(weeks) :
                LcFold(weeks)[1..n] = LcCusumWeek(weeks[n].ret, LcFold(weeks)[1..(n - 1)])
  <1> DEFINE g == LcFold(weeks)
  <1>1. g = [s \in SUBSET (1..Len(weeks)) |-> LcTurn(weeks, g, s)]
    BY LcFoldIs, Zenon
  <1>2. Len(weeks) \in Nat /\ DOMAIN weeks = 1..Len(weeks)
    BY DEF LcTelemetry
  <1>3. LcCusum(weeks) = g[DOMAIN weeks][2]
    BY DEF LcCusum, FoldLeft, MapThenFoldSet, LcFold, LcTurn
  <1> HIDE DEF g
  <1>4. g[1..0] = <<0, FALSE>>
    <2>1. 1..0 = {}
      OBVIOUS
    <2> QED BY <1>1, <2>1 DEF LcTurn
  <1>5. ASSUME NEW n \in 1..Len(weeks) PROVE g[1..n] = LcCusumWeek(weeks[n].ret, g[1..(n - 1)])
    <2>1. n \in Nat /\ 1..n \in SUBSET (1..n) /\ 1..n # {} /\ 1..n \in SUBSET (1..Len(weeks))
      BY <1>2
    <2>2. Max(1..n) \in 1..n /\ \A y \in 1..n : Max(1..n) >= y
      BY <2>1, MaxIs
    <2>3. Max(1..n) = n
      BY <2>1, <2>2
    <2>4. (1..n) \ {n} = 1..(n - 1)
      BY <2>1
    <2>5. g[1..n] = LcTurn(weeks, g, 1..n)
      BY <1>1, <2>1
    <2> QED BY <2>1, <2>3, <2>4, <2>5 DEF LcTurn
  <1> QED BY <1>2, <1>3, <1>4, <1>5 DEF g

\* The CUSUM is the largest shortfall of a stretch that ends now, and it has been above the threshold
\* exactly when some stretch was: for every series of weeks.
LEMMA CusumIsDrift ==
    ASSUME NEW weeks \in LcTelemetry
    PROVE  LcCusum(weeks) = LcDrift(weeks)
  <1> DEFINE N == Len(weeks)
             f == LcShort(weeks)
             F == SumFold(f, 1..N)
             A == LcFold(weeks)
  <1>1. N \in Nat /\ DOMAIN weeks = 1..N /\ IsFiniteSet(1..N)
    BY FS_Interval DEF LcTelemetry
  <1>2. LcK \in Nat /\ LcH \in Nat
    BY LcAssumption
  <1>3. ASSUME NEW n \in 1..N PROVE weeks[n].ret \in Int
    <2>1. weeks[n] \in [ret : Int, dear : BOOLEAN]
      BY ElementOfSeq DEF LcTelemetry
    <2> QED BY <2>1
  <1>4. f \in [1..N -> Int] /\ \A n \in 1..N : f[n] = -weeks[n].ret - LcK
    BY <1>1, <1>2, <1>3 DEF LcShort
  <1>5. /\ \A s \in SUBSET (1..N) : F[s] \in Int
        /\ \A s \in SUBSET (1..N) : \A p \in s : F[s] = F[s \ {p}] + f[p]
        /\ F[{}] = 0
    <2> HIDE DEF f
    <2>1. F[{}] = SumTurn(f, F, {})
      BY <1>1, SumFoldAt
    <2>2. F[{}] = 0
      BY <2>1 DEF SumTurn
    <2>3. \A s \in SUBSET (1..N) : F[s] \in Int
      BY <1>1, <1>4, SumIsInt
    <2>4. \A s \in SUBSET (1..N) : \A p \in s : F[s] = F[s \ {p}] + f[p]
      <3> DEFINE S == 1..N
      <3>1. IsFiniteSet(S) /\ f \in [S -> Int]
        BY <1>1, <1>4
      <3> HIDE DEF S
      <3>2. ASSUME NEW s \in SUBSET S, NEW p \in s PROVE SumFold(f, S)[s] = SumFold(f, S)[s \ {p}] + f[p]
        BY <3>1, SumTakesOut
      <3> QED BY <3>2 DEF S
    <2> QED BY <2>2, <2>3, <2>4
  <1>6. ASSUME NEW i \in 1..N, NEW j \in 1..N
        PROVE  LcShortfall(weeks, i, j) = F[i..j]
    <2>1. LcShortfall(weeks, i, j) = SumFold(f, i..j)[i..j]
      BY DEF LcShortfall, FoldSet, MapThenFoldSet, SumFold, SumTurn, Pick
    <2>2. i..j \in SUBSET (1..N)
      BY <1>1
    <2> QED BY <1>1, <2>1, <2>2, SumOfPart
  <1>7. /\ LcCusum(weeks) = A[1..N][2] /\ A[1..0] = <<0, FALSE>>
        /\ \A n \in 1..N : A[1..n] = LcCusumWeek(weeks[n].ret, A[1..(n - 1)])
    BY LcFoldAt
  <1> HIDE DEF N, f, F, A
  <1>8. \A n \in 1..N : \A i \in 1..n : F[i..n] = F[i..(n - 1)] + f[n] /\ F[i..n] \in Int /\ F[i..(n - 1)] \in Int
    <2> SUFFICES ASSUME NEW n \in 1..N, NEW i \in 1..n
                 PROVE  F[i..n] = F[i..(n - 1)] + f[n] /\ F[i..n] \in Int /\ F[i..(n - 1)] \in Int
      OBVIOUS
    <2>1. i..n \in SUBSET (1..N) /\ n \in i..n /\ (i..n) \ {n} = i..(n - 1) /\ i..(n - 1) \in SUBSET (1..N)
      BY <1>1
    <2>2. F[i..n] = F[(i..n) \ {n}] + f[n]
      BY <1>5, <2>1
    <2> QED BY <1>5, <2>1, <2>2
  <1>9. \A n \in 1..N : F[n..(n - 1)] = 0
    <2>1. \A n \in 1..N : n..(n - 1) = {}
      BY <1>1
    <2> QED BY <1>5, <2>1
  <1> DEFINE c(n) == A[1..n][1]
             tripped(n) == A[1..n][2]
             Largest(n) == /\ c(n) \in Nat /\ (\A i \in 1..n : c(n) >= F[i..n])
                           /\ c(n) = 0 \/ \E i \in 1..n : c(n) = F[i..n]
             Above(n) == \E j \in 1..n : \E i \in 1..j : F[i..j] > LcH
             Holds(n) == Largest(n) /\ tripped(n) \in BOOLEAN /\ (tripped(n) <=> Above(n))
             G == {n \in Nat : n <= N => Holds(n)}
  <1>10. ASSUME NEW n \in 1..N, c(n - 1) \in Nat
         PROVE  /\ c(n) = IF c(n - 1) + f[n] > 0 THEN c(n - 1) + f[n] ELSE 0
                /\ tripped(n) = (tripped(n - 1) \/ c(n) > LcH)
    <2>1. A[1..n] = LcCusumWeek(weeks[n].ret, A[1..(n - 1)])
      BY <1>7
    <2>2. c(n - 1) - weeks[n].ret - LcK = c(n - 1) + f[n]
      BY <1>2, <1>3, <1>4, <1>10
    <2> QED BY <2>1, <2>2 DEF LcCusumWeek
  <1>11. 0 \in G
    <2>1. 1..0 = {}
      OBVIOUS
    <2>2. c(0) = 0 /\ tripped(0) = FALSE
      BY <1>7
    <2>3. Largest(0)
      BY <2>1, <2>2
    <2>4. ~Above(0)
      BY <2>1
    <2> HIDE DEF Largest, Above, tripped
    <2> QED BY <2>2, <2>3, <2>4
  <1>12. ASSUME NEW m \in Nat, m \in G PROVE m + 1 \in G
    <2> SUFFICES ASSUME m + 1 <= N PROVE Holds(m + 1)
      OBVIOUS
    <2> DEFINE n == m + 1
    <2>1. n \in 1..N /\ n - 1 = m /\ m \in Nat /\ Largest(m) /\ tripped(m) \in BOOLEAN /\ (tripped(m) <=> Above(m))
      BY <1>1, <1>12
    <2>2. /\ c(n) = IF c(m) + f[n] > 0 THEN c(m) + f[n] ELSE 0
          /\ tripped(n) = (tripped(m) \/ c(n) > LcH)
      BY <1>10, <2>1
    <2>3. c(m) \in Nat /\ f[n] \in Int /\ LcH \in Nat /\ c(n) \in Nat
      BY <1>2, <1>4, <2>1, <2>2
    <2>4. \A i \in 1..m : F[i..n] = F[i..m] + f[n] /\ F[i..n] \in Int /\ F[i..m] \in Int
      BY <1>8, <2>1
    <2>5. F[n..n] = f[n]
      <3> HIDE DEF n
      <3>1. n \in 1..n
        BY <2>1
      <3>2. F[n..n] = F[n..(n - 1)] + f[n] /\ F[n..(n - 1)] = 0
        BY <1>8, <1>9, <2>1, <3>1
      <3> QED BY <2>3, <3>2
    <2>6. \A i \in 1..n : i \in 1..m \/ i = n
      BY <2>1
    <2>7. n \in 1..n /\ 1..m \subseteq 1..n
      BY <2>1
    <2> HIDE DEF n, c, tripped
    <2>8. \A i \in 1..n : c(n) >= F[i..n]
      <3> SUFFICES ASSUME NEW i \in 1..n PROVE c(n) >= F[i..n]
        OBVIOUS
      <3>1. CASE i \in 1..m
        <4>1. c(m) >= F[i..m]
          BY <2>1, <3>1
        <4> QED BY <2>2, <2>3, <2>4, <3>1, <4>1
      <3>2. CASE i = n
        BY <2>2, <2>3, <2>5, <3>2
      <3> QED BY <2>6, <3>1, <3>2
    <2>9. c(n) = 0 \/ \E i \in 1..n : c(n) = F[i..n]
      <3> SUFFICES ASSUME c(n) # 0 PROVE \E i \in 1..n : c(n) = F[i..n]
        OBVIOUS
      <3>1. c(n) = c(m) + f[n]
        BY <2>2, <2>3
      <3>2. CASE c(m) = 0
        <4>1. c(n) = F[n..n]
          BY <2>3, <2>5, <3>1, <3>2
        <4> QED BY <2>7, <4>1
      <3>3. CASE c(m) # 0
        <4>1. PICK i \in 1..m : c(m) = F[i..m]
          BY <2>1, <3>3
        <4>2. c(n) = F[i..n]
          BY <2>4, <3>1, <4>1
        <4> QED BY <2>7, <4>2
      <3> QED BY <3>2, <3>3
    <2>10. Largest(n)
      BY <2>3, <2>8, <2>9
    <2>11. c(n) > LcH <=> \E i \in 1..n : F[i..n] > LcH
      <3>1. ASSUME c(n) > LcH PROVE \E i \in 1..n : F[i..n] > LcH
        <4>1. c(n) # 0
          BY <2>3, <3>1
        <4> QED BY <2>9, <3>1, <4>1
      <3>2. ASSUME NEW i \in 1..n, F[i..n] > LcH PROVE c(n) > LcH
        <4>1. F[i..n] \in Int
          BY <1>8, <2>1
        <4> QED BY <2>3, <2>8, <3>2, <4>1
      <3> QED BY <3>1, <3>2
    <2>12. Above(n) <=> Above(m) \/ \E i \in 1..n : F[i..n] > LcH
      BY <2>6, <2>7
    <2>13. tripped(n) \in BOOLEAN /\ (tripped(n) <=> Above(n))
      BY Zenon, <2>1, <2>2, <2>11, <2>12
    <2> QED BY <2>10, <2>13 DEF n
  <1>13. Nat \subseteq G
    <2> HIDE DEF G
    <2> QED BY <1>11, <1>12, NatRises
  <1>14. Holds(N)
    BY <1>1, <1>13
  <1>15. LcDrift(weeks) <=> Above(N)
    <2>1. LcDrift(weeks) <=> \E i, j \in 1..N : i <= j /\ F[i..j] > LcH
      BY <1>1, <1>6 DEF LcDrift
    <2> QED BY <1>1, <2>1
  <1>16. LcDrift(weeks) \in BOOLEAN
    BY DEF LcDrift
  <1> QED BY Zenon, <1>7, <1>14, <1>15, <1>16

LcEntries == Seq([parent : LcConfigs \cup {LcNone}, leaf : LcConfigs, epoch : Nat])

\* Ranges; a refit about to append has a configuration.
LcShape ==
    /\ lcState \in LcStates /\ lcEpisodes \in 0..1 /\ lcWatched \in 0..(LcWatchWeeks - 1)
    /\ lcWeeks \in LcTelemetry /\ lcChain \in LcEntries
    /\ lcAt \in [LcRunners -> {"idle", "append"}] /\ lcParent \in [LcRunners -> LcConfigs \cup {LcNone}]
    /\ lcLeaf \in [LcRunners -> LcConfigs \cup {LcNone}] /\ lcEpoch \in [LcRunners -> Nat] /\ lcRefits \in Nat
    /\ \A p \in LcRunners : lcAt[p] = "append" => lcLeaf[p] \in LcConfigs

\* A leg that has not reached PAPER has no telemetry.
LcUntried == lcState \in {"CANDIDATE", "VALIDATED"} => lcWeeks = <<>>

\* Epochs come from the count of refits.
LcCounted ==
    /\ \A i \in DOMAIN lcChain : lcChain[i].epoch <= lcRefits
    /\ \A p \in LcRunners : lcEpoch[p] <= lcRefits

\* Without an overlap a refit under way is the only one, and what it read is still the head.
LcPrepared ==
    ~lcCrossed =>
        /\ \A p, q \in LcRunners : lcAt[p] = "append" /\ lcAt[q] = "append" => p = q
        /\ \A p \in LcRunners : lcAt[p] = "append" =>
             /\ lcChain # <<>> /\ lcParent[p] = lcChain[Len(lcChain)].leaf
             /\ lcEpoch[p] > lcChain[Len(lcChain)].epoch

LcInv == LcShape /\ LcUntried /\ LcFit /\ LcGoneForGood /\ LcLineage /\ LcCounted /\ LcPrepared

\* No telemetry, no alarm.
LEMMA LcEmptyQuiet == <<>> \in LcTelemetry /\ ~LcCusum(<<>>)
  <1>1. <<>> \in LcTelemetry /\ Len(<<>>) = 0
    BY DEF LcTelemetry
  <1> DEFINE w == <<>>
             g == LcFold(w)
  <1>2. LcCusum(w) = g[1..Len(w)][2] /\ g[1..0] = <<0, FALSE>>
    BY <1>1, LcFoldAt
  <1>3. g[1..Len(w)] = g[1..0] /\ <<0, FALSE>>[2] = FALSE
    BY <1>1
  <1>4. LcCusum(w) = FALSE
    BY Zenon, <1>2, <1>3
  <1> QED BY <1>1, <1>4

LEMMA LcInvInit == LcInit => LcInv
  <1> SUFFICES ASSUME LcInit PROVE LcInv
    OBVIOUS
  <1>1. LcWatchWeeks \in Nat \ {0} /\ LcWatchWeeks - 1 \in Nat
    BY LcAssumption
  <1>2. LcShape
    BY <1>1, LcEmptyQuiet DEF LcInit, LcShape, LcStates, LcEntries
  <1>3. LcUntried /\ LcFit /\ LcGoneForGood
    BY DEF LcInit, LcUntried, LcFit, LcGoneForGood
  <1>4. LcLineage /\ LcCounted /\ LcPrepared
    BY DEF LcInit, LcLineage, LcVerifies, LcCounted, LcPrepared
  <1> QED BY <1>2, <1>3, <1>4 DEF LcInv

\* The chain is not the state machine's.
LEMMA LcChainStands ==
    ASSUME LcInv, UNCHANGED <<lcChain, lcRefit>>
    PROVE  LcLineage' /\ LcCounted' /\ LcPrepared'
  BY DEF LcInv, lcRefit, LcLineage, LcVerifies, LcCounted, LcPrepared

LEMMA LcTransitionStep ==
    ASSUME LcInv, NEW to \in LcStates, NEW actor \in {"system", "operator"}, LcTransition(to, actor)
    PROVE  LcInv'
  <1>1. LcShape /\ LcUntried /\ LcFit /\ LcGoneForGood
    BY DEF LcInv
  <1>2. /\ to \in LcLegal(lcState) /\ lcState' = to /\ lcWatched' = (IF to = "WATCH" THEN lcWatched ELSE 0)
        /\ lcEpisodes' = lcEpisodes + (IF to = "SAFE_MODE" THEN 1 ELSE 0)
        /\ UNCHANGED <<lcWeeks, lcChain, lcRefit>>
    BY DEF LcTransition, LcCan, LcMoves
  <1>3. LcWatchWeeks \in Nat \ {0} /\ lcWatched' \in 0..(LcWatchWeeks - 1)
    BY <1>1, <1>2, LcAssumption DEF LcShape
  <1>4. lcState \notin {"SAFE_MODE", "RETIRED"} => lcEpisodes = 0
    BY <1>1 DEF LcGoneForGood, LcShape
  <1>5. to = "SAFE_MODE" => lcState \notin {"SAFE_MODE", "RETIRED"}
    BY <1>1, <1>2 DEF LcLegal, LcShape, LcStates
  <1>6. lcEpisodes' \in 0..1 /\ LcGoneForGood'
    <2>1. lcState \in {"SAFE_MODE", "RETIRED"} => to = "RETIRED"
      BY <1>1, <1>2 DEF LcLegal, LcShape, LcStates
    <2>2. lcEpisodes \in 0..1
      BY <1>1 DEF LcShape
    <2> QED BY <1>1, <1>2, <1>4, <1>5, <2>1, <2>2 DEF LcGoneForGood
  <1>7. LcShape'
    BY <1>1, <1>2, <1>3, <1>6 DEF LcShape, lcRefit
  <1>8. LcUntried'
    <2>1. to \in {"CANDIDATE", "VALIDATED"} => lcState = "CANDIDATE"
      BY <1>1, <1>2 DEF LcLegal, LcShape, LcStates
    <2> QED BY <1>1, <1>2, <2>1 DEF LcUntried
  <1>9. LcFit'
    <2>1. to \in {"PAPER", "ACTIVE", "WATCH"} => lcState = "VALIDATED" \/ lcState \in {"PAPER", "ACTIVE", "WATCH"}
      BY <1>1, <1>2 DEF LcLegal, LcShape, LcStates
    <2>2. lcState = "VALIDATED" => ~LcCusum(lcWeeks)
      BY <1>1, LcEmptyQuiet DEF LcUntried
    <2>3. lcWatched' < LcWatchWeeks
      BY <1>3
    <2>4. to \in {"PAPER", "ACTIVE", "WATCH"} => ~LcCusum(lcWeeks)
      BY <1>1, <2>1, <2>2 DEF LcFit
    <2>5. LcCusum(lcWeeks)' = LcCusum(lcWeeks)
      BY <1>2
    <2> QED BY <1>2, <2>3, <2>4, <2>5 DEF LcFit
  <1> QED BY <1>2, <1>6, <1>7, <1>8, <1>9, LcChainStands DEF LcInv

LEMMA LcReviewStep ==
    ASSUME LcInv, NEW ret \in LcReturns, NEW dear \in BOOLEAN, NEW sound \in BOOLEAN, LcReview(ret, dear, sound)
    PROVE  LcInv'
  <1> DEFINE weeks == Append(lcWeeks, [ret |-> ret, dear |-> dear])
             watched == IF lcState = "WATCH" THEN lcWatched + 1 ELSE 0
             tier == LcTier(weeks, watched, sound)
             to == IF tier = "NONE" /\ lcState = "WATCH" THEN "ACTIVE" ELSE tier
  <1>1. LcShape /\ LcUntried /\ LcFit /\ LcGoneForGood
    BY DEF LcInv
  <1>2. /\ lcState \in {"PAPER", "ACTIVE", "WATCH"} /\ lcWeeks' = weeks /\ UNCHANGED <<lcChain, lcRefit>>
        /\ IF to # lcState /\ to # "NONE" /\ LcCan(to, "system")
           THEN LcMoves(to)
           ELSE lcWatched' = watched /\ UNCHANGED <<lcState, lcEpisodes>>
    BY DEF LcReview
  <1>3. weeks \in LcTelemetry
    <2>1. ret \in Int
      BY LcAssumption
    <2>2. [ret |-> ret, dear |-> dear] \in [ret : Int, dear : BOOLEAN]
      BY <2>1
    <2> QED BY <1>1, <2>2 DEF LcShape, LcTelemetry
  <1>4. LcWatchWeeks \in Nat \ {0} /\ lcWatched \in 0..(LcWatchWeeks - 1) /\ watched \in 0..LcWatchWeeks
    BY <1>1, LcAssumption DEF LcShape
  <1> HIDE DEF weeks, watched
  <1>5. /\ tier \in {"SAFE_MODE", "WATCH", "NONE"}
        /\ LcCusum(weeks) \/ watched >= LcWatchWeeks => tier = "SAFE_MODE"
    BY DEF LcTier
  <1> HIDE DEF tier
  <1>6. lcEpisodes = 0
    BY <1>1, <1>2 DEF LcGoneForGood, LcShape
  <1>7. CASE tier = "SAFE_MODE"
    <2>1. to = "SAFE_MODE" /\ LcCan(to, "system") /\ to # lcState
      BY <1>2, <1>7 DEF LcCan, LcLegal, LcPromotions
    <2>2. lcState' = "SAFE_MODE" /\ lcWatched' = 0 /\ lcEpisodes' = 1
      BY <1>2, <1>6, <2>1 DEF LcMoves
    <2>3. LcShape'
      BY <1>1, <1>2, <1>3, <1>4, <2>2 DEF LcShape, lcRefit, LcStates
    <2>4. LcUntried' /\ LcFit' /\ LcGoneForGood'
      BY <2>2 DEF LcUntried, LcFit, LcGoneForGood
    <2> QED BY <1>2, <2>3, <2>4, LcChainStands DEF LcInv
  <1>8. CASE tier # "SAFE_MODE"
    <2>1. ~LcCusum(weeks) /\ watched < LcWatchWeeks /\ watched \in 0..(LcWatchWeeks - 1)
      BY <1>4, <1>5, <1>8
    <2>2. /\ lcState' \in {"PAPER", "ACTIVE", "WATCH"} /\ lcEpisodes' = 0
          /\ lcWatched' \in {0, lcWatched, watched}
      <3>1. to \in {"ACTIVE", "WATCH", "NONE"}
        BY <1>5, <1>8
      <3> HIDE DEF to
      <3> QED BY <1>2, <1>6, <3>1 DEF LcMoves
    <2>3. lcWatched' \in 0..(LcWatchWeeks - 1)
      BY <1>4, <2>1, <2>2
    <2>4. LcShape'
      BY <1>1, <1>2, <1>3, <2>2, <2>3 DEF LcShape, lcRefit, LcStates
    <2>5. LcUntried' /\ LcGoneForGood'
      BY <2>2 DEF LcUntried, LcGoneForGood
    <2>6. LcFit'
      BY <1>2, <1>4, <2>1, <2>3 DEF LcFit
    <2> QED BY <1>2, <2>4, <2>5, <2>6, LcChainStands DEF LcInv
  <1> QED BY <1>7, <1>8

\* The state machine is not the chain's.
LEMMA LcMachineStands ==
    ASSUME LcInv, UNCHANGED <<lcMachine, lcWeeks>>
    PROVE  LcUntried' /\ LcFit' /\ LcGoneForGood'
  BY DEF LcInv, lcMachine, LcUntried, LcFit, LcGoneForGood

LEMMA LcGenesisStep == ASSUME LcInv, NEW c \in LcConfigs, LcGenesis(c) PROVE LcInv'
  <1>1. LcShape
    BY DEF LcInv
  <1>2. /\ lcChain' = <<[parent |-> LcNone, leaf |-> c, epoch |-> 0]>> /\ (\A p \in LcRunners : lcAt[p] = "idle")
        /\ UNCHANGED <<lcMachine, lcWeeks, lcRefit>>
    BY DEF LcGenesis, LcEntry
  <1>3. lcChain' \in LcEntries /\ DOMAIN lcChain' = {1} /\ lcChain'[1] = [parent |-> LcNone, leaf |-> c, epoch |-> 0]
    BY <1>2 DEF LcEntries
  <1>4. LcShape'
    BY <1>1, <1>2, <1>3 DEF LcShape, lcMachine, lcRefit
  <1>5. LcLineage' /\ LcCounted'
    <2>1. LcLineage'
      BY <1>3 DEF LcLineage, LcVerifies
    <2>2. \A p \in LcRunners : lcEpoch'[p] <= lcRefits'
      BY <1>2 DEF LcInv, LcCounted, lcRefit
    <2>3. lcRefits' \in Nat /\ 0 <= lcRefits'
      BY <1>1, <1>2 DEF LcShape, lcRefit
    <2>4. \A i \in DOMAIN lcChain' : lcChain'[i].epoch <= lcRefits'
      BY <1>3, <2>3
    <2> QED BY <2>1, <2>2, <2>4 DEF LcCounted
  <1>6. LcPrepared'
    BY <1>2 DEF LcPrepared, lcRefit
  <1> QED BY <1>2, <1>4, <1>5, <1>6, LcMachineStands DEF LcInv

LEMMA LcRefitReadStep ==
    ASSUME LcInv, NEW p \in LcRunners, NEW c \in LcConfigs, LcRefitRead(p, c)
    PROVE  LcInv'
  <1>1. LcShape /\ LcLineage /\ LcCounted /\ LcPrepared
    BY DEF LcInv
  <1>2. /\ lcAt[p] = "idle" /\ lcChain # <<>> /\ lcRefits' = lcRefits + 1
        /\ lcAt' = [lcAt EXCEPT ![p] = "append"] /\ lcParent' = [lcParent EXCEPT ![p] = LcHead]
        /\ lcLeaf' = [lcLeaf EXCEPT ![p] = c] /\ lcEpoch' = [lcEpoch EXCEPT ![p] = lcRefits + 1]
        /\ lcCrossed' = (lcCrossed \/ \E q \in LcRunners : lcAt[q] # "idle")
        /\ UNCHANGED <<lcMachine, lcWeeks, lcChain>>
    BY DEF LcRefitRead
  <1>3. Len(lcChain) \in DOMAIN lcChain /\ lcChain[Len(lcChain)].leaf \in LcConfigs /\ lcChain[Len(lcChain)].epoch \in Nat
    <2>1. lcChain \in LcEntries /\ Len(lcChain) \in 1..Len(lcChain) /\ DOMAIN lcChain = 1..Len(lcChain)
      BY <1>1, <1>2 DEF LcShape, LcEntries
    <2>2. lcChain[Len(lcChain)] \in [parent : LcConfigs \cup {LcNone}, leaf : LcConfigs, epoch : Nat]
      BY <2>1, ElementOfSeq DEF LcEntries
    <2> QED BY <2>1, <2>2
  <1>4. LcHead = lcChain[Len(lcChain)].leaf
    BY <1>2 DEF LcHead, Last
  <1>5. LcShape'
    BY <1>1, <1>2, <1>3, <1>4 DEF LcShape, lcMachine
  <1>6. LcLineage'
    <2>1. lcCrossed => lcCrossed'
      BY <1>2
    <2>2. LcVerifies' <=> LcVerifies
      BY <1>2 DEF LcVerifies
    <2> QED BY <1>1, <2>1, <2>2 DEF LcLineage
  <1>7. LcCounted'
    <2>1. \A i \in DOMAIN lcChain : lcChain[i].epoch \in Nat
      <3> SUFFICES ASSUME NEW i \in DOMAIN lcChain PROVE lcChain[i].epoch \in Nat
        OBVIOUS
      <3>1. lcChain \in LcEntries /\ i \in 1..Len(lcChain)
        BY <1>1 DEF LcShape, LcEntries
      <3>2. lcChain[i] \in [parent : LcConfigs \cup {LcNone}, leaf : LcConfigs, epoch : Nat]
        BY <3>1, ElementOfSeq DEF LcEntries
      <3> QED BY <3>2
    <2>2. \A q \in LcRunners : lcEpoch'[q] <= lcRefits'
      BY <1>1, <1>2 DEF LcCounted, LcShape
    <2> QED BY <1>1, <1>2, <2>1, <2>2 DEF LcCounted, LcShape
  <1>8. LcPrepared'
    <2> SUFFICES ASSUME ~lcCrossed'
                 PROVE  /\ \A q, r \in LcRunners : lcAt'[q] = "append" /\ lcAt'[r] = "append" => q = r
                        /\ \A q \in LcRunners : lcAt'[q] = "append" =>
                             /\ lcChain' # <<>> /\ lcParent'[q] = lcChain'[Len(lcChain')].leaf
                             /\ lcEpoch'[q] > lcChain'[Len(lcChain')].epoch
      BY DEF LcPrepared
    <2>1. \A q \in LcRunners : lcAt[q] = "idle"
      BY <1>2
    <2>2. \A q \in LcRunners : lcAt'[q] = "append" => q = p
      BY <1>1, <1>2, <2>1 DEF LcShape
    <2>3. lcParent'[p] = LcHead /\ lcEpoch'[p] = lcRefits + 1
      BY <1>1, <1>2 DEF LcShape
    <2>4. lcChain[Len(lcChain)].epoch <= lcRefits /\ lcRefits \in Nat
      BY <1>1, <1>3 DEF LcCounted, LcShape
    <2> QED BY <1>2, <1>3, <1>4, <2>2, <2>3, <2>4
  <1> QED BY <1>2, <1>5, <1>6, <1>7, <1>8, LcMachineStands DEF LcInv

LEMMA LcRefitAppendStep == ASSUME LcInv, NEW p \in LcRunners, LcRefitAppend(p) PROVE LcInv'
  <1> DEFINE e == [parent |-> lcParent[p], leaf |-> lcLeaf[p], epoch |-> lcEpoch[p]]
             n == Len(lcChain)
  <1>1. LcShape /\ LcLineage /\ LcCounted /\ LcPrepared
    BY DEF LcInv
  <1>2. /\ lcAt[p] = "append" /\ lcAt' = [lcAt EXCEPT ![p] = "idle"] /\ lcChain' = Append(lcChain, e)
        /\ UNCHANGED <<lcMachine, lcWeeks, lcParent, lcLeaf, lcEpoch, lcRefits, lcCrossed>>
    BY DEF LcRefitAppend, LcEntry
  <1>3. e \in [parent : LcConfigs \cup {LcNone}, leaf : LcConfigs, epoch : Nat]
    BY <1>1, <1>2 DEF LcShape
  <1>4. /\ lcChain' \in LcEntries /\ n \in Nat /\ DOMAIN lcChain = 1..n /\ DOMAIN lcChain' = 1..(n + 1)
        /\ (\A i \in 1..n : lcChain'[i] = lcChain[i]) /\ lcChain'[n + 1] = e
    BY <1>1, <1>2, <1>3 DEF LcShape, LcEntries
  <1>5. LcShape'
    BY <1>1, <1>2, <1>4 DEF LcShape, lcMachine
  <1> DEFINE parent == lcParent[p]
             epoch == lcEpoch[p]
  <1>6. e.parent = parent /\ e.epoch = epoch
    OBVIOUS
  <1> HIDE DEF e, n, parent, epoch
  <1>7. LcCounted'
    <2> SUFFICES ASSUME NEW i \in 1..(n + 1) PROVE lcChain'[i].epoch <= lcRefits
      BY <1>1, <1>2, <1>4 DEF LcCounted
    <2>1. CASE i \in 1..n
      BY <1>1, <1>4, <2>1 DEF LcCounted
    <2>2. CASE i = n + 1
      BY <1>1, <1>4, <1>6, <2>2 DEF LcCounted, epoch
    <2> QED BY <1>4, <2>1, <2>2
  <1>8. LcLineage'
    <2> SUFFICES ASSUME ~lcCrossed, NEW i \in 1..(n + 1)
                 PROVE  IF i = 1 THEN lcChain'[1].parent = LcNone
                        ELSE lcChain'[i].parent = lcChain'[i - 1].leaf /\ lcChain'[i].epoch > lcChain'[i - 1].epoch
      BY <1>2, <1>4 DEF LcLineage, LcVerifies
    <2>1. lcChain # <<>> /\ parent = lcChain[n].leaf /\ epoch > lcChain[n].epoch
      BY <1>1, <1>2 DEF LcPrepared, parent, epoch, n
    <2>2. n >= 1
      BY <1>1, <1>4, <2>1 DEF n, LcShape, LcEntries
    <2>3. LcVerifies
      BY <1>1 DEF LcLineage
    <2>4. CASE i \in 1..n
      <3>1. IF i = 1 THEN lcChain[1].parent = LcNone
            ELSE lcChain[i].parent = lcChain[i - 1].leaf /\ lcChain[i].epoch > lcChain[i - 1].epoch
        BY <1>4, <2>3, <2>4 DEF LcVerifies
      <3>2. lcChain'[i] = lcChain[i] /\ lcChain'[1] = lcChain[1] /\ (i # 1 => lcChain'[i - 1] = lcChain[i - 1])
        BY <1>4, <2>2, <2>4
      <3> QED BY <3>1, <3>2
    <2>5. CASE i = n + 1
      <3>1. lcChain'[n + 1] = e /\ lcChain'[n] = lcChain[n] /\ i # 1 /\ i - 1 = n
        BY <1>4, <2>2, <2>5
      <3> QED BY <1>6, <2>1, <2>5, <3>1
    <2> QED BY <1>4, <2>4, <2>5
  <1>9. LcPrepared'
    <2> SUFFICES ASSUME ~lcCrossed PROVE \A q \in LcRunners : lcAt'[q] # "append"
      BY <1>2 DEF LcPrepared
    <2> QED BY <1>1, <1>2 DEF LcPrepared, LcShape
  <1> QED BY <1>2, <1>5, <1>7, <1>8, <1>9, LcMachineStands DEF LcInv

LEMMA LcInvStep == LcInv /\ [LcNext]_lcVars => LcInv'
  <1> SUFFICES ASSUME LcInv, [LcNext]_lcVars PROVE LcInv'
    OBVIOUS
  <1>1. CASE UNCHANGED lcVars
    BY <1>1 DEF lcVars, LcInv, LcShape, LcUntried, LcFit, LcGoneForGood, LcLineage, LcVerifies, LcCounted, LcPrepared
  <1> QED BY <1>1, LcTransitionStep, LcReviewStep, LcGenesisStep, LcRefitReadStep, LcRefitAppendStep DEF LcNext

\* Every drift is seen and ends a leg's trading, a leg never trades again after SAFE_MODE, and its
\* configurations form one line unless refits overlap: for any returns, thresholds and number of weeks,
\* refits and runners.
THEOREM LegsEndOnDrift == LcSpec => []LcSound
  <1>1. LcInv => LcSound
    <2> SUFFICES ASSUME LcInv PROVE LcTypeOK /\ LcDriftSeen
      BY DEF LcInv, LcSound
    <2>1. ASSUME NEW i \in DOMAIN lcChain PROVE lcChain[i].leaf \in LcConfigs
      <3>1. lcChain \in LcEntries /\ i \in 1..Len(lcChain)
        BY DEF LcInv, LcShape, LcEntries
      <3>2. lcChain[i] \in [parent : LcConfigs \cup {LcNone}, leaf : LcConfigs, epoch : Nat]
        BY <3>1, ElementOfSeq DEF LcEntries
      <3> QED BY <3>2
    <2>2. LcTypeOK
      BY <2>1 DEF LcInv, LcShape, LcTypeOK
    <2>3. LcDriftSeen
      BY CusumIsDrift DEF LcInv, LcShape, LcDriftSeen
    <2> QED BY <2>2, <2>3
  <1> QED BY <1>1, LcInvInit, LcInvStep, PTL DEF LcSpec

-----------------------------------------------------------------------------
(* TelemetryGate.                                                          *)

TgGates == [emergency : BOOLEAN, reason : {"", "margin_alert", "reject_storm"}, mult : {35, 50, 75, 100}, block : BOOLEAN]

\* A gate that is not in an emergency bars nobody and cuts no one below three quarters; one that is cuts to
\* half at least, and bars if a storm was its cause.
TgShaped(g) ==
    /\ g \in TgGates
    /\ ~g.emergency => g.reason = "" /\ ~g.block /\ g.mult \in {75, 100}
    /\ g.emergency => g.reason # "" /\ g.mult \in {35, 50} /\ (g.reason = "reject_storm" => g.block)

\* The rejects kept were counted, and a storm among them bars.
TgCounted ==
    /\ tgNow \in Nat /\ tgCount \in Nat /\ Len(tgRejects) <= tgCount
    /\ (tgEvent # "none" /\ Len(tgRejects) >= TgStorm => tgGate.block)
    /\ (tgGate.block => tgCount >= TgStorm)

TgInv ==
    /\ tgRejects \in Seq(0..tgNow) /\ Len(tgRejects) <= TgKept /\ tgConnected \in BOOLEAN /\ tgBudget \in BOOLEAN
    /\ TgShaped(tgGate) /\ TgCounted

\* What pruning leaves: every reject in the window and no more than there were.
LEMMA TgPrunes ==
    ASSUME NEW S, NEW rejects \in Seq(S), tgNow \in Nat
    PROVE  /\ TgPruned(rejects) \in Seq(S) /\ Len(TgPruned(rejects)) <= Len(rejects)
           /\ Cardinality(TgInWindow(rejects)) <= Len(TgPruned(rejects))
  <1> DEFINE kept == TgInWindow(rejects)
             m == Min(kept)
  <1>1. Len(rejects) \in Nat /\ kept \in SUBSET (1..Len(rejects)) /\ IsFiniteSet(1..Len(rejects))
    BY FS_Interval DEF TgInWindow
  <1>2. CASE kept = {}
    <2>1. TgPruned(rejects) = <<>>
      BY <1>2 DEF TgPruned
    <2>2. Cardinality(kept) = 0
      BY <1>2, FS_EmptySet
    <2> HIDE DEF kept
    <2> QED BY <1>1, <2>1, <2>2 DEF kept
  <1>3. CASE kept # {}
    <2>1. TgPruned(rejects) = SubSeq(rejects, m, Len(rejects))
      BY <1>3, Zenon DEF TgPruned
    <2>2. m \in kept /\ \A y \in kept : m <= y
      <3> HIDE DEF kept
      <3> QED BY <1>1, <1>3, MinIs
    <2> HIDE DEF m
    <2>3. m \in 1..Len(rejects) /\ kept \subseteq m..Len(rejects)
      BY <1>1, <2>2
    <2>4. SubSeq(rejects, m, Len(rejects)) \in Seq(S) /\ Len(SubSeq(rejects, m, Len(rejects))) = Len(rejects) - m + 1
      BY <2>3
    <2>5. IsFiniteSet(m..Len(rejects)) /\ Cardinality(m..Len(rejects)) = Len(rejects) - m + 1
      BY <2>3, FS_Interval
    <2>6. Cardinality(kept) <= Len(rejects) - m + 1
      <3> HIDE DEF kept
      <3> QED BY <2>3, <2>5, FS_Subset
    <2>7. Len(rejects) - m + 1 <= Len(rejects)
      BY <1>1, <2>3
    <2> HIDE DEF kept
    <2> QED BY <2>1, <2>4, <2>6, <2>7 DEF kept
  <1> QED BY <1>2, <1>3

\* The multipliers are numbers that can be compared.
LEMMA TgMults ==
    ASSUME NEW g, TgShaped(g)
    PROVE  g.mult \in {35, 50, 75, 100} /\ g.mult \in Nat /\ g.mult <= g.mult
  <1>1. g.mult \in {35, 50, 75, 100}
    BY DEF TgShaped, TgGates
  <1>2. \A m \in {35, 50, 75, 100} : m \in Nat /\ m <= m
    OBVIOUS
  <1> QED BY <1>1, <1>2, Zenon

\* A cause in addition only tightens.
LEMMA TgTightens ==
    ASSUME NEW g, TgShaped(g), NEW reason \in {"margin_alert", "reject_storm"}, NEW mult \in {35, 50}, NEW block \in BOOLEAN,
           reason = "reject_storm" => block
    PROVE  LET h == TgActivate(g, reason, mult, block)
           IN TgShaped(h) /\ h.emergency /\ h.mult <= g.mult /\ (g.block \/ block <=> h.block)
  <1> DEFINE h == TgActivate(g, reason, mult, block)
  <1>1. g.mult \in {35, 50, 75, 100} /\ g.block \in BOOLEAN
    BY DEF TgShaped, TgGates
  <1>2. h = [emergency |-> TRUE, reason |-> reason, mult |-> TgLeast(g.mult, mult), block |-> g.block \/ block]
    BY DEF TgActivate
  <1>3. TgLeast(g.mult, mult) \in {35, 50} /\ TgLeast(g.mult, mult) <= g.mult
    BY <1>1 DEF TgLeast
  <1>4. PICK b \in BOOLEAN : b = (g.block \/ block)
    BY Zenon
  <1>5. h.emergency = TRUE /\ h.reason = reason /\ h.mult = TgLeast(g.mult, mult) /\ h.block = (g.block \/ block)
    BY <1>2
  <1>6. h \in TgGates
    <2>1. h = [emergency |-> TRUE, reason |-> reason, mult |-> TgLeast(g.mult, mult), block |-> b]
      BY <1>2, <1>4, Zenon
    <2> HIDE DEF h
    <2> QED BY <1>3, <2>1 DEF TgGates
  <1> HIDE DEF h
  <1>7. TgShaped(h)
    BY <1>3, <1>5, <1>6 DEF TgShaped
  <1> QED BY <1>3, <1>5, <1>7 DEF h

\* The gate after an event.
LEMMA TgGateAfter ==
    ASSUME TgInv, NEW event, NEW account, NEW rejects \in Seq(0..tgNow), NEW connected \in BOOLEAN, NEW budget \in BOOLEAN
    PROVE  LET gate == TgApplied(event, account, rejects, connected, budget)
               margin == IF account = <<>> THEN 0 ELSE account[1].margin
               storm == Len(TgPruned(rejects)) >= TgStorm
           IN /\ TgShaped(gate) /\ (storm => gate.block) /\ (gate.block => tgGate.block \/ storm)
              /\ (tgGate.emergency =>
                    \/ gate.emergency /\ gate.mult <= tgGate.mult /\ (tgGate.block => gate.block)
                    \/ event = "account_sync" /\ margin < TgAlert /\ ~storm)
  <1> DEFINE gate == TgApplied(event, account, rejects, connected, budget)
             margin == IF account = <<>> THEN 0 ELSE account[1].margin
             storm == TgStormy(rejects)
             alert == margin >= TgAlert
             constrained == ~connected \/ margin >= TgCeiling \/ alert \/ storm \/ ~budget \/ (account # <<>> /\ account[1].short)
             g == IF alert THEN TgActivate(tgGate, "margin_alert", 35, FALSE) ELSE tgGate
             h == CASE storm -> TgActivate(g, "reject_storm", 50, TRUE)
                    [] ~storm /\ g.emergency /\ TgReleases(event, margin) -> TgOpen
                    [] ~storm /\ ~g.emergency /\ event # "order_reject" -> TgOpen
                    [] OTHER -> g
  <1>1. gate = IF constrained /\ ~h.emergency THEN [h EXCEPT !.mult = TgLeast(@, 75)] ELSE h
    BY Zenon DEF TgApplied
  <1>2. TgShaped(tgGate)
    BY DEF TgInv
  <1>3. /\ TgShaped(g) /\ (alert => g.emergency) /\ (tgGate.emergency => g.emergency) /\ g.mult <= tgGate.mult
        /\ (tgGate.block <=> g.block)
    <2>1. CASE alert
      <3>1. g = TgActivate(tgGate, "margin_alert", 35, FALSE)
        BY <2>1, Zenon
      <3> HIDE DEF g, alert
      <3> QED BY <1>2, <2>1, <3>1, TgTightens
    <2>2. CASE ~alert
      <3>1. g = tgGate
        BY <2>2, Zenon
      <3>2. tgGate.mult <= tgGate.mult
        BY <1>2, TgMults
      <3> HIDE DEF g, alert
      <3> QED BY <1>2, <2>2, <3>1, <3>2
    <2> QED BY <2>1, <2>2
  <1> HIDE DEF g, alert
  <1>4. TgShaped(TgOpen) /\ ~TgOpen.emergency /\ ~TgOpen.block
    BY DEF TgOpen, TgShaped, TgGates
  <1>5. /\ TgShaped(h) /\ (storm => h.block) /\ (h.block => g.block \/ storm)
        /\ (g.emergency => (h.emergency /\ h.mult <= g.mult /\ (g.block => h.block)) \/ (TgReleases(event, margin) /\ ~storm))
    <2>1. CASE storm
      <3>1. h = TgActivate(g, "reject_storm", 50, TRUE)
        BY <2>1, Zenon
      <3> HIDE DEF h, storm
      <3> QED BY <1>3, <2>1, <3>1, TgTightens
    <2>2. CASE ~storm
      <3>1. (h = TgOpen /\ (g.emergency => TgReleases(event, margin))) \/ h = g
        BY <2>2, Zenon
      <3>2. g.mult <= g.mult
        BY <1>3, TgMults
      <3> HIDE DEF h, storm
      <3> QED BY <1>3, <1>4, <2>2, <3>1, <3>2, Zenon
    <2> QED BY <2>1, <2>2
  <1> HIDE DEF h, constrained
  <1>6. TgShaped(gate) /\ gate.block = h.block /\ gate.emergency = h.emergency /\ (h.emergency => gate = h)
    <2>1. CASE constrained /\ ~h.emergency
      <3>1. gate = [h EXCEPT !.mult = TgLeast(@, 75)]
        BY <1>1, <2>1
      <3>2. h \in TgGates /\ h.mult \in {75, 100} /\ ~h.block /\ h.reason = ""
        BY <1>5, <2>1 DEF TgShaped
      <3>3. TgLeast(h.mult, 75) = 75
        <4>1. \A m \in {75, 100} : TgLeast(m, 75) = 75
          BY DEF TgLeast
        <4> QED BY <3>2, <4>1, Zenon
      <3>4. gate = [h EXCEPT !.mult = 75]
        BY <3>1, <3>3
      <3> HIDE DEF gate
      <3>5. gate \in TgGates /\ gate.mult = 75 /\ gate.block = h.block /\ gate.reason = h.reason /\ gate.emergency = h.emergency
        BY <3>2, <3>4 DEF TgGates
      <3> QED BY <2>1, <3>2, <3>5 DEF TgShaped
    <2>2. CASE ~(constrained /\ ~h.emergency)
      <3>1. gate = h
        BY <1>1, <2>2
      <3> HIDE DEF gate
      <3> QED BY <1>5, <3>1
    <2> QED BY <2>1, <2>2
  <1>7. storm <=> Len(TgPruned(rejects)) >= TgStorm
    BY DEF TgStormy
  <1>8. tgGate.mult \in Nat /\ g.mult \in Nat /\ h.mult \in Nat
    BY <1>2, <1>3, <1>5, TgMults
  <1> HIDE DEF gate, storm, margin
  <1>9. TgShaped(gate) /\ (storm => gate.block) /\ (gate.block => tgGate.block \/ storm)
    BY <1>3, <1>5, <1>6
  <1>10. ASSUME tgGate.emergency
         PROVE  \/ gate.emergency /\ gate.mult <= tgGate.mult /\ (tgGate.block => gate.block)
                \/ event = "account_sync" /\ margin < TgAlert /\ ~storm
    <2>1. CASE TgReleases(event, margin) /\ ~storm
      BY <2>1 DEF TgReleases
    <2>2. CASE h.emergency /\ h.mult <= g.mult /\ (g.block => h.block)
      BY <1>3, <1>6, <1>8, <2>2
    <2> QED BY <1>3, <1>5, <1>10, <2>1, <2>2
  <1> QED BY <1>7, <1>9, <1>10 DEF gate, margin

\* Size is capped, halved in an emergency, and nothing exactly when barred.
LEMMA TgSizes == ASSUME TgShaped(tgGate) PROVE TgSize <= 100 /\ (tgGate.emergency => TgSize <= 50) /\ (TgSize = 0 <=> tgGate.block)
  <1>1. tgGate.mult \in {35, 50, 75, 100} /\ tgGate.block \in BOOLEAN /\ (tgGate.emergency => tgGate.mult \in {35, 50})
    BY TgMults DEF TgShaped, TgGates
  <1>2. CASE tgGate.block
    BY <1>2 DEF TgSize
  <1>3. CASE ~tgGate.block
    <2>1. TgSize = tgGate.mult
      BY <1>3 DEF TgSize
    <2> QED BY <1>1, <1>3, <2>1
  <1> QED BY <1>2, <1>3

LEMMA TgApplyStep ==
    ASSUME TgInv, NEW event, event # "none", NEW account, NEW rejects \in Seq(0..tgNow), NEW connected \in BOOLEAN, NEW budget \in BOOLEAN,
           TgApply(event, account, rejects, connected, budget), tgNow' = tgNow, tgCount' \in Nat, tgCount <= tgCount',
           Len(rejects) <= TgKept, Len(rejects) <= tgCount'
    PROVE  /\ TgInv'
           /\ (tgGate.emergency =>
                 \/ tgGate'.emergency /\ tgGate'.mult <= tgGate.mult /\ (tgGate.block => tgGate'.block)
                 \/ /\ event = "account_sync" /\ (IF account = <<>> THEN 0 ELSE account[1].margin) < TgAlert
                    /\ Cardinality(TgInWindow(rejects)) < TgStorm)
  <1>1. /\ tgGate' = TgApplied(event, account, rejects, connected, budget) /\ tgRejects' = TgPruned(rejects)
        /\ tgConnected' = connected /\ tgBudget' = budget /\ tgEvent' = event
    BY DEF TgApply
  <1>2. tgNow \in Nat /\ tgCount \in Nat /\ TgStorm \in Nat /\ TgKept \in Nat
    BY TgAssumption DEF TgInv, TgCounted
  <1>3. /\ TgPruned(rejects) \in Seq(0..tgNow) /\ Len(TgPruned(rejects)) <= Len(rejects)
        /\ Cardinality(TgInWindow(rejects)) <= Len(TgPruned(rejects))
    BY <1>2, TgPrunes
  <1>4. Len(TgPruned(rejects)) \in Nat /\ Len(rejects) \in Nat /\ Cardinality(TgInWindow(rejects)) \in Nat
    <2>1. Len(rejects) \in Nat /\ TgInWindow(rejects) \in SUBSET (1..Len(rejects))
      BY DEF TgInWindow
    <2>2. IsFiniteSet(TgInWindow(rejects))
      <3>1. IsFiniteSet(1..Len(rejects))
        BY <2>1, FS_Interval
      <3> QED BY <2>1, <3>1, FS_Subset
    <2> QED BY <1>3, <2>1, <2>2, FS_CardinalityType
  <1> DEFINE storm == Len(TgPruned(rejects)) >= TgStorm
  <1>5. /\ TgShaped(tgGate') /\ (storm => tgGate'.block) /\ (tgGate'.block => tgGate.block \/ storm)
        /\ (tgGate.emergency =>
              \/ tgGate'.emergency /\ tgGate'.mult <= tgGate.mult /\ (tgGate.block => tgGate'.block)
              \/ event = "account_sync" /\ (IF account = <<>> THEN 0 ELSE account[1].margin) < TgAlert /\ ~storm)
    BY <1>1, TgGateAfter, Zenon
  <1>6. TgCounted'
    <2>1. Len(tgRejects') <= tgCount'
      BY <1>1, <1>2, <1>3, <1>4
    <2>2. storm => tgCount' >= TgStorm
      BY <1>1, <1>2, <1>4, <2>1
    <2>3. tgGate.block => tgCount' >= TgStorm
      BY <1>2 DEF TgInv, TgCounted
    <2> QED BY <1>1, <1>2, <1>5, <2>1, <2>2, <2>3 DEF TgCounted
  <1>7. TgInv'
    <2>1. tgRejects' \in Seq(0..tgNow') /\ Len(tgRejects') <= TgKept
      BY <1>1, <1>2, <1>3, <1>4
    <2> QED BY <1>1, <1>5, <1>6, <2>1 DEF TgInv, TgShaped
  <1>8. ~storm => Cardinality(TgInWindow(rejects)) < TgStorm
    BY <1>2, <1>3, <1>4
  <1> QED BY <1>5, <1>7, <1>8, Zenon

\* The step of an event, in the words of the property.
TgKeepsTight ==
    tgGate.emergency =>
        \/ tgGate'.emergency /\ tgGate'.mult <= tgGate.mult /\ (tgGate.block => tgGate'.block)
        \/ /\ tgEvent' = "account_sync" /\ tgAccount'[1].margin < TgAlert
           /\ Cardinality(TgInWindow(tgRejects)) < TgStorm

LEMMA TgSyncStep ==
    ASSUME TgInv, NEW margin \in TgMargins, NEW short \in BOOLEAN, NEW budget \in BOOLEAN, TgSync(margin, short, budget)
    PROVE  TgInv' /\ TgKeepsTight
  <1> DEFINE account == <<[margin |-> margin, short |-> short]>>
  <1>1. TgApply("account_sync", account, tgRejects, tgConnected, budget) /\ tgNow' = tgNow /\ tgCount' = tgCount
    BY DEF TgSync
  <1>2. /\ tgRejects \in Seq(0..tgNow) /\ Len(tgRejects) <= TgKept /\ tgConnected \in BOOLEAN
        /\ tgCount \in Nat /\ Len(tgRejects) <= tgCount
    BY DEF TgInv, TgCounted
  <1>3. account # <<>> /\ account[1].margin = margin
    OBVIOUS
  <1>4. tgAccount' = account /\ tgEvent' = "account_sync"
    BY <1>1 DEF TgApply
  <1> HIDE DEF account
  <1>5. tgCount' \in Nat /\ tgCount <= tgCount' /\ Len(tgRejects) <= tgCount'
    BY <1>1, <1>2
  <1>6. /\ TgInv'
        /\ (tgGate.emergency =>
              \/ tgGate'.emergency /\ tgGate'.mult <= tgGate.mult /\ (tgGate.block => tgGate'.block)
              \/ /\ "account_sync" = "account_sync" /\ (IF account = <<>> THEN 0 ELSE account[1].margin) < TgAlert
                 /\ Cardinality(TgInWindow(tgRejects)) < TgStorm)
    BY <1>1, <1>2, <1>5, TgApplyStep
  <1> QED BY <1>3, <1>4, <1>6 DEF TgKeepsTight

LEMMA TgOtherStep ==
    ASSUME TgInv, TgReject \/ (\E ok \in BOOLEAN : TgConnectivity(ok)) \/ TgFeed
    PROVE  TgInv' /\ TgKeepsTight
  <1>1. /\ tgRejects \in Seq(0..tgNow) /\ Len(tgRejects) <= TgKept /\ tgConnected \in BOOLEAN /\ tgBudget \in BOOLEAN
        /\ tgCount \in Nat /\ Len(tgRejects) <= tgCount /\ tgNow \in Nat /\ TgKept \in Nat
    BY TgAssumption DEF TgInv, TgCounted
  <1>2. PICK event \in {"order_reject", "connectivity", "telemetry"}, rejects \in Seq(0..tgNow), ok \in BOOLEAN :
            /\ TgApply(event, tgAccount, rejects, ok, tgBudget) /\ tgNow' = tgNow /\ tgCount' \in Nat /\ tgCount <= tgCount'
            /\ Len(rejects) <= TgKept /\ Len(rejects) <= tgCount'
    <2>1. CASE TgReject
      <3> DEFINE all == Append(tgRejects, tgNow)
                 rejects == IF Len(all) > TgKept THEN Tail(all) ELSE all
      <3>1. TgApply("order_reject", tgAccount, rejects, tgConnected, tgBudget) /\ tgCount' = tgCount + 1 /\ tgNow' = tgNow
        BY <2>1 DEF TgReject
      <3>2. all \in Seq(0..tgNow) /\ Len(all) = Len(tgRejects) + 1 /\ Len(tgRejects) \in Nat
        BY <1>1
      <3> HIDE DEF all
      <3>3. Tail(all) \in Seq(0..tgNow) /\ Len(Tail(all)) = Len(tgRejects)
        BY <3>2
      <3>4. rejects \in Seq(0..tgNow) /\ Len(rejects) <= TgKept /\ Len(rejects) <= tgCount + 1
        <4>1. CASE Len(all) > TgKept
          <5>1. rejects = Tail(all)
            BY <4>1
          <5> HIDE DEF rejects
          <5> QED BY <1>1, <3>2, <3>3, <5>1
        <4>2. CASE ~(Len(all) > TgKept)
          <5>1. rejects = all
            BY <4>2
          <5> HIDE DEF rejects
          <5> QED BY <1>1, <3>2, <4>2, <5>1
        <4> QED BY <4>1, <4>2
      <3> HIDE DEF rejects
      <3>5. tgCount' \in Nat /\ tgCount <= tgCount' /\ Len(rejects) <= tgCount'
        BY <1>1, <3>1, <3>4
      <3> QED BY <1>1, <3>1, <3>4, <3>5, Zenon
    <2>2. CASE (\E ok \in BOOLEAN : TgConnectivity(ok)) \/ TgFeed
      <3>1. tgNow' = tgNow /\ tgCount' = tgCount
        BY <2>2 DEF TgConnectivity, TgFeed
      <3>2. tgCount' \in Nat /\ tgCount <= tgCount' /\ Len(tgRejects) <= tgCount'
        BY <1>1, <3>1
      <3>3. \E event \in {"connectivity", "telemetry"}, ok \in BOOLEAN : TgApply(event, tgAccount, tgRejects, ok, tgBudget)
        BY <1>1, <2>2, Zenon DEF TgConnectivity, TgFeed
      <3> QED BY <1>1, <3>1, <3>2, <3>3, Zenon
    <2> QED BY <2>1, <2>2
  <1>3. event # "none" /\ event # "account_sync"
    OBVIOUS
  <1>4. /\ TgInv'
        /\ (tgGate.emergency => \/ tgGate'.emergency /\ tgGate'.mult <= tgGate.mult /\ (tgGate.block => tgGate'.block)
                                \/ event = "account_sync")
    BY <1>1, <1>2, <1>3, TgApplyStep, Zenon
  <1> QED BY <1>3, <1>4, Zenon DEF TgKeepsTight

\* Pruning by a reader and the passing of time leave the gate.
LEMMA TgQuietStep == ASSUME TgInv, TgSnapshot \/ TgTick \/ UNCHANGED tgVars PROVE TgInv' /\ UNCHANGED tgGate
  <1>1. /\ tgRejects \in Seq(0..tgNow) /\ Len(tgRejects) <= TgKept /\ tgNow \in Nat /\ tgCount \in Nat /\ Len(tgRejects) <= tgCount
        /\ TgStorm \in Nat /\ TgKept \in Nat /\ Len(tgRejects) \in Nat
    BY TgAssumption DEF TgInv, TgCounted
  <1>2. UNCHANGED <<tgConnected, tgBudget, tgGate, tgCount, tgEvent>> /\ tgNow' \in {tgNow, tgNow + 1}
    BY DEF TgSnapshot, TgTick, tgVars
  <1>3. tgRejects' \in Seq(0..tgNow') /\ Len(tgRejects') <= Len(tgRejects)
    <2>1. CASE TgSnapshot
      BY <1>1, <2>1, TgPrunes DEF TgSnapshot
    <2>2. CASE TgTick \/ UNCHANGED tgVars
      <3>1. tgRejects' = tgRejects
        BY <2>2 DEF TgTick, tgVars
      <3>2. 0..tgNow \subseteq 0..tgNow'
        BY <1>1, <1>2
      <3>3. tgRejects \in Seq(0..tgNow')
        <4>1. ASSUME NEW S, NEW T, S \subseteq T, NEW s \in Seq(S) PROVE s \in Seq(T)
          BY <4>1
        <4> QED BY <1>1, <3>2, <4>1, Zenon
      <3> QED BY <1>1, <3>1, <3>3
    <2> QED BY <2>1, <2>2
  <1>4. Len(tgRejects') \in Nat /\ Len(tgRejects') <= TgKept /\ Len(tgRejects') <= tgCount
    BY <1>1, <1>3
  <1>5. TgCounted'
    BY <1>1, <1>2, <1>3, <1>4 DEF TgInv, TgCounted
  <1> QED BY <1>2, <1>3, <1>4, <1>5 DEF TgInv, TgShaped

LEMMA TgStarts == TgInit => TgInv
  <1> SUFFICES ASSUME TgInit PROVE TgInv
    OBVIOUS
  <1>1. TgShaped(tgGate)
    BY DEF TgInit, TgOpen, TgShaped, TgGates
  <1>2. tgRejects = <<>> /\ tgNow = 0 /\ tgCount = 0 /\ tgEvent = "none" /\ ~tgGate.block /\ tgConnected = TRUE /\ tgBudget = FALSE
    BY DEF TgInit, TgOpen
  <1>3. tgRejects \in Seq(0..tgNow) /\ Len(tgRejects) = 0 /\ TgKept \in Nat
    BY <1>2, TgAssumption
  <1>4. TgCounted
    BY <1>2, <1>3 DEF TgCounted
  <1>5. Len(tgRejects) <= TgKept
    BY <1>3
  <1> QED BY <1>1, <1>2, <1>3, <1>4, <1>5, Zenon DEF TgInv

LEMMA TgEveryStep == ASSUME TgInv, [TgNext]_tgVars PROVE TgInv' /\ (TgKeepsTight \/ UNCHANGED tgGate)
  <1>1. CASE \E m \in TgMargins, s, b \in BOOLEAN : TgSync(m, s, b)
    <2>1. PICK m \in TgMargins, s \in BOOLEAN, b \in BOOLEAN : TgSync(m, s, b)
      BY <1>1, Zenon
    <2> QED BY <2>1, TgSyncStep, Zenon
  <1> QED BY <1>1, TgOtherStep, TgQuietStep, Zenon DEF TgNext

\* What the capital gate promises (telemetry_gate.py:90-235): a storm of rejects bars entries whichever event
\* finds it, nothing else does, and inside an emergency the gate only tightens.
THEOREM GateBrakes == TgSpec => TgBrakes
  <1>1. TgInv => TgTypeOK /\ TgStormBars
    <2> SUFFICES ASSUME TgInv PROVE TgTypeOK /\ TgStormBars
      OBVIOUS
    <2>1. TgShaped(tgGate)
      BY DEF TgInv
    <2>2. (tgGate.emergency => TgSize <= 50) /\ (TgSize = 0 <=> tgGate.block)
      BY <2>1, TgSizes
    <2>3. tgGate.mult \in {35, 50, 75, 100} /\ (tgGate.reason # "" <=> tgGate.emergency) /\ (tgGate.reason = "reject_storm" => tgGate.block)
          /\ (tgGate.block => tgGate.emergency)
      BY <2>1, TgMults DEF TgShaped
    <2> QED BY <2>2, <2>3 DEF TgInv, TgCounted, TgTypeOK, TgStormBars
  <1>2. TgInv /\ [TgNext]_tgVars => TgInv'
    BY TgEveryStep
  <1>3. TgInv /\ [TgNext]_tgVars =>
          [tgGate.emergency =>
             \/ tgGate'.emergency /\ TgSize' <= TgSize /\ (tgGate.block => tgGate'.block)
             \/ /\ tgEvent' = "account_sync" /\ tgAccount'[1].margin < TgAlert
                /\ Cardinality(TgInWindow(tgRejects)) < TgStorm]_tgVars
    <2> SUFFICES ASSUME TgInv, [TgNext]_tgVars, tgGate.emergency
                 PROVE  \/ tgGate'.emergency /\ TgSize' <= TgSize /\ (tgGate.block => tgGate'.block)
                        \/ /\ tgEvent' = "account_sync" /\ tgAccount'[1].margin < TgAlert
                           /\ Cardinality(TgInWindow(tgRejects)) < TgStorm
      BY Zenon
    <2>1. TgInv' /\ (TgKeepsTight \/ UNCHANGED tgGate)
      BY TgEveryStep
    <2>2. TgShaped(tgGate) /\ tgGate.mult \in Nat /\ tgGate'.mult \in Nat
      <3>1. TgShaped(tgGate) /\ TgShaped(tgGate')
        BY <2>1 DEF TgInv, TgShaped
      <3> QED BY <3>1, TgMults
    <2>3. ASSUME tgGate'.mult <= tgGate.mult, tgGate.block => tgGate'.block PROVE TgSize' <= TgSize
      BY <2>2, <2>3 DEF TgSize
    <2>4. CASE TgKeepsTight
      BY <2>3, <2>4, Zenon DEF TgKeepsTight
    <2>5. CASE UNCHANGED tgGate
      BY <2>2, <2>3, <2>5
    <2> QED BY <2>1, <2>4, <2>5
  <1> QED BY <1>1, <1>2, <1>3, TgStarts, PTL DEF TgSpec, TgBrakes, TgOnlyTightens

-----------------------------------------------------------------------------
(* PreFlight.                                                              *)

PfRow == [qty : Int \ {0}, at : 0..pfNow, price : PfPrices]

\* Fills are in the order of time, and none is of the future.
PfTimed ==
    /\ pfFills \in Seq(PfRow)
    /\ \A j, k \in DOMAIN pfFills : j <= k => pfFills[j].at <= pfFills[k].at

\* A run holds no lock, and what it read is the broker's position until another fill.
PfRead ==
    /\ pfAt # "idle" => ~pfLock
    /\ pfAt \in {"orders", "fills"} /\ ~pfRaced => pfSeen = PfPosition
    /\ pfAt = "fills" => pfSeen.qty # 0

PfInv == PfTypeOK /\ PfTimed /\ PfRead

-----------------------------------------------------------------------------
(* The inventory.                                                          *)

\* The fills are finitely many, and their sums are sums of the library.
LEMMA PfSums ==
    ASSUME PfInv
    PROVE  /\ Len(pfFills) \in Nat /\ DOMAIN pfFills = 1..Len(pfFills) /\ IsFiniteSet(DOMAIN pfFills)
           /\ PfQty \in [DOMAIN pfFills -> Int] /\ (\A k \in DOMAIN pfFills : pfFills[k] \in PfRow)
           /\ \A r \in SUBSET DOMAIN pfFills : PfSum(r) = SumFold(PfQty, DOMAIN pfFills)[r] /\ PfSum(r) \in Int
  <1>1. pfFills \in Seq(PfRow)
    BY DEF PfInv, PfTimed
  <1>2. Len(pfFills) \in Nat /\ DOMAIN pfFills = 1..Len(pfFills) /\ \A k \in DOMAIN pfFills : pfFills[k] \in PfRow
    BY <1>1
  <1>3. IsFiniteSet(DOMAIN pfFills)
    BY <1>2, FS_Interval
  <1>4. PfQty \in [DOMAIN pfFills -> Int]
    <2>1. \A k \in DOMAIN pfFills : pfFills[k].qty \in Int
      BY <1>2 DEF PfRow
    <2> QED BY <2>1, Zenon DEF PfQty
  <1>5. ASSUME NEW r \in SUBSET DOMAIN pfFills
        PROVE  PfSum(r) = SumFold(PfQty, DOMAIN pfFills)[r] /\ PfSum(r) \in Int
    <2>1. PfSum(r) = SumFold(PfQty, r)[r]
      BY DEF PfSum, FoldSet, MapThenFoldSet, SumFold, SumTurn, Pick
    <2>2. SumFold(PfQty, r)[r] = SumFold(PfQty, DOMAIN pfFills)[r]
      BY <1>3, SumOfPart
    <2>3. SumFold(PfQty, DOMAIN pfFills)[r] \in Int
      BY <1>3, <1>4, SumIsInt
    <2> QED BY <2>1, <2>2, <2>3
  <1> QED BY <1>2, <1>3, <1>4, <1>5

\* One fill taken out of a sum.
LEMMA PfTakesOut ==
    ASSUME PfInv, NEW s \in SUBSET DOMAIN pfFills, NEW p \in s
    PROVE  PfSum(s) = PfSum(s \ {p}) + PfQty[p]
  <1>1. IsFiniteSet(DOMAIN pfFills) /\ PfQty \in [DOMAIN pfFills -> Int]
    BY PfSums
  <1>2. SumFold(PfQty, DOMAIN pfFills)[s] = SumFold(PfQty, DOMAIN pfFills)[s \ {p}] + PfQty[p]
    BY <1>1, SumTakesOut
  <1>3. PfSum(s) = SumFold(PfQty, DOMAIN pfFills)[s] /\ PfSum(s \ {p}) = SumFold(PfQty, DOMAIN pfFills)[s \ {p}]
    <2>1. s \ {p} \in SUBSET DOMAIN pfFills
      OBVIOUS
    <2> QED BY <2>1, PfSums
  <1> QED BY <1>2, <1>3

\* What is held is the sum of two parts of the fills.
LEMMA PfAddsUp ==
    ASSUME PfInv, NEW a \in SUBSET DOMAIN pfFills, NEW b \in SUBSET DOMAIN pfFills, a \cap b = {}, DOMAIN pfFills = a \cup b
    PROVE  PfHeld = PfSum(a) + PfSum(b) /\ PfSum(a) \in Int /\ PfSum(b) \in Int
  <1>1. IsFiniteSet(DOMAIN pfFills) /\ PfQty \in [DOMAIN pfFills -> Int]
    BY PfSums
  <1>2. SumFold(PfQty, DOMAIN pfFills)[a \cup b] = SumFold(PfQty, DOMAIN pfFills)[a] + SumFold(PfQty, DOMAIN pfFills)[b]
    BY <1>1, SumOfBoth
  <1>3. /\ PfSum(a) = SumFold(PfQty, DOMAIN pfFills)[a] /\ PfSum(b) = SumFold(PfQty, DOMAIN pfFills)[b]
        /\ PfSum(a) \in Int /\ PfSum(b) \in Int
    BY PfSums
  <1>4. PfHeld = SumFold(PfQty, DOMAIN pfFills)[DOMAIN pfFills]
    <2>1. DOMAIN pfFills \in SUBSET DOMAIN pfFills
      OBVIOUS
    <2> QED BY <2>1, PfSums DEF PfHeld
  <1>5. SumFold(PfQty, DOMAIN pfFills)[a \cup b] = SumFold(PfQty, DOMAIN pfFills)[DOMAIN pfFills]
    OBVIOUS
  <1> QED BY <1>2, <1>3, <1>4, <1>5, Zenon

\* The inventory before the first fill, after the last one, and over a fill.
LEMMA PfInventory ==
    ASSUME PfInv
    PROVE  /\ PfBefore(1) = 0 /\ PfBefore(Len(pfFills) + 1) = PfHeld /\ PfHeld \in Int
           /\ \A k \in DOMAIN pfFills :
                 /\ PfBefore(k) \in Int /\ PfBefore(k + 1) = PfBefore(k) + PfQty[k] /\ PfQty[k] \in Int
                 /\ PfHeld = PfBefore(k + 1) + PfSum((k + 1)..Len(pfFills)) /\ PfSum((k + 1)..Len(pfFills)) \in Int
  <1>1. Len(pfFills) \in Nat /\ DOMAIN pfFills = 1..Len(pfFills) /\ PfQty \in [DOMAIN pfFills -> Int]
    BY PfSums
  <1>2. \A r \in SUBSET DOMAIN pfFills : PfSum(r) \in Int
    BY PfSums
  <1>3. \A k \in Nat : PfBefore(k) = PfSum(1..(k - 1)) /\ PfBefore(k + 1) = PfSum(1..k)
    <2> TAKE k \in Nat
    <2>1. k + 1 - 1 = k
      OBVIOUS
    <2>2. PfBefore(k + 1) = PfSum(1..(k + 1 - 1))
      BY DEF PfBefore
    <2> QED BY <2>1, <2>2 DEF PfBefore
  <1>4. PfBefore(1) = 0
    <2>1. 1..(1 - 1) = {} /\ {} \in SUBSET DOMAIN pfFills
      OBVIOUS
    <2>2. IsFiniteSet(DOMAIN pfFills) /\ PfSum({}) = SumFold(PfQty, DOMAIN pfFills)[{}]
      BY <2>1, PfSums
    <2>3. SumFold(PfQty, DOMAIN pfFills)[{}] = 0
      BY <2>1, <2>2, SumFoldAt DEF SumTurn
    <2>4. PfBefore(1) = PfSum({})
      BY <2>1 DEF PfBefore
    <2> QED BY <2>2, <2>3, <2>4
  <1>5. PfBefore(Len(pfFills) + 1) = PfHeld /\ PfHeld \in Int
    <2>1. DOMAIN pfFills \in SUBSET DOMAIN pfFills
      OBVIOUS
    <2>2. PfBefore(Len(pfFills) + 1) = PfSum(DOMAIN pfFills)
      BY <1>1, <1>3
    <2> QED BY <1>2, <2>1, <2>2 DEF PfHeld
  <1>6. ASSUME NEW k \in DOMAIN pfFills
        PROVE  /\ PfBefore(k) \in Int /\ PfBefore(k + 1) = PfBefore(k) + PfQty[k] /\ PfQty[k] \in Int
               /\ PfHeld = PfBefore(k + 1) + PfSum((k + 1)..Len(pfFills)) /\ PfSum((k + 1)..Len(pfFills)) \in Int
    <2> DEFINE early == 1..(k - 1)
               upto == 1..k
               late == (k + 1)..Len(pfFills)
    <2>1. k \in Nat /\ early \in SUBSET DOMAIN pfFills /\ upto \in SUBSET DOMAIN pfFills /\ late \in SUBSET DOMAIN pfFills
      BY <1>1
    <2>2. k \in upto /\ upto \ {k} = early /\ upto \cap late = {} /\ DOMAIN pfFills = upto \cup late
      BY <1>1
    <2>3. PfBefore(k) = PfSum(early) /\ PfBefore(k + 1) = PfSum(upto)
      BY <1>3, <2>1
    <2> HIDE DEF early, upto, late
    <2>4. PfSum(upto) = PfSum(upto \ {k}) + PfQty[k]
      BY <2>1, <2>2, PfTakesOut
    <2>5. PfHeld = PfSum(upto) + PfSum(late) /\ PfSum(late) \in Int
      BY <2>1, <2>2, PfAddsUp
    <2>6. PfQty[k] \in Int /\ PfSum(early) \in Int
      BY <1>1, <1>2, <2>1
    <2>7. PfSum(upto) = PfSum(early) + PfQty[k]
      BY <2>2, <2>4, Zenon
    <2> QED BY <2>3, <2>5, <2>6, <2>7, Zenon DEF late
  <1> QED BY <1>4, <1>5, <1>6

\* When a walk back crosses zero.
LEMMA PfSigns ==
    ASSUME NEW m \in Int, NEW n \in Int
    PROVE  /\ PfSign(n) \in {-1, 0, 1} /\ (PfSign(n) = 0 <=> n = 0)
           /\ (PfSign(m) = PfSign(n) /\ n # 0 => ~PfCrossed(m, n))
           /\ (PfSign(m) # PfSign(n) /\ m # 0 => PfCrossed(m, n))
  BY DEF PfSign, PfCrossed

\* A position has an opening fill: before it the book was flat or on the other side, and from it on never.
LEMMA PfOpened ==
    ASSUME PfInv, PfHeld # 0
    PROVE  /\ PfOpening \in DOMAIN pfFills /\ PfSign(PfBefore(PfOpening)) # PfSign(PfHeld)
           /\ \A k \in DOMAIN pfFills : k > PfOpening => PfSign(PfBefore(k)) = PfSign(PfHeld)
  <1> DEFINE other == {k \in DOMAIN pfFills : PfSign(PfBefore(k)) # PfSign(PfHeld)}
  <1>1. Len(pfFills) \in Nat /\ DOMAIN pfFills = 1..Len(pfFills) /\ other \in SUBSET (1..Len(pfFills))
    BY PfSums
  <1>2. PfBefore(1) = 0 /\ PfBefore(Len(pfFills) + 1) = PfHeld /\ PfHeld \in Int
    BY PfInventory
  <1>3. 1 \in other
    <2>1. Len(pfFills) # 0
      BY <1>2
    <2>2. PfSign(0) = 0 /\ PfSign(PfHeld) # 0
      BY <1>2, PfSigns DEF PfSign
    <2> QED BY <1>1, <1>2, <2>1, <2>2
  <1>4. PfOpening = Max(other)
    BY DEF PfOpening
  <1>5. Max(other) \in other /\ \A y \in other : Max(other) >= y
    <2> HIDE DEF other
    <2> QED BY <1>1, <1>3, MaxIs
  <1>6. PfOpening \in other /\ \A k \in DOMAIN pfFills : k > PfOpening => k \notin other
    <2> HIDE DEF other
    <2>1. PfOpening \in other /\ \A y \in other : PfOpening >= y
      BY <1>4, <1>5, Zenon
    <2>2. \A y \in other : y \in Nat
      BY <1>1
    <2>3. ASSUME NEW k \in DOMAIN pfFills, k > PfOpening PROVE k \notin other
      BY <2>1, <2>2, <2>3
    <2> QED BY <2>1, <2>3
  <1> QED BY <1>6

\* Walked back over the fills a lookback shows, the inventory is what it was.
LEMMA PfWalk ==
    ASSUME PfInv, NEW w \in 1..Len(PfWindows), NEW k \in PfVisible(w)
    PROVE  /\ k \in DOMAIN pfFills
           /\ PfAfter(PfVisible(w), PfHeld, k) = PfBefore(k + 1)
           /\ PfAfter(PfVisible(w), PfHeld, k) - PfQty[k] = PfBefore(k)
           /\ \A j \in DOMAIN pfFills : k <= j => j \in PfVisible(w)
  <1>1. Len(pfFills) \in Nat /\ DOMAIN pfFills = 1..Len(pfFills) /\ \A j \in DOMAIN pfFills : pfFills[j] \in PfRow
    BY PfSums
  <1>2. k \in DOMAIN pfFills /\ pfNow - pfFills[k].at <= PfWindows[w] /\ pfNow \in Nat /\ PfWindows[w] \in Nat
    BY PfAssumption DEF PfVisible, PfInv, PfTypeOK
  <1>3. ASSUME NEW j \in DOMAIN pfFills, k <= j PROVE j \in PfVisible(w)
    <2>1. pfFills[k].at <= pfFills[j].at
      BY <1>2, <1>3 DEF PfInv, PfTimed
    <2>2. pfFills[k].at \in 0..pfNow /\ pfFills[j].at \in 0..pfNow
      BY <1>1, <1>2 DEF PfRow
    <2>3. pfNow - pfFills[j].at <= PfWindows[w]
      BY <1>2, <2>1, <2>2
    <2> QED BY <2>3 DEF PfVisible
  <1>4. {j \in PfVisible(w) : j > k} = (k + 1)..Len(pfFills)
    <2>1. PfVisible(w) \subseteq DOMAIN pfFills
      BY DEF PfVisible
    <2> QED BY <1>1, <1>2, <1>3, <2>1
  <1>5. PfAfter(PfVisible(w), PfHeld, k) = PfHeld - PfSum((k + 1)..Len(pfFills))
    BY <1>4 DEF PfAfter
  <1>6. /\ PfBefore(k) \in Int /\ PfBefore(k + 1) = PfBefore(k) + PfQty[k] /\ PfQty[k] \in Int
        /\ PfHeld = PfBefore(k + 1) + PfSum((k + 1)..Len(pfFills)) /\ PfSum((k + 1)..Len(pfFills)) \in Int
    BY <1>2, PfInventory
  <1> DEFINE later == PfSum((k + 1)..Len(pfFills))
             after == PfBefore(k + 1)
  <1> HIDE DEF later, after
  <1>7. PfAfter(PfVisible(w), PfHeld, k) = PfHeld - later /\ PfHeld = after + later /\ later \in Int /\ after = PfBefore(k) + PfQty[k]
    BY <1>5, <1>6, Zenon DEF later, after
  <1>8. PfAfter(PfVisible(w), PfHeld, k) = after /\ PfAfter(PfVisible(w), PfHeld, k) - PfQty[k] = PfBefore(k)
    BY <1>6, <1>7
  <1> QED BY <1>2, <1>3, <1>8 DEF after

\* What the walk returns is a fill it saw ...
LEMMA PfEntrySeen ==
    ASSUME PfInv, NEW w, NEW target
    PROVE  LET k == PfEntry(PfVisible(w), target) IN k # 0 => k \in DOMAIN pfFills
  <1> DEFINE hits == {k \in PfVisible(w) : PfCrossed(PfAfter(PfVisible(w), target, k), PfAfter(PfVisible(w), target, k) - PfQty[k])}
  <1>1. PfEntry(PfVisible(w), target) = IF hits = {} THEN 0 ELSE Max(hits)
    BY DEF PfEntry
  <1>2. Len(pfFills) \in Nat /\ DOMAIN pfFills = 1..Len(pfFills)
    BY PfSums
  <1>3. hits \in SUBSET (1..Len(pfFills))
    BY <1>2 DEF PfVisible
  <1> HIDE DEF hits
  <1>4. CASE hits = {}
    BY <1>1, <1>4
  <1>5. CASE hits # {}
    <2>1. Max(hits) \in hits
      BY <1>2, <1>3, <1>5, MaxIs
    <2> QED BY <1>1, <1>2, <1>3, <1>5, <2>1
  <1> QED BY <1>4, <1>5

\* ... and, walked from the position held, the opening one, whatever the lookback leaves out.
LEMMA PfEntryOpens ==
    ASSUME PfInv, PfHeld # 0, NEW w \in 1..Len(PfWindows), PfEntry(PfVisible(w), PfHeld) # 0
    PROVE  PfEntry(PfVisible(w), PfHeld) = PfOpening
  <1> DEFINE hits == {k \in PfVisible(w) : PfCrossed(PfAfter(PfVisible(w), PfHeld, k), PfAfter(PfVisible(w), PfHeld, k) - PfQty[k])}
  <1>1. PfEntry(PfVisible(w), PfHeld) = IF hits = {} THEN 0 ELSE Max(hits)
    BY DEF PfEntry
  <1>2. Len(pfFills) \in Nat /\ DOMAIN pfFills = 1..Len(pfFills) /\ PfHeld \in Int /\ PfBefore(Len(pfFills) + 1) = PfHeld
    BY PfSums, PfInventory
  <1>3. hits \in SUBSET (1..Len(pfFills))
    BY <1>2 DEF PfVisible
  <1>4. /\ PfOpening \in DOMAIN pfFills /\ PfSign(PfBefore(PfOpening)) # PfSign(PfHeld)
        /\ \A k \in DOMAIN pfFills : k > PfOpening => PfSign(PfBefore(k)) = PfSign(PfHeld)
    BY PfOpened
  <1>5. ASSUME NEW k \in DOMAIN pfFills, k >= PfOpening
        PROVE  PfSign(PfBefore(k + 1)) = PfSign(PfHeld) /\ PfBefore(k + 1) \in Int /\ PfBefore(k + 1) # 0 /\ PfBefore(k) \in Int
    <2>1. PfSign(PfBefore(k + 1)) = PfSign(PfHeld)
      <3>1. CASE k = Len(pfFills)
        BY <1>2, <3>1
      <3>2. CASE k # Len(pfFills)
        <4>1. k + 1 \in DOMAIN pfFills /\ k + 1 > PfOpening
          BY <1>2, <1>4, <1>5, <3>2
        <4> QED BY <1>4, <4>1
      <3> QED BY <3>1, <3>2
    <2>2. PfBefore(k) \in Int /\ PfBefore(k + 1) \in Int
      BY PfInventory
    <2>3. PfBefore(k + 1) # 0
      BY <1>2, <2>1, <2>2, PfSigns
    <2> QED BY <2>1, <2>2, <2>3
  <1>6. ASSUME NEW k \in hits PROVE k <= PfOpening
    <2> SUFFICES ASSUME k > PfOpening PROVE FALSE
      BY <1>2, <1>3, <1>4
    <2>1. k \in PfVisible(w) /\ k \in DOMAIN pfFills /\ PfCrossed(PfBefore(k + 1), PfBefore(k))
      BY PfWalk
    <2>2. PfSign(PfBefore(k)) = PfSign(PfHeld) /\ PfSign(PfBefore(k + 1)) = PfSign(PfHeld) /\ PfBefore(k) \in Int /\ PfBefore(k + 1) \in Int
      <3>1. k >= PfOpening
        BY <1>2, <1>4, <2>1
      <3> QED BY <1>4, <1>5, <2>1, <3>1
    <2>3. PfBefore(k) # 0
      BY <1>2, <2>2, PfSigns
    <2> QED BY <2>1, <2>2, <2>3, PfSigns
  <1>7. hits # {}
    BY <1>1
  <1>8. PfOpening \in hits
    <2>1. PICK k \in hits : k <= PfOpening
      BY <1>6, <1>7
    <2>2. k \in PfVisible(w)
      OBVIOUS
    <2>3. PfOpening \in PfVisible(w)
      BY <1>4, <2>1, <2>2, PfWalk
    <2>4. PfCrossed(PfBefore(PfOpening + 1), PfBefore(PfOpening))
      <3>1. PfOpening >= PfOpening
        BY <1>2, <1>4
      <3>2. PfSign(PfBefore(PfOpening + 1)) = PfSign(PfHeld) /\ PfBefore(PfOpening + 1) \in Int /\ PfBefore(PfOpening + 1) # 0 /\ PfBefore(PfOpening) \in Int
        BY <1>4, <1>5, <3>1
      <3>3. PfSign(PfBefore(PfOpening + 1)) # PfSign(PfBefore(PfOpening))
        BY <1>4, <3>2
      <3> QED BY <3>2, <3>3, PfSigns
    <2>5. PfAfter(PfVisible(w), PfHeld, PfOpening) = PfBefore(PfOpening + 1) /\ PfAfter(PfVisible(w), PfHeld, PfOpening) - PfQty[PfOpening] = PfBefore(PfOpening)
      BY <2>3, PfWalk
    <2> QED BY <2>3, <2>4, <2>5, Zenon
  <1> HIDE DEF hits
  <1>9. Max(hits) \in hits /\ \A y \in hits : Max(hits) >= y
    BY <1>2, <1>3, <1>7, MaxIs
  <1>10. Max(hits) <= PfOpening /\ Max(hits) >= PfOpening /\ Max(hits) \in Nat /\ PfOpening \in Nat
    BY <1>2, <1>3, <1>4, <1>6, <1>8, <1>9
  <1>11. Max(hits) = PfOpening
    BY <1>10
  <1> QED BY <1>1, <1>7, <1>11

-----------------------------------------------------------------------------
(* The steps.                                                              *)

\* The position depends on the fills alone.
LEMMA PfSamePosition == ASSUME pfFills' = pfFills PROVE PfPosition' = PfPosition
  <1>1. PfQty' = PfQty
    BY DEF PfQty
  <1>2. \A ks : PfSum(ks)' = PfSum(ks)
    BY <1>1 DEF PfSum, FoldSet, MapThenFoldSet
  <1>3. PfHeld' = PfHeld /\ \A k : PfBefore(k)' = PfBefore(k)
    BY <1>2 DEF PfHeld, PfBefore
  <1>4. PfOpening' = PfOpening
    BY <1>3 DEF PfOpening
  <1> QED BY <1>3, <1>4 DEF PfPosition

\* Time that passes leaves the fills in order.
LEMMA PfStillTimed ==
    ASSUME PfInv, pfFills' = pfFills, pfNow' \in {pfNow, pfNow + 1}
    PROVE  PfTimed'
  <1>1. pfNow \in Nat /\ \A k \in DOMAIN pfFills : pfFills[k] \in PfRow
    BY PfSums DEF PfInv, PfTypeOK
  <1>2. PfRow \subseteq PfRow'
    <2>1. 0..pfNow \subseteq 0..pfNow'
      BY <1>1
    <2> QED BY <2>1 DEF PfRow
  <1>3. pfFills \in Seq(PfRow')
    <2>1. ASSUME NEW S, NEW T, S \subseteq T, NEW f \in Seq(S) PROVE f \in Seq(T)
      BY <2>1
    <2>2. pfFills \in Seq(PfRow)
      BY DEF PfInv, PfTimed
    <2> QED BY <1>2, <2>1, <2>2, Zenon
  <1>4. \A j, k \in DOMAIN pfFills : j <= k => pfFills[j].at <= pfFills[k].at
    BY DEF PfInv, PfTimed
  <1> QED BY <1>3, <1>4, Zenon DEF PfTimed

LEMMA PfFillStep == ASSUME PfInv, NEW q \in PfQtys, NEW p \in PfPrices, PfFill(q, p) PROVE PfInv'
  <1> DEFINE row == [qty |-> q, at |-> pfNow, price |-> p]
  <1>1. /\ Len(pfFills) < PfMaxFills /\ pfFills' = Append(pfFills, row) /\ pfRaced' = (pfRaced \/ pfAt # "idle")
        /\ UNCHANGED <<pfNow, pfOdd, pfLocal, pfLock, pfDeferred, pfDefer, pfAt, pfSeen, pfWin, pfSup>>
    BY DEF PfFill, pfLatches
  <1>2. pfFills \in Seq(PfRow) /\ Len(pfFills) \in Nat /\ (\A k \in DOMAIN pfFills : pfFills[k] \in PfRow) /\ pfNow \in Nat /\ PfMaxFills \in Nat
    BY PfSums, PfAssumption DEF PfInv, PfTimed, PfTypeOK
  <1>3. row \in PfRow /\ row.at = pfNow
    BY <1>2, PfAssumption DEF PfRow
  <1> HIDE DEF row
  <1>4. /\ pfFills' \in Seq(PfRow) /\ Len(pfFills') = Len(pfFills) + 1 /\ DOMAIN pfFills' = 1..(Len(pfFills) + 1)
        /\ pfFills'[Len(pfFills) + 1] = row /\ \A k \in DOMAIN pfFills : pfFills'[k] = pfFills[k]
    BY <1>1, <1>2, <1>3
  <1>5. PfTimed'
    <2>1. ASSUME NEW j \in DOMAIN pfFills', NEW k \in DOMAIN pfFills', j <= k PROVE pfFills'[j].at <= pfFills'[k].at
      <3>1. CASE k = Len(pfFills) + 1
        <4>1. pfFills'[j] \in PfRow
          BY <1>4
        <4>2. pfFills'[j].at \in 0..pfNow
          BY <4>1 DEF PfRow
        <4>3. pfFills'[k].at = pfNow
          BY <1>3, <1>4, <3>1
        <4> QED BY <1>2, <4>2, <4>3
      <3>2. CASE k # Len(pfFills) + 1
        <4>1. j \in DOMAIN pfFills /\ k \in DOMAIN pfFills
          BY <1>2, <1>4, <2>1, <3>2
        <4> QED BY <1>4, <2>1, <4>1 DEF PfInv, PfTimed
      <3> QED BY <3>1, <3>2
    <2>2. PfRow' = PfRow
      BY <1>1 DEF PfRow
    <2> QED BY <1>4, <2>1, <2>2, Zenon DEF PfTimed
  <1>6. PfTypeOK'
    <2>1. Len(pfFills') <= PfMaxFills
      BY <1>1, <1>2, <1>4
    <2>2. pfRaced' \in BOOLEAN
      BY <1>1, Zenon
    <2> QED BY <1>1, <2>1, <2>2 DEF PfInv, PfTypeOK
  <1>7. PfRead'
    BY <1>1 DEF PfInv, PfRead
  <1> QED BY <1>5, <1>6, <1>7 DEF PfInv

\* Whatever leaves the fills and the run alone.
LEMMA PfOutside ==
    ASSUME PfInv, UNCHANGED <<pfFills, pfAt, pfSeen, pfWin, pfRaced, pfLocal>>, pfNow' \in {pfNow, pfNow + 1}, pfNow' <= PfMaxNow,
           {pfOdd', pfLock', pfDeferred', pfDefer'} \subseteq BOOLEAN, pfLock' => pfLock,
           pfSup' \in {"INACTIVE", "STARTING", "RUNNING", "DEGRADED", "FAILED"}
    PROVE  PfInv'
  <1>1. pfNow \in Nat /\ PfMaxNow \in Nat
    BY PfAssumption DEF PfInv, PfTypeOK
  <1>2. pfNow' \in 0..PfMaxNow
    BY <1>1
  <1>3. PfTypeOK'
    BY <1>2 DEF PfInv, PfTypeOK
  <1>4. PfRead'
    BY PfSamePosition DEF PfInv, PfRead
  <1> QED BY <1>3, <1>4, PfStillTimed DEF PfInv

\* A run that ends keeps nothing of what it read.
LEMMA PfOverStep ==
    ASSUME PfInv, PfOver, UNCHANGED <<pfFills, pfNow, pfOdd>>, {pfLock', pfDeferred'} \subseteq BOOLEAN,
           pfSup' \in {"INACTIVE", "RUNNING", "FAILED"}, pfLocal'.bars \in 0..PfMaxBars, (pfLocal'.bars = 0) = (pfLocal'.qty = 0)
    PROVE  PfInv'
  <1>1. pfAt' = "idle" /\ pfSeen' = PfFlat /\ pfWin' = 1 /\ pfDefer' = FALSE /\ pfRaced' = FALSE
    BY DEF PfOver
  <1>2. 1 \in 1..Len(PfWindows)
    <2>1. Len(PfWindows) \in Nat /\ Len(PfWindows) # 0
      BY PfAssumption
    <2> QED BY <2>1
  <1>3. PfTypeOK'
    BY <1>1, <1>2 DEF PfInv, PfTypeOK
  <1>4. PfRead'
    BY <1>1 DEF PfRead
  <1> QED BY <1>3, <1>4, PfStillTimed DEF PfInv

\* What a step may do with the supervisor, in the words of the two properties.
PfAdoptsNow ==
    pfSup = "STARTING" /\ pfSup' = "RUNNING" /\ ~pfRaced =>
        /\ pfLocal'.qty = PfHeld
        /\ pfAt = "fills" => pfLocal'.bars = PfBars(pfFills[PfOpening].at)
PfStaysOut == pfSup' = "RUNNING" /\ pfSup # "RUNNING" => ~pfLock /\ (pfOdd => pfAt = "fills")

\* The position is the sum of the fills.
LEMMA PfHeldQty == ASSUME PfInv PROVE PfPosition.qty = PfHeld
  BY DEF PfPosition, PfFlat

\* Steps around a reconciliation start nobody.
LEMMA PfAround ==
    ASSUME PfInv, PfWorld \/ (\E defer \in BOOLEAN : PfStart(defer)) \/ PfEscalate \/ PfOperator
    PROVE  PfInv' /\ (pfSup' # "RUNNING" \/ pfSup' = pfSup)
  <1>1. pfNow \in Nat /\ PfMaxNow \in Nat /\ pfNow <= PfMaxNow /\ {pfOdd, pfLock, pfDeferred, pfDefer} \subseteq BOOLEAN
        /\ pfSup \in {"INACTIVE", "STARTING", "RUNNING", "DEGRADED", "FAILED"}
    BY PfAssumption DEF PfInv, PfTypeOK
  <1>2. CASE PfWorld
    <2>1. UNCHANGED <<pfFills, pfAt, pfSeen, pfWin, pfRaced, pfLocal, pfLock, pfDeferred, pfDefer, pfSup>>
      BY <1>2 DEF PfWorld, pfLatches
    <2>2. pfNow' \in {pfNow, pfNow + 1} /\ pfNow' <= PfMaxNow /\ pfOdd' \in BOOLEAN
      <3>1. (pfNow < PfMaxNow /\ pfNow' = pfNow + 1 /\ pfOdd' = pfOdd) \/ (pfOdd' = TRUE /\ pfNow' = pfNow)
        BY <1>2 DEF PfWorld
      <3>2. pfOdd' \in BOOLEAN
        BY <1>1, <3>1, Zenon
      <3>3. pfNow' \in {pfNow, pfNow + 1} /\ pfNow' <= PfMaxNow
        BY <1>1, <3>1
      <3> QED BY <3>2, <3>3
    <2> QED BY <1>1, <2>1, <2>2, PfOutside
  <1>3. CASE \E defer \in BOOLEAN : PfStart(defer)
    <2>1. UNCHANGED <<pfFills, pfNow, pfOdd, pfLocal, pfLock, pfDeferred, pfSeen, pfWin, pfRaced>> /\ pfAt = "idle"
      BY <1>3 DEF PfStart, pfLatches, pfBroker
    <2>2. CASE PfLocked
      <3>1. pfSup' = "FAILED" /\ pfAt' = pfAt /\ pfDefer' = pfDefer
        BY <1>3, <2>2 DEF PfStart
      <3> QED BY <1>1, <2>1, <3>1, PfOutside
    <2>3. CASE ~PfLocked
      <3>1. pfSup' = "STARTING" /\ pfAt' = "positions" /\ pfDefer' \in BOOLEAN /\ ~pfLock
        BY <1>3, <2>3 DEF PfStart, PfLocked
      <3>2. PfTypeOK'
        BY <2>1, <3>1 DEF PfInv, PfTypeOK
      <3>3. PfRead'
        BY <2>1, <3>1 DEF PfRead
      <3>4. PfTimed'
        BY <2>1, PfStillTimed
      <3> QED BY <3>1, <3>2, <3>3, <3>4 DEF PfInv
    <2> QED BY <2>2, <2>3
  <1>4. CASE PfEscalate
    <2>1. UNCHANGED <<pfFills, pfNow, pfOdd, pfLocal, pfLock, pfDeferred, pfDefer, pfAt, pfSeen, pfWin, pfRaced>> /\ pfSup' = "DEGRADED"
      BY <1>4 DEF PfEscalate, pfLatches, pfBroker
    <2> QED BY <1>1, <2>1, PfOutside
  <1>5. CASE PfOperator
    <2>1. UNCHANGED <<pfFills, pfNow, pfLocal, pfDefer, pfAt, pfSeen, pfWin, pfSup, pfRaced>>
      BY <1>5 DEF PfOperator
    <2>2. (pfOdd' = pfOdd \/ pfOdd' = FALSE) /\ (pfLock' = pfLock \/ pfLock' = FALSE) /\ (pfDeferred' = pfDeferred \/ pfDeferred' = FALSE)
      BY <1>5 DEF PfOperator, PfReleaseLock, PfClearDeferred
    <2>3. {pfOdd', pfLock', pfDeferred'} \subseteq BOOLEAN /\ (pfLock' => pfLock)
      <3>1. pfOdd \in BOOLEAN /\ pfLock \in BOOLEAN /\ pfDeferred \in BOOLEAN
        BY <1>1
      <3>2. pfOdd' \in BOOLEAN /\ pfLock' \in BOOLEAN /\ pfDeferred' \in BOOLEAN /\ (pfLock' => pfLock)
        <4>1. pfOdd' \in BOOLEAN
          BY <2>2, <3>1
        <4>2. pfLock' \in BOOLEAN
          BY <2>2, <3>1
        <4>3. pfDeferred' \in BOOLEAN
          BY <2>2, <3>1
        <4>4. CASE pfLock' = pfLock
          BY <4>1, <4>2, <4>3, <4>4, Zenon
        <4>5. CASE pfLock' = FALSE
          BY <4>1, <4>2, <4>3, <4>5, Zenon
        <4> QED BY <2>2, <4>4, <4>5
      <3> QED BY <3>2
    <2> QED BY <1>1, <2>1, <2>3, PfOutside
  <1> QED BY <1>2, <1>3, <1>4, <1>5

LEMMA PfReadStep == ASSUME PfInv, PfPositions PROVE PfInv' /\ pfSup' = pfSup
  <1>1. /\ pfAt = "positions" /\ pfAt' = "orders" /\ pfSeen' = PfPosition /\ pfRaced' = FALSE
        /\ UNCHANGED <<pfFills, pfNow, pfOdd, pfLocal, pfLock, pfDeferred, pfDefer, pfWin, pfSup>>
    BY DEF PfPositions, pfBroker, pfLatches
  <1>2. PfTypeOK'
    BY <1>1 DEF PfInv, PfTypeOK
  <1>3. PfRead'
    BY <1>1, PfSamePosition DEF PfInv, PfRead
  <1> QED BY <1>1, <1>2, <1>3, PfStillTimed DEF PfInv

\* A run that fails latches and starts nothing.
LEMMA PfLatchStep == ASSUME PfInv, PfLatch, UNCHANGED <<pfFills, pfNow, pfOdd, pfLocal>> PROVE PfInv' /\ pfSup' = "FAILED"
  <1>1. PfOver /\ pfSup' = "FAILED"
    BY DEF PfLatch
  <1>2. {pfLock', pfDeferred'} \subseteq BOOLEAN
    BY DEF PfInv, PfTypeOK, PfLatch, PfScheduleDeferred, PfEngageLock
  <1>3. pfLocal'.bars \in 0..PfMaxBars /\ (pfLocal'.bars = 0) = (pfLocal'.qty = 0)
    BY DEF PfInv, PfTypeOK
  <1> QED BY <1>1, <1>2, <1>3, PfOverStep

\* A run that ends well persists the position it read.
LEMMA PfPersistStep ==
    ASSUME PfInv, NEW bars \in 1..PfMaxBars, PfPersist(bars), UNCHANGED <<pfFills, pfNow, pfOdd, pfLock, pfDeferred>>
    PROVE  PfInv' /\ pfLocal'.qty = pfSeen.qty /\ (pfSeen.qty # 0 => pfLocal'.bars = bars)
  <1>1. /\ pfLocal' = [qty |-> pfSeen.qty, price |-> pfSeen.price, bars |-> IF pfSeen.qty = 0 THEN 0 ELSE bars]
        /\ PfOver /\ pfSup' = "RUNNING"
    BY DEF PfPersist
  <1>2. PfMaxBars \in Nat \ {0}
    BY PfAssumption
  <1>3. pfLocal'.qty = pfSeen.qty /\ pfLocal'.bars = IF pfSeen.qty = 0 THEN 0 ELSE bars
    BY <1>1
  <1>4. pfLocal'.bars \in 0..PfMaxBars /\ (pfLocal'.bars = 0) = (pfLocal'.qty = 0)
    BY <1>2, <1>3
  <1>5. {pfLock', pfDeferred'} \subseteq BOOLEAN
    BY DEF PfInv, PfTypeOK
  <1> QED BY <1>1, <1>3, <1>4, <1>5, PfOverStep

LEMMA PfOrdersStep == ASSUME PfInv, PfOrders PROVE PfInv' /\ PfAdoptsNow /\ PfStaysOut
  <1>1. pfAt = "orders" /\ ~pfLock /\ UNCHANGED <<pfFills, pfNow, pfOdd>>
    BY DEF PfOrders, pfBroker, PfInv, PfRead
  <1>2. CASE PfIrrecoverable /\ PfLatch /\ UNCHANGED pfLocal
    BY <1>1, <1>2, PfLatchStep DEF PfAdoptsNow, PfStaysOut
  <1>3. CASE ~PfIrrecoverable /\ PfLacks /\ pfAt' = "fills" /\ UNCHANGED <<pfLocal, pfLatches, pfDefer, pfSeen, pfWin, pfSup, pfRaced>>
    <2>1. /\ pfAt' = "fills" /\ pfSeen.qty # 0
          /\ UNCHANGED <<pfLocal, pfLock, pfDeferred, pfDefer, pfSeen, pfWin, pfSup, pfRaced>>
      BY <1>3 DEF PfLacks, pfLatches
    <2>2. PfTypeOK'
      BY <1>1, <2>1 DEF PfInv, PfTypeOK
    <2>3. PfRead'
      BY <1>1, <2>1, PfSamePosition DEF PfInv, PfRead
    <2>4. PfTimed'
      BY <1>1, PfStillTimed
    <2> QED BY <2>1, <2>2, <2>3, <2>4 DEF PfInv, PfAdoptsNow, PfStaysOut
  <1>4. CASE ~PfIrrecoverable /\ ~PfLacks /\ PfPersist(PfKept) /\ UNCHANGED pfLatches
    <2>1. PfKept \in 1..PfMaxBars
      <3>1. pfLocal.bars \in 0..PfMaxBars /\ PfMaxBars \in Nat \ {0}
        BY PfAssumption DEF PfInv, PfTypeOK
      <3> QED BY <3>1 DEF PfKept
    <2>2. PfInv' /\ pfLocal'.qty = pfSeen.qty
      BY <1>1, <1>4, <2>1, PfPersistStep DEF pfLatches
    <2>3. ~pfRaced => pfSeen.qty = PfHeld
      BY <1>1, PfHeldQty DEF PfInv, PfRead
    <2> QED BY <1>1, <1>4, <2>2, <2>3 DEF PfAdoptsNow, PfStaysOut, PfIrrecoverable
  <1> QED BY <1>2, <1>3, <1>4 DEF PfOrders

LEMMA PfResolveStep == ASSUME PfInv, PfResolve PROVE PfInv' /\ PfAdoptsNow /\ PfStaysOut
  <1> DEFINE k == PfEntry(PfVisible(pfWin), pfSeen.qty)
  <1>1. pfAt = "fills" /\ ~pfLock /\ pfSeen.qty # 0 /\ UNCHANGED <<pfFills, pfNow, pfOdd>> /\ pfWin \in 1..Len(PfWindows)
    BY DEF PfResolve, pfBroker, PfInv, PfRead, PfTypeOK
  <1>2. \/ k # 0 /\ PfPersist(PfBars(pfFills[k].at)) /\ UNCHANGED pfLatches
        \/ /\ k = 0 /\ pfWin < Len(PfWindows) /\ pfWin' = pfWin + 1
           /\ UNCHANGED <<pfAt, pfLocal, pfLatches, pfDefer, pfSeen, pfSup, pfRaced>>
        \/ k = 0 /\ pfWin = Len(PfWindows) /\ PfLatch /\ UNCHANGED pfLocal
    BY DEF PfResolve
  <1>3. k # 0 => k \in DOMAIN pfFills
    BY PfEntrySeen
  <1>4. ASSUME k # 0, PfHeld = pfSeen.qty PROVE k = PfOpening
    BY <1>1, <1>4, PfEntryOpens
  <1> HIDE DEF k
  <1>5. CASE k # 0 /\ PfPersist(PfBars(pfFills[k].at)) /\ UNCHANGED pfLatches
    <2>1. PfBars(pfFills[k].at) \in 1..PfMaxBars
      <3>1. pfFills[k] \in PfRow
        BY <1>3, <1>5, PfSums
      <3>2. pfFills[k].at \in 0..pfNow
        BY <3>1 DEF PfRow
      <3>3. pfNow \in Nat /\ PfMaxBars \in Nat \ {0}
        BY PfAssumption DEF PfInv, PfTypeOK
      <3> QED BY <3>2, <3>3 DEF PfBars
    <2>2. PfInv' /\ pfLocal'.qty = pfSeen.qty /\ pfLocal'.bars = PfBars(pfFills[k].at)
      BY <1>1, <1>5, <2>1, PfPersistStep DEF pfLatches
    <2>3. ~pfRaced => pfSeen.qty = PfHeld
      BY <1>1, PfHeldQty DEF PfInv, PfRead
    <2>4. ~pfRaced => k = PfOpening
      BY <1>4, <1>5, <2>3
    <2> QED BY <1>1, <2>2, <2>3, <2>4 DEF PfAdoptsNow, PfStaysOut
  <1>6. CASE k = 0 /\ pfWin < Len(PfWindows) /\ pfWin' = pfWin + 1 /\ UNCHANGED <<pfAt, pfLocal, pfLatches, pfDefer, pfSeen, pfSup, pfRaced>>
    <2>1. UNCHANGED <<pfAt, pfLocal, pfLock, pfDeferred, pfDefer, pfSeen, pfSup, pfRaced>>
      BY <1>6 DEF pfLatches
    <2>2. pfWin' \in 1..Len(PfWindows)
      <3>1. Len(PfWindows) \in Nat
        BY PfAssumption
      <3> QED BY <1>1, <1>6, <3>1
    <2>3. PfTypeOK'
      BY <1>1, <2>1, <2>2 DEF PfInv, PfTypeOK
    <2>4. PfRead'
      BY <1>1, <2>1, PfSamePosition DEF PfInv, PfRead
    <2>5. PfTimed'
      BY <1>1, PfStillTimed
    <2> QED BY <2>1, <2>3, <2>4, <2>5 DEF PfInv, PfAdoptsNow, PfStaysOut
  <1>7. CASE k = 0 /\ pfWin = Len(PfWindows) /\ PfLatch /\ UNCHANGED pfLocal
    BY <1>1, <1>7, PfLatchStep DEF PfAdoptsNow, PfStaysOut
  <1> QED BY <1>2, <1>5, <1>6, <1>7

LEMMA PfBarStep == ASSUME PfInv, PfBar PROVE PfInv' /\ pfSup' = pfSup
  <1>1. /\ pfNow < PfMaxNow /\ pfNow' = pfNow + 1
        /\ UNCHANGED <<pfFills, pfOdd, pfLock, pfDeferred, pfDefer, pfAt, pfSeen, pfWin, pfSup, pfRaced>>
        /\ pfLocal' = [qty |-> PfPosition.qty, price |-> PfPosition.price,
                       bars |-> IF PfHeld = 0 THEN 0 ELSE IF pfLocal.bars < PfMaxBars THEN pfLocal.bars + 1 ELSE PfMaxBars]
    BY DEF PfBar, pfLatches
  <1>2. pfNow \in Nat /\ PfMaxNow \in Nat /\ PfMaxBars \in Nat \ {0} /\ pfLocal.bars \in 0..PfMaxBars
    BY PfAssumption DEF PfInv, PfTypeOK
  <1>3. /\ pfLocal'.qty = PfHeld
        /\ pfLocal'.bars = IF PfHeld = 0 THEN 0 ELSE IF pfLocal.bars < PfMaxBars THEN pfLocal.bars + 1 ELSE PfMaxBars
    BY <1>1, PfHeldQty
  <1>4. pfLocal'.bars \in 0..PfMaxBars /\ (pfLocal'.bars = 0) = (pfLocal'.qty = 0) /\ pfNow' \in 0..PfMaxNow
    BY <1>1, <1>2, <1>3
  <1>5. PfTypeOK'
    BY <1>1, <1>4 DEF PfInv, PfTypeOK
  <1>6. PfRead'
    BY <1>1, PfSamePosition DEF PfInv, PfRead
  <1> QED BY <1>1, <1>5, <1>6, PfStillTimed DEF PfInv

LEMMA PfStopStep == ASSUME PfInv, PfStop PROVE PfInv' /\ pfSup' = "INACTIVE"
  <1>1. PfOver /\ pfSup' = "INACTIVE" /\ UNCHANGED <<pfFills, pfNow, pfOdd, pfLocal, pfLock, pfDeferred>>
    BY DEF PfStop, pfBroker, pfLatches
  <1>2. {pfLock', pfDeferred'} \subseteq BOOLEAN /\ pfLocal'.bars \in 0..PfMaxBars /\ (pfLocal'.bars = 0) = (pfLocal'.qty = 0)
    BY <1>1 DEF PfInv, PfTypeOK
  <1> QED BY <1>1, <1>2, PfOverStep

LEMMA PfBegins == PfInit => PfInv
  <1> SUFFICES ASSUME PfInit PROVE PfInv
    OBVIOUS
  <1>1. Len(PfWindows) \in Nat /\ Len(PfWindows) # 0
    BY PfAssumption
  <1>2. pfFills = <<>> /\ pfNow = 0 /\ pfLocal.bars = 0 /\ pfLocal.qty = 0 /\ pfAt = "idle"
    BY DEF PfInit
  <1>3. PfTypeOK
    <2>1. Len(pfFills) <= PfMaxFills /\ pfNow \in 0..PfMaxNow /\ pfLocal.bars \in 0..PfMaxBars /\ 1 \in 1..Len(PfWindows)
      BY <1>1, <1>2, PfAssumption
    <2> QED BY <1>2, <2>1 DEF PfInit, PfTypeOK
  <1>4. PfTimed /\ PfRead
    BY <1>2 DEF PfTimed, PfRead
  <1> QED BY <1>3, <1>4 DEF PfInv

LEMMA PfEveryStep == ASSUME PfInv, PfNext PROVE PfInv' /\ PfAdoptsNow /\ PfStaysOut
  <1>1. ASSUME PfInv', pfSup' # "RUNNING" \/ pfSup' = pfSup PROVE PfInv' /\ PfAdoptsNow /\ PfStaysOut
    BY <1>1 DEF PfAdoptsNow, PfStaysOut
  <1>2. CASE \E q \in PfQtys, p \in PfPrices : PfFill(q, p)
    <2>1. PfInv' /\ pfSup' = pfSup
      BY <1>2, PfFillStep DEF PfFill
    <2> QED BY <1>1, <2>1
  <1>3. CASE (\E defer \in BOOLEAN : PfStart(defer)) \/ PfWorld \/ PfEscalate \/ PfOperator
    BY <1>1, <1>3, PfAround
  <1>4. CASE PfPositions
    BY <1>1, <1>4, PfReadStep
  <1>5. CASE PfOrders
    BY <1>5, PfOrdersStep
  <1>6. CASE PfResolve
    BY <1>6, PfResolveStep
  <1>7. CASE PfBar
    BY <1>1, <1>7, PfBarStep
  <1>8. CASE PfStop
    BY <1>1, <1>8, PfStopStep
  <1> QED BY <1>2, <1>3, <1>4, <1>5, <1>6, <1>7, <1>8, Zenon DEF PfNext

\* What a start of the supervisor promises (pre_flight_reconciliation.py:114-243, 396-612, control_plane.py:
\* 133-189): it runs on the broker's position and on the age of the fill that opened it, whatever part of
\* the fills a lookback shows, and never past the reconciliation lock.
THEOREM StartsTrue == PfSpec => PfStartsTrue
  <1>1. PfInv => PfTypeOK
    BY DEF PfInv
  <1>2. PfInv /\ [PfNext]_pfVars => PfInv'
    <2>1. ASSUME PfInv, UNCHANGED pfVars PROVE PfInv'
      <3>1. UNCHANGED <<pfFills, pfNow, pfOdd, pfLocal, pfLock, pfDeferred, pfDefer, pfAt, pfSeen, pfWin, pfSup, pfRaced>>
        BY <2>1 DEF pfVars
      <3>2. pfNow \in Nat /\ pfNow <= PfMaxNow
        BY <2>1, PfAssumption DEF PfInv, PfTypeOK
      <3> QED BY <2>1, <3>1, <3>2, PfOutside DEF PfInv, PfTypeOK
    <2> QED BY <2>1, PfEveryStep
  <1>3. PfInv /\ [PfNext]_pfVars =>
            [pfSup = "STARTING" /\ pfSup' = "RUNNING" /\ ~pfRaced =>
                /\ pfLocal'.qty = PfHeld
                /\ pfAt = "fills" => pfLocal'.bars = PfBars(pfFills[PfOpening].at)]_pfVars
    BY PfEveryStep DEF PfAdoptsNow
  <1>4. PfInv /\ [PfNext]_pfVars => [pfSup' = "RUNNING" /\ pfSup # "RUNNING" => ~pfLock /\ (pfOdd => pfAt = "fills")]_pfVars
    BY PfEveryStep DEF PfStaysOut
  <1> QED BY <1>1, <1>2, <1>3, <1>4, PfBegins, PTL DEF PfSpec, PfStartsTrue, PfAdopts, PfLockedOut
=============================================================================
