-------------------------- MODULE CommandBusProofs --------------------------
(***************************************************************************)
(* Proofs about CommandBus, for any commands, consumers, keys and bounds.  *)
(***************************************************************************)
EXTENDS CommandBus, TLAPS

\* The merged fetch returns pending commands only (fetch_pending_commands).
LEMMA VisiblePending ==
    ASSUME NEW w, NEW S, NEW c \in Visible(w, S)
    PROVE  c \in S \/ c \in PendingIn(local)
  BY DEF Visible, Oldest

\* What a local row can become at boot (reclaim_orphaned_processing_commands).
LEMMA ReclaimedStatus ==
    ASSUME NEW row \in Status, NEW tried \in Nat
    PROVE  /\ Reclaimed(row, tried) \in Status
           /\ AttemptsAfter(row, tried) \in Nat
  BY BusAssumption DEF Reclaimed, AttemptsAfter, Status, Terminal

\* A mark leaves a status.
LEMMA MarkedStatus ==
    ASSUME NEW row \in Status, NEW verdict \in Terminal
    PROVE  MarkedLocal(row, verdict) \in Status
  BY DEF MarkedLocal, Status, Terminal

LEMMA TypeStep == TypeOK /\ [Next]_vars => TypeOK'
  <1> SUFFICES ASSUME TypeOK, [Next]_vars PROVE TypeOK'
    OBVIOUS
  <1> USE BusAssumption DEF TypeOK
  <1>1. ASSUME NEW c \in Commands, EnqueueRemote(c) PROVE TypeOK'
    BY <1>1 DEF EnqueueRemote, work, time, Status, Terminal
  <1>2. ASSUME NEW c \in Commands, EnqueueLocal(c) PROVE TypeOK'
    BY <1>2 DEF EnqueueLocal, work, time, Status, Terminal
  <1>3. ASSUME NEW w \in Consumers, Fetch(w) PROVE TypeOK'
    <2>1. batch' \in [Consumers -> SUBSET Commands]
      <3>1. ASSUME NEW S \in SUBSET Commands PROVE Visible(w, S) \subseteq Commands
        BY <3>1, VisiblePending DEF PendingIn
      <3>2. PICK S \in SUBSET Commands : batch' = [batch EXCEPT ![w] = Visible(w, S)]
        <4>1. PendingIn(remote) \in SUBSET Commands
          BY DEF PendingIn
        <4> QED BY <1>3, <4>1 DEF Fetch
      <3> QED BY <3>1, <3>2
    <2>2. pc' \in [Consumers -> ClaimPc]
      BY <1>3 DEF Fetch, ClaimPc
    <2>3. \A v \in Consumers : pc'[v] \notin {"idle", "next"} => cmd'[v] \in Commands
      BY <1>3 DEF Fetch
    <2> QED BY <1>3, <2>1, <2>2, <2>3 DEF Fetch, rows, time
  <1>4. ASSUME NEW w \in Consumers, NextCommand(w) PROVE TypeOK'
    <2>1. CASE batch[w] = {}
      BY <1>4, <2>1 DEF NextCommand, rows, time, ClaimPc
    <2>2. CASE batch[w] # {}
      <3>1. PICK c \in batch[w] :
               /\ batch' = [batch EXCEPT ![w] = @ \ {c}]
               /\ cmd' = [cmd EXCEPT ![w] = c]
               /\ pc' = [pc EXCEPT ![w] = IF Configured THEN "cas" ELSE "localcas"]
        BY <1>4, <2>2 DEF NextCommand
      <3>2. c \in Commands
        BY <3>1
      <3> QED BY <1>4, <3>1, <3>2 DEF NextCommand, rows, time, ClaimPc
    <2> QED BY <2>1, <2>2
  <1>5. ASSUME NEW w \in Consumers, ClaimRemote(w) PROVE TypeOK'
    <2>1. /\ pc' \in [Consumers -> ClaimPc]
          /\ remote' \in [Commands -> Status]
      <3>1. "processing" \in Status /\ {"drive", "select"} \subseteq ClaimPc
        BY DEF Status, ClaimPc
      <3>2. pc' = [pc EXCEPT ![w] = "drive"] \/ pc' = [pc EXCEPT ![w] = "select"]
        BY <1>5 DEF ClaimRemote
      <3>3. remote' = remote \/ remote' = [remote EXCEPT ![cmd[w]] = "processing"]
        BY <1>5 DEF ClaimRemote
      <3>4. pc' \in [Consumers -> ClaimPc]
        BY <3>1, <3>2
      <3>5. remote' \in [Commands -> Status]
        BY <3>1, <3>3
      <3> QED BY <3>4, <3>5
    <2>2. \A v \in Consumers : pc'[v] \notin {"idle", "next"} => cmd'[v] \in Commands
      BY <1>5 DEF ClaimRemote
    <2> QED BY <1>5, <2>1, <2>2 DEF ClaimRemote, time
  <1>6. ASSUME NEW w \in Consumers, DriveLocal(w) PROVE TypeOK'
    BY <1>6 DEF DriveLocal, Return, time, ClaimPc, Status, JobState
  <1>7. ASSUME NEW w \in Consumers, SelectRemote(w) PROVE TypeOK'
    BY <1>7 DEF SelectRemote, Return, rows, time, ClaimPc
  <1>8. ASSUME NEW w \in Consumers, ClaimLocal(w) PROVE TypeOK'
    <2>1. cmd[w] \in Commands
      BY <1>8 DEF ClaimLocal
    <2>2. /\ local' \in [Commands -> Status]
          /\ job' \in [Consumers -> [Commands -> JobState]]
      <3>1. "processing" \in Status /\ "claimed" \in JobState
        BY DEF Status, JobState
      <3>2. CASE local[cmd[w]] = "pending"
        <4>1. /\ local' = [local EXCEPT ![cmd[w]] = "processing"]
              /\ job' = [job EXCEPT ![w][cmd[w]] = "claimed"]
          BY <1>8, <3>2 DEF ClaimLocal
        <4> QED BY <2>1, <3>1, <4>1
      <3>3. CASE local[cmd[w]] # "pending"
        BY <1>8, <3>3 DEF ClaimLocal
      <3> QED BY <3>2, <3>3
    <2>3. /\ pc' \in [Consumers -> ClaimPc]
          /\ cmd' \in [Consumers -> Commands \cup {NoCommand}]
          /\ \A v \in Consumers : pc'[v] \notin {"idle", "next"} => cmd'[v] \in Commands
      BY <1>8 DEF ClaimLocal, Return, ClaimPc
    <2> QED BY <1>8, <2>2, <2>3 DEF ClaimLocal, time
  <1>9. ASSUME NEW w \in Consumers, PollAborts(w) PROVE TypeOK'
    BY <1>9 DEF PollAborts, rows, time, ClaimPc, JobState
  <1>10. ASSUME NEW w \in Consumers, NEW c \in Commands, Dispatch(w, c) PROVE TypeOK'
    BY <1>10 DEF Dispatch, rows, time, JobState
  <1>11. ASSUME NEW w \in Consumers, NEW c \in Commands, Run(w, c) PROVE TypeOK'
    BY <1>11 DEF Run, rows, time, JobState, Terminal
  <1>12. ASSUME NEW w \in Consumers, NEW c \in Commands, MarkRemote(w, c) PROVE TypeOK'
    BY <1>12 DEF MarkRemote, time, JobState, Terminal, Status
  <1>13. ASSUME NEW w \in Consumers, NEW c \in Commands, MarkLocal(w, c) PROVE TypeOK'
    BY <1>13, MarkedStatus DEF MarkLocal, time, JobState, Terminal
  <1>14. CASE Crash
    BY <1>14 DEF Crash, rows, time, NoJobs, ClaimPc, JobState, Status
  <1>15. CASE RetireExpired
    BY <1>15 DEF RetireExpired, ExpiredStatus, work, time, Status, Terminal
  <1>16. CASE Reclaim
    BY <1>16, ReclaimedStatus DEF Reclaim, work, time
  <1>17. CASE RetireStale
    BY <1>17 DEF RetireStale, work, time, Status, Terminal
  <1>18. CASE MirrorRead
    BY <1>18 DEF MirrorRead, rows, work, time
  <1>19. ASSUME NEW c \in Commands, MirrorUpsert(c) PROVE TypeOK'
    BY <1>19 DEF MirrorUpsert, work, time, Status
  <1>20. CASE TimePasses
    BY <1>20 DEF TimePasses, rows, work
  <1>21. ASSUME NEW c \in Commands, Expire(c) PROVE TypeOK'
    BY <1>21 DEF Expire, rows, work
  <1>22. CASE UNCHANGED vars
    BY <1>22 DEF vars
  <1> QED
    BY <1>1, <1>2, <1>3, <1>4, <1>5, <1>6, <1>7, <1>8, <1>9, <1>10, <1>11,
       <1>12, <1>13, <1>14, <1>15, <1>16, <1>17, <1>18, <1>19, <1>20, <1>21, <1>22
    DEF Next, Enqueue, Poll, Work, Boot

\* Every status, poll phase and job phase stays in its range, whatever faults,
\* crashes and mirror passes interleave.
THEOREM TypeCorrect == Spec => []TypeOK
  <1>1. Init => TypeOK
    BY BusAssumption DEF Init, TypeOK, Status, ClaimPc, JobState, NoJobs
  <1> QED BY <1>1, TypeStep, PTL DEF Spec

-----------------------------------------------------------------------------
(* Single ownership.  It holds when the existence read of try_claim_command *)
(* does not fault and no mirror pass runs.  Neither condition can be        *)
(* dropped: a faulting read falls through to the local claim of a command   *)
(* that Supabase gave to another thread, and a mirror pass may upsert a     *)
(* stale "pending" over a claimed row.                                      *)

Sheltered == "select" \notin FaultPoints /\ ~Mirroring

Driving(w, c) == pc[w] = "drive" /\ cmd[w] = c
InHand(w, c) == job[w][c] # "none" \/ Driving(w, c)
Unmarked(w, c) ==
    job[w][c] \in {"claimed", "dispatched", "completed", "failed"} \/ Driving(w, c)
Unrun(w, c) == job[w][c] \in {"claimed", "dispatched"} \/ Driving(w, c)

\* Some claim of c could still win.
Claimable(c) ==
    remote[c] = "pending" \/ (remote[c] = "absent" /\ local[c] \in {"absent", "pending"})

RowsRequested ==
    \A c \in Commands :
        /\ remote[c] # "absent" => Configured /\ request[c] # "new"
        /\ local[c] # "absent" => request[c] # "new"
BatchRequested ==
    \A w \in Consumers : \A c \in Commands :
        c \in batch[w] \/ cmd[w] = c => request[c] # "new"
LocalClaimIsLocalOnly ==
    \A w \in Consumers : pc[w] = "localcas" => remote[cmd[w]] = "absent"
DeadHoldNothing ==
    bot # "up" => \A w \in Consumers :
        pc[w] = "idle" /\ \A c \in Commands : job[w][c] = "none"
OneHolder ==
    \A c \in Commands : \A v, w \in Consumers :
        InHand(v, c) /\ InHand(w, c) => v = w
HeldIsClaimed ==
    \A w \in Consumers : \A c \in Commands : InHand(w, c) => ~Claimable(c)
UnmarkedIsOpen ==
    \A w \in Consumers : \A c \in Commands :
        Unmarked(w, c) => remote[c] \in {"absent", "processing"}
RunBudget ==
    \A c \in Commands :
        /\ runs[c] <= attempts[c] + 1
        /\ attempts[c] <= MaxAttempts
        /\ Claimable(c) => runs[c] <= attempts[c]
        /\ \A w \in Consumers : Unrun(w, c) => runs[c] <= attempts[c]
NoMirrorPass == \A c \in Commands : mirror[c] = "absent"
DriveIsFresh ==
    \A w \in Consumers : \A c \in Commands : Driving(w, c) => job[w][c] = "none"

Ownership ==
    /\ RowsRequested /\ BatchRequested /\ LocalClaimIsLocalOnly
    /\ DeadHoldNothing /\ OneHolder /\ HeldIsClaimed /\ UnmarkedIsOpen
    /\ RunBudget /\ NoMirrorPass /\ DriveIsFresh

\* Every step of the bus keeps the ownership invariant, one case per action.
LEMMA OwnershipStep ==
    ASSUME Sheltered, TypeOK, Ownership, [Next]_vars
    PROVE  Ownership'
  <1> USE DEF Ownership
  <1>1. ASSUME NEW c \in Commands, EnqueueRemote(c) PROVE Ownership'
    <2>1. RowsRequested'
      BY <1>1, BusAssumption DEF TypeOK, EnqueueRemote, time, work,
         Faults, LosesAnswer, KeyTaken, RowsRequested, BatchRequested,
         NoCommand
    <2>2. BatchRequested'
      BY <1>1, BusAssumption DEF TypeOK, EnqueueRemote, time, work,
         Faults, LosesAnswer, KeyTaken, BatchRequested, RowsRequested,
         NoCommand
    <2>3. LocalClaimIsLocalOnly'
      <3>1. \A v \in Consumers : pc[v] = "localcas" => cmd[v] # c /\ cmd[v] \in Commands
        BY <1>1 DEF TypeOK, EnqueueRemote, BatchRequested
      <3>2. \A d \in Commands : d # c => remote'[d] = remote[d]
        BY <1>1 DEF TypeOK, EnqueueRemote
      <3> QED BY <1>1, <3>1, <3>2 DEF EnqueueRemote, work, LocalClaimIsLocalOnly
    <2>4. HeldIsClaimed'
      BY <1>1, BusAssumption DEF TypeOK, EnqueueRemote, time, work,
         Faults, LosesAnswer, KeyTaken, HeldIsClaimed, InHand, Driving,
         Claimable, RowsRequested, BatchRequested, NoCommand
    <2>5. UnmarkedIsOpen'
      BY <1>1, BusAssumption DEF TypeOK, EnqueueRemote, time, work,
         Faults, LosesAnswer, KeyTaken, UnmarkedIsOpen, Unmarked,
         Driving, RowsRequested, HeldIsClaimed, InHand, Claimable
    <2>6. RunBudget'
      BY <1>1, BusAssumption DEF TypeOK, EnqueueRemote, time, work,
         Faults, LosesAnswer, KeyTaken, RunBudget, Claimable, Unrun,
         Driving, RowsRequested, BatchRequested, NoCommand
    <2>7. DeadHoldNothing' /\ OneHolder' /\ NoMirrorPass' /\ DriveIsFresh'
      BY <1>1 DEF EnqueueRemote, time, work, DeadHoldNothing, OneHolder,
         InHand, Driving, NoMirrorPass, DriveIsFresh
    <2> QED BY <2>1, <2>2, <2>3, <2>4, <2>5, <2>6, <2>7
  <1>2. ASSUME NEW c \in Commands, EnqueueLocal(c) PROVE Ownership'
    <2>1. RowsRequested'
      BY <1>2, BusAssumption DEF TypeOK, EnqueueLocal, time, work,
         KeyTaken, RowsRequested
    <2>2. BatchRequested'
      BY <1>2, BusAssumption DEF TypeOK, EnqueueLocal, time, work,
         KeyTaken, BatchRequested, NoCommand
    <2>3. HeldIsClaimed'
      BY <1>2, BusAssumption DEF TypeOK, EnqueueLocal, time, work,
         KeyTaken, HeldIsClaimed, InHand, Driving, Claimable
    <2>4. RunBudget'
      BY <1>2, BusAssumption DEF TypeOK, EnqueueLocal, time, work,
         KeyTaken, RunBudget, Claimable, Unrun, Driving
    <2>5. /\ LocalClaimIsLocalOnly' /\ DeadHoldNothing' /\ OneHolder'
          /\ UnmarkedIsOpen' /\ NoMirrorPass' /\ DriveIsFresh'
      BY <1>2 DEF EnqueueLocal, time, work, LocalClaimIsLocalOnly,
         DeadHoldNothing, OneHolder, InHand, Driving, UnmarkedIsOpen,
         Unmarked, NoMirrorPass, DriveIsFresh
    <2> QED BY <2>1, <2>2, <2>3, <2>4, <2>5
  <1>3. ASSUME NEW w \in Consumers, Fetch(w) PROVE Ownership'
    <2>1. BatchRequested'
      <3>1. \A d \in Commands : d \in PendingIn(remote) \cup PendingIn(local) => request[d] # "new"
        BY DEF PendingIn, RowsRequested
      <3>2. batch'[w] \subseteq PendingIn(remote) \cup PendingIn(local)
        <4>1. PICK S \in {PendingIn(remote), {}} : batch' = [batch EXCEPT ![w] = Visible(w, S)]
          BY <1>3 DEF Fetch
        <4> QED BY <4>1, VisiblePending DEF TypeOK
      <3>3. \A v \in Consumers : v # w => batch'[v] = batch[v]
        BY <1>3 DEF Fetch, TypeOK
      <3> QED BY <1>3, <3>1, <3>2, <3>3 DEF Fetch, BatchRequested, TypeOK
    <2>2. LocalClaimIsLocalOnly'
      BY <1>3, BusAssumption DEF TypeOK, Fetch, rows, time,
         LocalClaimIsLocalOnly
    <2>3. DeadHoldNothing'
      BY <1>3, BusAssumption DEF TypeOK, Fetch, rows, time, DeadHoldNothing
    <2>4. OneHolder'
      BY <1>3, BusAssumption DEF TypeOK, Fetch, rows, time, OneHolder,
         InHand, Driving
    <2>5. HeldIsClaimed'
      BY <1>3, BusAssumption DEF TypeOK, Fetch, rows, time,
         HeldIsClaimed, InHand, Driving, Claimable
    <2>6. UnmarkedIsOpen'
      BY <1>3, BusAssumption DEF TypeOK, Fetch, rows, time,
         UnmarkedIsOpen, Unmarked, Driving
    <2>7. RunBudget'
      BY <1>3, BusAssumption DEF TypeOK, Fetch, rows, time, RunBudget,
         Claimable, Unrun, Driving
    <2>8. DriveIsFresh'
      BY <1>3, BusAssumption DEF TypeOK, Fetch, rows, time,
         DriveIsFresh, Driving
    <2>9. RowsRequested' /\ NoMirrorPass'
      BY <1>3 DEF Fetch, rows, time, RowsRequested, NoMirrorPass
    <2> QED BY <2>1, <2>2, <2>3, <2>4, <2>5, <2>6, <2>7, <2>8, <2>9
  <1>4. ASSUME NEW w \in Consumers, NextCommand(w) PROVE Ownership'
    <2>1. BatchRequested'
      <3>1. request' = request
        BY <1>4 DEF NextCommand
      <3>2. CASE batch[w] = {}
        <4>1. batch' = batch /\ cmd' = cmd
          BY <1>4, <3>2 DEF NextCommand
        <4> QED BY <3>1, <4>1 DEF BatchRequested
      <3>3. CASE batch[w] # {}
        <4>1. PICK c \in batch[w] :
                /\ batch' = [batch EXCEPT ![w] = @ \ {c}]
                /\ cmd' = [cmd EXCEPT ![w] = c]
          BY <1>4, <3>3 DEF NextCommand
        <4>2. \A v \in Consumers : batch'[v] \subseteq batch[v]
          BY <4>1 DEF TypeOK
        <4>3. \A v \in Consumers : cmd'[v] = cmd[v] \/ cmd'[v] \in batch[v]
          BY <4>1 DEF TypeOK
        <4> QED BY <3>1, <4>2, <4>3 DEF BatchRequested
      <3> QED BY <3>2, <3>3
    <2>2. LocalClaimIsLocalOnly'
      BY <1>4, BusAssumption DEF TypeOK, NextCommand, rows, time,
         LocalClaimIsLocalOnly, RowsRequested
    <2>3. DeadHoldNothing'
      BY <1>4, BusAssumption DEF TypeOK, NextCommand, rows, time,
         DeadHoldNothing
    <2>4. OneHolder'
      BY <1>4, BusAssumption DEF TypeOK, NextCommand, rows, time,
         OneHolder, InHand, Driving
    <2>5. HeldIsClaimed'
      BY <1>4, BusAssumption DEF TypeOK, NextCommand, rows, time,
         HeldIsClaimed, InHand, Driving, Claimable
    <2>6. UnmarkedIsOpen'
      BY <1>4, BusAssumption DEF TypeOK, NextCommand, rows, time,
         UnmarkedIsOpen, Unmarked, Driving
    <2>7. RunBudget'
      BY <1>4, BusAssumption DEF TypeOK, NextCommand, rows, time,
         RunBudget, Claimable, Unrun, Driving
    <2>8. DriveIsFresh'
      BY <1>4, BusAssumption DEF TypeOK, NextCommand, rows, time,
         DriveIsFresh, Driving
    <2>9. RowsRequested' /\ NoMirrorPass'
      BY <1>4 DEF NextCommand, rows, time, RowsRequested, NoMirrorPass
    <2> QED BY <2>1, <2>2, <2>3, <2>4, <2>5, <2>6, <2>7, <2>8, <2>9
  <1>5. ASSUME NEW w \in Consumers, ClaimRemote(w) PROVE Ownership'
    <2>1. RowsRequested'
      BY <1>5, BusAssumption DEF TypeOK, ClaimRemote, time, LosesAnswer,
         RowsRequested
    <2>2. LocalClaimIsLocalOnly'
      BY <1>5, BusAssumption DEF TypeOK, ClaimRemote, time, LosesAnswer,
         LocalClaimIsLocalOnly
    <2>3. DeadHoldNothing'
      BY <1>5, BusAssumption DEF TypeOK, ClaimRemote, time, LosesAnswer,
         DeadHoldNothing
    <2>4. OneHolder'
      BY <1>5, BusAssumption DEF TypeOK, ClaimRemote, time, LosesAnswer,
         OneHolder, InHand, Driving, HeldIsClaimed, Claimable
    <2>5. HeldIsClaimed'
      BY <1>5, BusAssumption DEF TypeOK, ClaimRemote, time, LosesAnswer,
         HeldIsClaimed, InHand, Driving, Claimable
    <2>6. UnmarkedIsOpen'
      BY <1>5, BusAssumption DEF TypeOK, ClaimRemote, time, LosesAnswer,
         UnmarkedIsOpen, Unmarked, Driving
    <2>7. RunBudget'
      BY <1>5, BusAssumption DEF TypeOK, ClaimRemote, time, LosesAnswer,
         RunBudget, Claimable, Unrun, Driving
    <2>8. DriveIsFresh'
      BY <1>5, BusAssumption DEF TypeOK, ClaimRemote, time, LosesAnswer,
         DriveIsFresh, Driving, HeldIsClaimed, InHand, Claimable
    <2>9. BatchRequested' /\ NoMirrorPass'
      BY <1>5 DEF ClaimRemote, time, BatchRequested, NoMirrorPass
    <2> QED BY <2>1, <2>2, <2>3, <2>4, <2>5, <2>6, <2>7, <2>8, <2>9
  <1>6. ASSUME NEW w \in Consumers, DriveLocal(w) PROVE Ownership'
    <2>1. RowsRequested'
      BY <1>6, BusAssumption DEF TypeOK, DriveLocal, Return, RowsRequested
    <2>2. BatchRequested'
      BY <1>6, BusAssumption DEF TypeOK, DriveLocal, Return,
         BatchRequested, NoCommand
    <2>3. LocalClaimIsLocalOnly'
      BY <1>6, BusAssumption DEF TypeOK, DriveLocal, Return,
         LocalClaimIsLocalOnly
    <2>4. DeadHoldNothing'
      BY <1>6, BusAssumption DEF TypeOK, DriveLocal, Return, DeadHoldNothing
    <2>5. OneHolder'
      BY <1>6, BusAssumption DEF TypeOK, DriveLocal, Return, OneHolder,
         InHand, Driving
    <2>6. HeldIsClaimed'
      BY <1>6, BusAssumption DEF TypeOK, DriveLocal, Return,
         HeldIsClaimed, InHand, Driving, Claimable
    <2>7. UnmarkedIsOpen'
      BY <1>6, BusAssumption DEF TypeOK, DriveLocal, Return,
         UnmarkedIsOpen, Unmarked, Driving
    <2>8. RunBudget'
      BY <1>6, BusAssumption DEF TypeOK, DriveLocal, Return, RunBudget,
         Claimable, Unrun, Driving
    <2>9. DriveIsFresh'
      BY <1>6, BusAssumption DEF TypeOK, DriveLocal, Return,
         DriveIsFresh, Driving
    <2>10. NoMirrorPass'
      BY <1>6 DEF DriveLocal, NoMirrorPass
    <2> QED BY <2>1, <2>2, <2>3, <2>4, <2>5, <2>6, <2>7, <2>8, <2>9, <2>10
  <1>7. ASSUME NEW w \in Consumers, SelectRemote(w) PROVE Ownership'
    <2>1. BatchRequested'
      BY <1>7, BusAssumption DEF TypeOK, SelectRemote, rows, time,
         Return, Faults, SupabaseOwned, Sheltered, BatchRequested,
         NoCommand
    <2>2. LocalClaimIsLocalOnly'
      BY <1>7, BusAssumption DEF TypeOK, SelectRemote, rows, time,
         Return, Faults, SupabaseOwned, Sheltered, LocalClaimIsLocalOnly
    <2>3. DeadHoldNothing'
      BY <1>7, BusAssumption DEF TypeOK, SelectRemote, rows, time,
         Return, Faults, SupabaseOwned, Sheltered, DeadHoldNothing
    <2>4. OneHolder'
      BY <1>7, BusAssumption DEF TypeOK, SelectRemote, rows, time,
         Return, Faults, SupabaseOwned, Sheltered, OneHolder, InHand,
         Driving
    <2>5. HeldIsClaimed'
      BY <1>7, BusAssumption DEF TypeOK, SelectRemote, rows, time,
         Return, Faults, SupabaseOwned, Sheltered, HeldIsClaimed,
         InHand, Driving, Claimable
    <2>6. UnmarkedIsOpen'
      BY <1>7, BusAssumption DEF TypeOK, SelectRemote, rows, time,
         Return, Faults, SupabaseOwned, Sheltered, UnmarkedIsOpen,
         Unmarked, Driving
    <2>7. RunBudget'
      BY <1>7, BusAssumption DEF TypeOK, SelectRemote, rows, time,
         Return, Faults, SupabaseOwned, Sheltered, RunBudget, Claimable,
         Unrun, Driving
    <2>8. DriveIsFresh'
      BY <1>7, BusAssumption DEF TypeOK, SelectRemote, rows, time,
         Return, Faults, SupabaseOwned, Sheltered, DriveIsFresh, Driving
    <2>9. RowsRequested' /\ NoMirrorPass'
      BY <1>7 DEF SelectRemote, rows, time, RowsRequested, NoMirrorPass
    <2> QED BY <2>1, <2>2, <2>3, <2>4, <2>5, <2>6, <2>7, <2>8, <2>9
  <1>8. ASSUME NEW w \in Consumers, ClaimLocal(w) PROVE Ownership'
    <2>1. RowsRequested'
      BY <1>8, BusAssumption DEF TypeOK, ClaimLocal, Return,
         RowsRequested, HeldIsClaimed, LocalClaimIsLocalOnly, Claimable,
         InHand, Driving
    <2>2. BatchRequested'
      BY <1>8, BusAssumption DEF TypeOK, ClaimLocal, Return,
         BatchRequested, NoCommand
    <2>3. LocalClaimIsLocalOnly'
      BY <1>8, BusAssumption DEF TypeOK, ClaimLocal, Return,
         LocalClaimIsLocalOnly, HeldIsClaimed, Claimable, InHand,
         Driving
    <2>4. DeadHoldNothing'
      BY <1>8, BusAssumption DEF TypeOK, ClaimLocal, Return,
         DeadHoldNothing, HeldIsClaimed, LocalClaimIsLocalOnly,
         Claimable, InHand, Driving
    <2>5. OneHolder'
      BY <1>8, BusAssumption DEF TypeOK, ClaimLocal, Return, OneHolder,
         InHand, Driving, HeldIsClaimed, LocalClaimIsLocalOnly,
         Claimable
    <2>6. HeldIsClaimed'
      BY <1>8, BusAssumption DEF TypeOK, ClaimLocal, Return,
         HeldIsClaimed, InHand, Driving, Claimable,
         LocalClaimIsLocalOnly
    <2>7. UnmarkedIsOpen'
      BY <1>8, BusAssumption DEF TypeOK, ClaimLocal, Return,
         UnmarkedIsOpen, Unmarked, Driving, HeldIsClaimed,
         LocalClaimIsLocalOnly, Claimable, InHand
    <2>8. RunBudget'
      BY <1>8, BusAssumption DEF TypeOK, ClaimLocal, Return, RunBudget,
         Claimable, Unrun, Driving, HeldIsClaimed,
         LocalClaimIsLocalOnly, InHand
    <2>9. DriveIsFresh'
      BY <1>8, BusAssumption DEF TypeOK, ClaimLocal, Return,
         DriveIsFresh, Driving, HeldIsClaimed, LocalClaimIsLocalOnly,
         Claimable, InHand
    <2>10. NoMirrorPass'
      BY <1>8 DEF ClaimLocal, NoMirrorPass
    <2> QED BY <2>1, <2>2, <2>3, <2>4, <2>5, <2>6, <2>7, <2>8, <2>9, <2>10
  <1>9. ASSUME NEW w \in Consumers, PollAborts(w) PROVE Ownership'
    <2>1. BatchRequested'
      BY <1>9, BusAssumption DEF TypeOK, PollAborts, rows, time,
         BatchRequested, NoCommand
    <2>2. LocalClaimIsLocalOnly'
      BY <1>9, BusAssumption DEF TypeOK, PollAborts, rows, time,
         LocalClaimIsLocalOnly
    <2>3. DeadHoldNothing'
      BY <1>9, BusAssumption DEF TypeOK, PollAborts, rows, time, DeadHoldNothing
    <2>4. OneHolder'
      BY <1>9, BusAssumption DEF TypeOK, PollAborts, rows, time,
         OneHolder, InHand, Driving
    <2>5. HeldIsClaimed'
      BY <1>9, BusAssumption DEF TypeOK, PollAborts, rows, time,
         HeldIsClaimed, InHand, Driving, Claimable
    <2>6. UnmarkedIsOpen'
      BY <1>9, BusAssumption DEF TypeOK, PollAborts, rows, time,
         UnmarkedIsOpen, Unmarked, Driving
    <2>7. RunBudget'
      BY <1>9, BusAssumption DEF TypeOK, PollAborts, rows, time,
         RunBudget, Claimable, Unrun, Driving
    <2>8. DriveIsFresh'
      BY <1>9, BusAssumption DEF TypeOK, PollAborts, rows, time,
         DriveIsFresh, Driving
    <2>9. RowsRequested' /\ NoMirrorPass'
      BY <1>9 DEF PollAborts, rows, time, RowsRequested, NoMirrorPass
    <2> QED BY <2>1, <2>2, <2>3, <2>4, <2>5, <2>6, <2>7, <2>8, <2>9
  <1>10. ASSUME NEW w \in Consumers, NEW c \in Commands, Dispatch(w, c) PROVE Ownership'
    <2>1. DeadHoldNothing'
      BY <1>10, BusAssumption DEF TypeOK, Dispatch, rows, time, DeadHoldNothing
    <2>2. OneHolder'
      BY <1>10, BusAssumption DEF TypeOK, Dispatch, rows, time,
         OneHolder, InHand, Driving
    <2>3. HeldIsClaimed'
      BY <1>10, BusAssumption DEF TypeOK, Dispatch, rows, time,
         HeldIsClaimed, InHand, Driving, Claimable
    <2>4. UnmarkedIsOpen'
      BY <1>10, BusAssumption DEF TypeOK, Dispatch, rows, time,
         UnmarkedIsOpen, Unmarked, Driving
    <2>5. RunBudget'
      BY <1>10, BusAssumption DEF TypeOK, Dispatch, rows, time,
         RunBudget, Claimable, Unrun, Driving
    <2>6. DriveIsFresh'
      BY <1>10, BusAssumption DEF TypeOK, Dispatch, rows, time,
         DriveIsFresh, Driving
    <2>7. /\ RowsRequested' /\ BatchRequested' /\ LocalClaimIsLocalOnly'
          /\ NoMirrorPass'
      BY <1>10 DEF Dispatch, rows, time, RowsRequested, BatchRequested,
         LocalClaimIsLocalOnly, NoMirrorPass
    <2> QED BY <2>1, <2>2, <2>3, <2>4, <2>5, <2>6, <2>7
  <1>11. ASSUME NEW w \in Consumers, NEW c \in Commands, Run(w, c) PROVE Ownership'
    <2>1. DeadHoldNothing'
      BY <1>11, BusAssumption DEF TypeOK, Run, rows, time, Terminal,
         DeadHoldNothing
    <2>2. OneHolder'
      BY <1>11, BusAssumption DEF TypeOK, Run, rows, time, Terminal,
         OneHolder, InHand, Driving
    <2>3. HeldIsClaimed'
      BY <1>11, BusAssumption DEF TypeOK, Run, rows, time, Terminal,
         HeldIsClaimed, InHand, Driving, Claimable
    <2>4. UnmarkedIsOpen'
      BY <1>11, BusAssumption DEF TypeOK, Run, rows, time, Terminal,
         UnmarkedIsOpen, Unmarked, Driving
    <2>5. RunBudget'
      BY <1>11, BusAssumption DEF TypeOK, Run, rows, time, Terminal,
         RunBudget, Claimable, Unrun, Driving, OneHolder, HeldIsClaimed,
         InHand, DriveIsFresh
    <2>6. DriveIsFresh'
      BY <1>11, BusAssumption DEF TypeOK, Run, rows, time, Terminal,
         DriveIsFresh, Driving
    <2>7. /\ RowsRequested' /\ BatchRequested' /\ LocalClaimIsLocalOnly'
          /\ NoMirrorPass'
      BY <1>11 DEF Run, rows, time, RowsRequested, BatchRequested,
         LocalClaimIsLocalOnly, NoMirrorPass
    <2> QED BY <2>1, <2>2, <2>3, <2>4, <2>5, <2>6, <2>7
  <1>12. ASSUME NEW w \in Consumers, NEW c \in Commands, MarkRemote(w, c) PROVE Ownership'
    <2>1. RowsRequested'
      BY <1>12, BusAssumption DEF TypeOK, MarkRemote, time, Terminal,
         RowsRequested
    <2>2. LocalClaimIsLocalOnly'
      BY <1>12, BusAssumption DEF TypeOK, MarkRemote, time, Terminal,
         LocalClaimIsLocalOnly
    <2>3. DeadHoldNothing'
      BY <1>12, BusAssumption DEF TypeOK, MarkRemote, time, Terminal,
         DeadHoldNothing
    <2>4. OneHolder'
      BY <1>12, BusAssumption DEF TypeOK, MarkRemote, time, Terminal,
         OneHolder, InHand, Driving
    <2>5. HeldIsClaimed'
      BY <1>12, BusAssumption DEF TypeOK, MarkRemote, time, Terminal,
         HeldIsClaimed, InHand, Driving, Claimable
    <2>6. UnmarkedIsOpen'
      BY <1>12, BusAssumption DEF TypeOK, MarkRemote, time, Terminal,
         UnmarkedIsOpen, Unmarked, Driving, OneHolder, InHand,
         DriveIsFresh
    <2>7. RunBudget'
      BY <1>12, BusAssumption DEF TypeOK, MarkRemote, time, Terminal,
         RunBudget, Claimable, Unrun, Driving
    <2>8. DriveIsFresh'
      BY <1>12, BusAssumption DEF TypeOK, MarkRemote, time, Terminal,
         DriveIsFresh, Driving
    <2>9. BatchRequested' /\ NoMirrorPass'
      BY <1>12 DEF MarkRemote, time, BatchRequested, NoMirrorPass
    <2> QED BY <2>1, <2>2, <2>3, <2>4, <2>5, <2>6, <2>7, <2>8, <2>9
  <1>13. ASSUME NEW w \in Consumers, NEW c \in Commands, MarkLocal(w, c) PROVE Ownership'
    <2>1. RowsRequested'
      BY <1>13, BusAssumption DEF TypeOK, MarkLocal, time, MarkedLocal,
         Terminal, RowsRequested
    <2>2. DeadHoldNothing'
      BY <1>13, BusAssumption DEF TypeOK, MarkLocal, time, MarkedLocal,
         Terminal, DeadHoldNothing
    <2>3. OneHolder'
      BY <1>13, BusAssumption DEF TypeOK, MarkLocal, time, MarkedLocal,
         Terminal, OneHolder, InHand, Driving
    <2>4. HeldIsClaimed'
      BY <1>13, BusAssumption DEF TypeOK, MarkLocal, time, MarkedLocal,
         Terminal, HeldIsClaimed, InHand, Driving, Claimable
    <2>5. UnmarkedIsOpen'
      BY <1>13, BusAssumption DEF TypeOK, MarkLocal, time, MarkedLocal,
         Terminal, UnmarkedIsOpen, Unmarked, Driving
    <2>6. RunBudget'
      BY <1>13, BusAssumption DEF TypeOK, MarkLocal, time, MarkedLocal,
         Terminal, RunBudget, Claimable, Unrun, Driving
    <2>7. DriveIsFresh'
      BY <1>13, BusAssumption DEF TypeOK, MarkLocal, time, MarkedLocal,
         Terminal, DriveIsFresh, Driving
    <2>8. BatchRequested' /\ LocalClaimIsLocalOnly' /\ NoMirrorPass'
      BY <1>13 DEF MarkLocal, time, BatchRequested,
         LocalClaimIsLocalOnly, NoMirrorPass
    <2> QED BY <2>1, <2>2, <2>3, <2>4, <2>5, <2>6, <2>7, <2>8
  <1>14. ASSUME Crash PROVE Ownership'
    <2>1. BatchRequested'
      BY <1>14, BusAssumption DEF TypeOK, Crash, rows, time, NoJobs,
         BatchRequested, NoCommand
    <2>2. LocalClaimIsLocalOnly'
      BY <1>14, BusAssumption DEF TypeOK, Crash, rows, time, NoJobs,
         LocalClaimIsLocalOnly
    <2>3. DeadHoldNothing'
      BY <1>14, BusAssumption DEF TypeOK, Crash, rows, time, NoJobs,
         DeadHoldNothing
    <2>4. OneHolder'
      BY <1>14, BusAssumption DEF TypeOK, Crash, rows, time, NoJobs,
         OneHolder, InHand, Driving
    <2>5. HeldIsClaimed'
      BY <1>14, BusAssumption DEF TypeOK, Crash, rows, time, NoJobs,
         HeldIsClaimed, InHand, Driving, Claimable
    <2>6. UnmarkedIsOpen'
      BY <1>14, BusAssumption DEF TypeOK, Crash, rows, time, NoJobs,
         UnmarkedIsOpen, Unmarked, Driving
    <2>7. RunBudget'
      BY <1>14, BusAssumption DEF TypeOK, Crash, rows, time, NoJobs,
         RunBudget, Claimable, Unrun, Driving
    <2>8. NoMirrorPass'
      BY <1>14, BusAssumption DEF TypeOK, Crash, rows, time, NoJobs,
         NoMirrorPass
    <2>9. DriveIsFresh'
      BY <1>14, BusAssumption DEF TypeOK, Crash, rows, time, NoJobs,
         DriveIsFresh, Driving
    <2>10. RowsRequested'
      BY <1>14 DEF Crash, rows, time, RowsRequested
    <2> QED BY <2>1, <2>2, <2>3, <2>4, <2>5, <2>6, <2>7, <2>8, <2>9, <2>10
  <1>15. ASSUME RetireExpired PROVE Ownership'
    <2>1. RowsRequested'
      BY <1>15, BusAssumption DEF TypeOK, RetireExpired, time, work,
         ExpiredStatus, RowsRequested
    <2>2. DeadHoldNothing'
      BY <1>15, BusAssumption DEF TypeOK, RetireExpired, time, work,
         ExpiredStatus, DeadHoldNothing
    <2>3. HeldIsClaimed'
      BY <1>15, BusAssumption DEF TypeOK, RetireExpired, time, work,
         ExpiredStatus, HeldIsClaimed, InHand, Driving, Claimable
    <2>4. RunBudget'
      BY <1>15, BusAssumption DEF TypeOK, RetireExpired, time, work,
         ExpiredStatus, RunBudget, Claimable, Unrun, Driving
    <2>5. /\ BatchRequested' /\ LocalClaimIsLocalOnly' /\ OneHolder'
          /\ UnmarkedIsOpen' /\ NoMirrorPass' /\ DriveIsFresh'
      BY <1>15 DEF RetireExpired, time, work, BatchRequested,
         LocalClaimIsLocalOnly, OneHolder, InHand, Driving,
         UnmarkedIsOpen, Unmarked, NoMirrorPass, DriveIsFresh
    <2> QED BY <2>1, <2>2, <2>3, <2>4, <2>5
  <1>16. ASSUME Reclaim PROVE Ownership'
    <2>1. RowsRequested'
      BY <1>16, BusAssumption DEF TypeOK, Reclaim, time, work,
         Reclaimed, AttemptsAfter, RowsRequested
    <2>2. DeadHoldNothing'
      BY <1>16, BusAssumption DEF TypeOK, Reclaim, time, work,
         Reclaimed, AttemptsAfter, DeadHoldNothing
    <2>3. HeldIsClaimed'
      BY <1>16, BusAssumption DEF TypeOK, Reclaim, time, work,
         Reclaimed, AttemptsAfter, HeldIsClaimed, InHand, Driving,
         Claimable, DeadHoldNothing
    <2>4. RunBudget'
      BY <1>16, BusAssumption DEF TypeOK, Reclaim, time, work,
         Reclaimed, AttemptsAfter, RunBudget, Claimable, Unrun, Driving
    <2>5. /\ BatchRequested' /\ LocalClaimIsLocalOnly' /\ OneHolder'
          /\ UnmarkedIsOpen' /\ NoMirrorPass' /\ DriveIsFresh'
      BY <1>16 DEF Reclaim, time, work, BatchRequested,
         LocalClaimIsLocalOnly, OneHolder, InHand, Driving,
         UnmarkedIsOpen, Unmarked, NoMirrorPass, DriveIsFresh
    <2> QED BY <2>1, <2>2, <2>3, <2>4, <2>5
  <1>17. ASSUME RetireStale PROVE Ownership'
    <2>1. RowsRequested'
      BY <1>17, BusAssumption DEF TypeOK, RetireStale, time, work, RowsRequested
    <2>2. HeldIsClaimed'
      BY <1>17, BusAssumption DEF TypeOK, RetireStale, time, work,
         HeldIsClaimed, InHand, Driving, Claimable
    <2>3. RunBudget'
      BY <1>17, BusAssumption DEF TypeOK, RetireStale, time, work,
         RunBudget, Claimable, Unrun, Driving
    <2>4. /\ BatchRequested' /\ LocalClaimIsLocalOnly' /\ DeadHoldNothing'
          /\ OneHolder' /\ UnmarkedIsOpen' /\ NoMirrorPass'
          /\ DriveIsFresh'
      BY <1>17 DEF RetireStale, time, work, BatchRequested,
         LocalClaimIsLocalOnly, DeadHoldNothing, OneHolder, InHand,
         Driving, UnmarkedIsOpen, Unmarked, NoMirrorPass, DriveIsFresh
    <2> QED BY <2>1, <2>2, <2>3, <2>4
  <1>19. ASSUME NEW c \in Commands, MirrorUpsert(c) PROVE Ownership'
    <2>1. RowsRequested'
      BY <1>19, BusAssumption DEF TypeOK, MirrorUpsert, time, work,
         RowsRequested, NoMirrorPass
    <2>2. LocalClaimIsLocalOnly'
      BY <1>19, BusAssumption DEF TypeOK, MirrorUpsert, time, work,
         LocalClaimIsLocalOnly, NoMirrorPass
    <2>3. HeldIsClaimed'
      BY <1>19, BusAssumption DEF TypeOK, MirrorUpsert, time, work,
         HeldIsClaimed, InHand, Driving, Claimable, NoMirrorPass
    <2>4. UnmarkedIsOpen'
      BY <1>19, BusAssumption DEF TypeOK, MirrorUpsert, time, work,
         UnmarkedIsOpen, Unmarked, Driving, NoMirrorPass
    <2>5. RunBudget'
      BY <1>19, BusAssumption DEF TypeOK, MirrorUpsert, time, work,
         RunBudget, Claimable, Unrun, Driving, NoMirrorPass
    <2>6. NoMirrorPass'
      BY <1>19, BusAssumption DEF TypeOK, MirrorUpsert, time, work, NoMirrorPass
    <2>7. BatchRequested' /\ DeadHoldNothing' /\ OneHolder' /\ DriveIsFresh'
      BY <1>19 DEF MirrorUpsert, time, work, BatchRequested,
         DeadHoldNothing, OneHolder, InHand, Driving, DriveIsFresh
    <2> QED BY <2>1, <2>2, <2>3, <2>4, <2>5, <2>6, <2>7
  <1>18. ASSUME MirrorRead PROVE Ownership'
    <2>1. NoMirrorPass'
      BY <1>18, BusAssumption DEF TypeOK, MirrorRead, rows, time, work,
         Sheltered, NoMirrorPass
    <2>2. /\ RowsRequested' /\ BatchRequested' /\ LocalClaimIsLocalOnly'
          /\ DeadHoldNothing' /\ OneHolder' /\ HeldIsClaimed'
          /\ UnmarkedIsOpen' /\ RunBudget' /\ DriveIsFresh'
      BY <1>18 DEF MirrorRead, rows, time, work, RowsRequested,
         BatchRequested, LocalClaimIsLocalOnly, DeadHoldNothing,
         OneHolder, InHand, Driving, HeldIsClaimed, Claimable,
         UnmarkedIsOpen, Unmarked, RunBudget, Unrun, DriveIsFresh
    <2> QED BY <2>1, <2>2
  <1>20. ASSUME TimePasses PROVE Ownership'
    <2>1. /\ RowsRequested' /\ BatchRequested' /\ LocalClaimIsLocalOnly'
          /\ DeadHoldNothing' /\ OneHolder' /\ HeldIsClaimed'
          /\ UnmarkedIsOpen' /\ RunBudget' /\ NoMirrorPass'
          /\ DriveIsFresh'
      BY <1>20 DEF TimePasses, rows, work, RowsRequested,
         BatchRequested, LocalClaimIsLocalOnly, DeadHoldNothing,
         OneHolder, InHand, Driving, HeldIsClaimed, Claimable,
         UnmarkedIsOpen, Unmarked, RunBudget, Unrun, NoMirrorPass,
         DriveIsFresh
    <2> QED BY <2>1
  <1>21. ASSUME NEW c \in Commands, Expire(c) PROVE Ownership'
    <2>1. /\ RowsRequested' /\ BatchRequested' /\ LocalClaimIsLocalOnly'
          /\ DeadHoldNothing' /\ OneHolder' /\ HeldIsClaimed'
          /\ UnmarkedIsOpen' /\ RunBudget' /\ NoMirrorPass'
          /\ DriveIsFresh'
      BY <1>21 DEF Expire, rows, work, RowsRequested, BatchRequested,
         LocalClaimIsLocalOnly, DeadHoldNothing, OneHolder, InHand,
         Driving, HeldIsClaimed, Claimable, UnmarkedIsOpen, Unmarked,
         RunBudget, Unrun, NoMirrorPass, DriveIsFresh
    <2> QED BY <2>1
  <1>22. CASE UNCHANGED vars
    BY <1>22 DEF vars, RowsRequested, BatchRequested, LocalClaimIsLocalOnly,
       DeadHoldNothing, OneHolder, HeldIsClaimed, UnmarkedIsOpen, RunBudget,
       NoMirrorPass, DriveIsFresh, InHand, Driving, Unmarked, Unrun, Claimable
  <1> QED
    BY <1>1, <1>2, <1>3, <1>4, <1>5, <1>6, <1>7, <1>8, <1>9, <1>10, <1>11,
       <1>12, <1>13, <1>14, <1>15, <1>16, <1>17, <1>18, <1>19, <1>20,
       <1>21, <1>22
    DEF Next, Enqueue, Poll, Work, Boot

LEMMA OwnershipInit == Init => Ownership
  BY BusAssumption DEF Init, NoJobs, Ownership, RowsRequested, BatchRequested,
     LocalClaimIsLocalOnly, DeadHoldNothing, OneHolder, HeldIsClaimed,
     UnmarkedIsOpen, RunBudget, NoMirrorPass, DriveIsFresh, InHand, Driving,
     Unmarked, Unrun, Claimable, NoCommand

LEMMA OwnershipInvariant == ASSUME Sheltered PROVE Spec => []Ownership
  <1>1. TypeOK /\ Ownership /\ [Next]_vars => Ownership'
    BY OwnershipStep
  <1> QED BY <1>1, OwnershipInit, TypeCorrect, PTL DEF Spec

\* A command is never in the hands of two threads, for any number of threads
\* and commands, as long as the existence read does not fault and no mirror
\* pass runs (try_claim_command).
THEOREM OwnerIsSingle == ASSUME Sheltered PROVE Spec => []SingleOwner
  <1>1. Ownership => SingleOwner
    BY DEF Ownership, OneHolder, InHand, SingleOwner, Owners
  <1> QED BY <1>1, OwnershipInvariant, PTL

\* Under the same conditions a command's effect is applied at most once per
\* reclaim attempt, and the attempts never exceed MaxAttempts: crashes and the
\* boot reclaim cannot make it fire more often.
THEOREM RefireIsBounded == ASSUME Sheltered PROVE Spec => []RefireBound
  <1>1. Ownership => RefireBound
    BY DEF Ownership, RunBudget, RefireBound
  <1> QED BY <1>1, OwnershipInvariant, PTL

\* A terminal local row is final under every fault, crash and mirror pass:
\* each write of the local bus is guarded on a non-terminal status.
THEOREM LocalTerminalIsFinal == Spec => LocalTerminalFinal
  <1>1. TypeOK /\ [Next]_vars =>
          [\A c \in Commands : local[c] \in Terminal => local'[c] = local[c]]_vars
    <2> SUFFICES ASSUME TypeOK, Next, NEW d \in Commands, local[d] \in Terminal
                 PROVE  local'[d] = local[d]
      BY DEF vars
    <2> USE DEF TypeOK, Terminal
    <2>1. ASSUME NEW c \in Commands, EnqueueLocal(c) PROVE local'[d] = local[d]
      BY <2>1 DEF EnqueueLocal, KeyTaken
    <2>2. ASSUME NEW w \in Consumers, DriveLocal(w) PROVE local'[d] = local[d]
      BY <2>2 DEF DriveLocal
    <2>3. ASSUME NEW w \in Consumers, ClaimLocal(w) PROVE local'[d] = local[d]
      BY <2>3 DEF ClaimLocal
    <2>4. ASSUME NEW w \in Consumers, NEW c \in Commands, MarkLocal(w, c)
          PROVE  local'[d] = local[d]
      BY <2>4 DEF MarkLocal, MarkedLocal
    <2>5. CASE RetireExpired BY <2>5 DEF RetireExpired
    <2>6. CASE Reclaim BY <2>6 DEF Reclaim, Reclaimed
    <2>7. CASE RetireStale BY <2>7 DEF RetireStale
    <2>8. CASE UNCHANGED local BY <2>8
    <2>9. ASSUME NEW c \in Commands PROVE
            EnqueueRemote(c) \/ MirrorUpsert(c) \/ Expire(c) => UNCHANGED local
      BY DEF EnqueueRemote, MirrorUpsert, Expire, rows
    <2>10. ASSUME NEW w \in Consumers PROVE
             Fetch(w) \/ NextCommand(w) \/ ClaimRemote(w) \/ SelectRemote(w)
               \/ PollAborts(w) => UNCHANGED local
      BY DEF Fetch, NextCommand, ClaimRemote, SelectRemote, PollAborts, rows
    <2>11. ASSUME NEW w \in Consumers, NEW c \in Commands PROVE
             Dispatch(w, c) \/ Run(w, c) \/ MarkRemote(w, c) => UNCHANGED local
      BY DEF Dispatch, Run, MarkRemote, rows
    <2>12. Crash \/ MirrorRead \/ TimePasses => UNCHANGED local
      BY DEF Crash, MirrorRead, TimePasses, rows
    <2> QED
      BY <2>1, <2>2, <2>3, <2>4, <2>5, <2>6, <2>7, <2>8, <2>9, <2>10, <2>11, <2>12
      DEF Next, Enqueue, Poll, Work, Boot
  <1> QED BY <1>1, TypeCorrect, PTL DEF Spec, LocalTerminalFinal

\* A terminal Supabase row is final too when commands have a single owner: its
\* unguarded mark only ever meets an open row.
THEOREM RemoteTerminalIsFinal == ASSUME Sheltered PROVE Spec => RemoteTerminalFinal
  <1>1. TypeOK /\ Ownership /\ [Next]_vars =>
          [\A c \in Commands : remote[c] \in Terminal => remote'[c] = remote[c]]_vars
    <2> SUFFICES ASSUME TypeOK, Ownership, Next, NEW d \in Commands,
                        remote[d] \in Terminal
                 PROVE  remote'[d] = remote[d]
      BY DEF vars
    <2> USE DEF TypeOK, Terminal
    <2>1. ASSUME NEW c \in Commands, EnqueueRemote(c) PROVE remote'[d] = remote[d]
      BY <2>1 DEF EnqueueRemote, KeyTaken
    <2>2. ASSUME NEW w \in Consumers, ClaimRemote(w) PROVE remote'[d] = remote[d]
      BY <2>2 DEF ClaimRemote
    <2>3. ASSUME NEW w \in Consumers, NEW c \in Commands, MarkRemote(w, c)
          PROVE  remote'[d] = remote[d]
      <3>1. remote[c] \in {"absent", "processing"}
        BY <2>3 DEF MarkRemote, Ownership, UnmarkedIsOpen, Unmarked
      <3> QED BY <2>3, <3>1 DEF MarkRemote
    <2>4. ASSUME NEW c \in Commands, MirrorUpsert(c) PROVE FALSE
      BY <2>4 DEF MirrorUpsert, Ownership, NoMirrorPass
    <2>5. CASE UNCHANGED remote BY <2>5
    <2>6. ASSUME NEW c \in Commands PROVE
            EnqueueLocal(c) \/ Expire(c) => UNCHANGED remote
      BY DEF EnqueueLocal, Expire, rows
    <2>7. ASSUME NEW w \in Consumers PROVE
            Fetch(w) \/ NextCommand(w) \/ DriveLocal(w) \/ SelectRemote(w)
              \/ ClaimLocal(w) \/ PollAborts(w) => UNCHANGED remote
      BY DEF Fetch, NextCommand, DriveLocal, SelectRemote, ClaimLocal, PollAborts, rows
    <2>8. ASSUME NEW w \in Consumers, NEW c \in Commands PROVE
            Dispatch(w, c) \/ Run(w, c) \/ MarkLocal(w, c) => UNCHANGED remote
      BY DEF Dispatch, Run, MarkLocal, rows
    <2>9. Crash \/ RetireExpired \/ Reclaim \/ RetireStale \/ MirrorRead
            \/ TimePasses => UNCHANGED remote
      BY DEF Crash, RetireExpired, Reclaim, RetireStale, MirrorRead, TimePasses, rows
    <2> QED
      BY <2>1, <2>2, <2>3, <2>4, <2>5, <2>6, <2>7, <2>8, <2>9
      DEF Next, Enqueue, Poll, Work, Boot
  <1> QED BY <1>1, TypeCorrect, OwnershipInvariant, PTL DEF Spec, RemoteTerminalFinal
=============================================================================
