-------------------------- MODULE PipelineRuns_proofs --------------------------
(***************************************************************************)
(* Proofs about the runs of one checkout: for any number of runs, of IPs,  *)
(* of contents, deaths and repository stages, what the lock file and the   *)
(* state file promise as long as no two runs are at the lock's check and   *)
(* write at once, and none is forced.                                      *)
(***************************************************************************)
EXTENDS PipelineRuns, TLAPS

InChain == {"LOAD_STATE", "FIND_CHANGED", "NEXT_DLD", "CHAIN", "REPO_STAGE", "SUMMARY",
            "TRUNCATE_STATE", "WRITE_STATE"}

LEMMA TypeInit == Init => TypeOK
BY RunsAssumption DEF Init, TypeOK, Version, Record, NoRecord, Outside, AtLock

\* What every way out of a run does to its variables.
LEMMA ForgetType ==
  ASSUME TypeOK, NEW r \in Run, NEW end \in Outside, Goto(r, end), Forget(r),
         content' = content, done' = done,
         lock' \in Run \cup {None, Torn}, file' = file, crashes' \in 0 .. MaxCrashes
  PROVE  TypeOK'
<1> USE RunsAssumption DEF TypeOK, Goto, Forget, Record, NoRecord, Version, Outside, AtLock
<1>1. pc' \in [Run -> Outside \cup AtLock \cup InChain]
  BY DEF InChain
<1>2. /\ statuses' \in [Run -> SUBSET Status] /\ stage' \in [Run -> 0 .. Stages]
      /\ force' \in [Run -> {FALSE, Forces}]
  <2>1. 0 \in 0 .. Stages
    OBVIOUS
  <2>2. stage' \in [Run -> 0 .. Stages] /\ statuses' \in [Run -> SUBSET Status]
    BY <2>1
  <2>3. force' \in [Run -> {FALSE, Forces}]
    OBVIOUS
  <2> QED BY <2>2, <2>3
<1>3. NoRecord \in Record
  OBVIOUS
<1>4. state' \in [Run -> Record] /\ changed' \in [Run -> SUBSET Ip]
  BY <1>3
<1>5. subject' \in [Run -> Ip \cup {None}] /\ begun' \in [Run -> {0} \cup Version]
  OBVIOUS
<1>6. \A q \in Run : /\ subject'[q] # None <=> pc'[q] = "CHAIN"
                     /\ begun'[q] # 0 <=> pc'[q] = "CHAIN"
                     /\ stage'[q] # 0 <=> pc'[q] = "REPO_STAGE"
  OBVIOUS
<1> QED BY <1>1, <1>2, <1>4, <1>5, <1>6 DEF InChain

\* Every action keeps the types.
LEMMA TypeNext == TypeOK /\ [Next]_vars => TypeOK'
<1> SUFFICES ASSUME TypeOK, [Next]_vars PROVE TypeOK'
  OBVIOUS
<1> USE RunsAssumption DEF TypeOK, localVars, gateVars, chainVars
<1>1. ASSUME NEW i \in Ip, Edit(i) PROVE TypeOK'
  <2>1. content' \in [Ip -> Version]
    BY <1>1 DEF Edit, Version
  <2> QED BY <1>1, <2>1 DEF Edit
<1>2. ASSUME NEW r \in Run, Start(r) PROVE TypeOK'
  <2>1. pc' = [pc EXCEPT ![r] = "CHECK_LOCK"] /\ force' \in [Run -> {FALSE, Forces}]
    BY <1>2 DEF Start, Goto
  <2>2. pc[r] # "CHAIN" /\ pc[r] # "REPO_STAGE"
    BY <1>2 DEF Start, Live, Outside
  <2> QED BY <1>2, <2>1, <2>2 DEF Start, AtLock
<1>3. ASSUME NEW r \in Run, Kill(r) PROVE TypeOK'
  <2>1. crashes' \in 0 .. MaxCrashes
    BY <1>3 DEF Kill
  <2> QED BY <1>3, <2>1, ForgetType DEF Kill, Outside
<1>4. ASSUME NEW r \in Run, Raise(r) PROVE TypeOK'
  <2>1. crashes' \in 0 .. MaxCrashes
    BY <1>4 DEF Raise
  <2> QED BY <1>4, <2>1, ForgetType DEF Raise, Outside
<1>5. ASSUME NEW r \in Run, CheckLock(r) PROVE TypeOK'
  <2>1. CASE Goto(r, "FAILED") /\ Forget(r)
    BY <1>5, <2>1, ForgetType DEF CheckLock, Outside
  <2>2. CASE Goto(r, "TRUNCATE_LOCK") /\ UNCHANGED localVars
    BY <1>5, <2>2 DEF CheckLock, Goto, AtLock
  <2> QED BY <1>5, <2>1, <2>2 DEF CheckLock
<1>6. ASSUME NEW r \in Run, TruncateLock(r) PROVE TypeOK'
  BY <1>6 DEF TruncateLock, Goto, AtLock
<1>7. ASSUME NEW r \in Run, WriteLock(r) PROVE TypeOK'
  BY <1>7 DEF WriteLock, Goto, AtLock
<1>8. ASSUME NEW r \in Run, LoadState(r) PROVE TypeOK'
  <2>1. (IF file = Torn THEN NoRecord ELSE file) \in Record
    BY DEF Record, NoRecord
  <2>2. state' \in [Run -> Record]
    BY <1>8, <2>1 DEF LoadState
  <2> QED BY <1>8, <2>2 DEF LoadState, Goto
<1>9. ASSUME NEW r \in Run, NEW named \in SUBSET Ip, FindChanged(r, named) PROVE TypeOK'
  <2>1. changed' \in [Run -> SUBSET Ip]
    BY <1>9 DEF FindChanged
  <2> QED BY <1>9, <2>1 DEF FindChanged, Goto
<1>10. ASSUME NEW r \in Run, BeginChain(r) PROVE TypeOK'
  <2>1. PICK i \in Ip : /\ i \in changed[r]
                        /\ changed' = [changed EXCEPT ![r] = @ \ {i}]
                        /\ subject' = [subject EXCEPT ![r] = i]
                        /\ begun' = [begun EXCEPT ![r] = content[i]]
    BY <1>10 DEF BeginChain
  <2>2. content[i] \in Version /\ content[i] # 0 /\ i # None
    BY DEF Version
  <2> QED BY <1>10, <2>1, <2>2 DEF BeginChain, Goto
<1>11. ASSUME NEW r \in Run, NormalizeDld(r) PROVE TypeOK'
  <2>1. subject[r] \in Ip
    BY <1>11 DEF NormalizeDld
  <2>2. content' \in [Ip -> Version]
    BY <1>11, <2>1 DEF NormalizeDld, Version
  <2>3. begun' \in [Run -> {0} \cup Version] /\ \A q \in Run : begun'[q] # 0 <=> begun[q] # 0
    BY <1>11, <2>1 DEF NormalizeDld, Version
  <2> QED BY <1>11, <2>2, <2>3 DEF NormalizeDld
<1>12. ASSUME NEW r \in Run, ChainStops(r) PROVE TypeOK'
  <2>1. statuses' \in [Run -> SUBSET Status]
    <3>1. PICK s \in {"awaiting", "failed"} : statuses' = [statuses EXCEPT ![r] = @ \cup {s}]
      BY <1>12 DEF ChainStops, Told
    <3>2. s \in Status
      BY DEF Status
    <3> QED BY <3>1, <3>2
  <2> QED BY <1>12, <2>1 DEF ChainStops, Goto
<1>13. ASSUME NEW r \in Run, ChainCompletes(r) PROVE TypeOK'
  <2>1. statuses' \in [Run -> SUBSET Status]
    <3>1. PICK s \in {"complete"} : statuses' = [statuses EXCEPT ![r] = @ \cup {s}]
      BY <1>13 DEF ChainCompletes, Told
    <3>2. s \in Status
      BY DEF Status
    <3> QED BY <3>1, <3>2
  <2>2. subject[r] \in Ip /\ begun[r] \in Version
    BY <1>13 DEF ChainCompletes
  <2>3. state' \in [Run -> Record] /\ done' \in [Ip -> SUBSET Version]
    BY <1>13, <2>2 DEF ChainCompletes, Record
  <2> QED BY <1>13, <2>1, <2>3 DEF ChainCompletes, Goto
<1>14. ASSUME NEW r \in Run, TruncateState(r) PROVE TypeOK'
  BY <1>14 DEF TruncateState, Goto
<1>15. ASSUME NEW r \in Run, WriteState(r) PROVE TypeOK'
  BY <1>15 DEF WriteState, Goto
<1>16. ASSUME NEW r \in Run, EnterRepoStages(r) PROVE TypeOK'
  <2>1. CASE Stages > 0 /\ Goto(r, "REPO_STAGE") /\ stage' = [stage EXCEPT ![r] = 1]
    <3>1. 1 \in 0 .. Stages
      BY <2>1
    <3>2. stage' \in [Run -> 0 .. Stages]
      BY <2>1, <3>1
    <3>3. pc[r] = "NEXT_DLD" /\ pc' = [pc EXCEPT ![r] = "REPO_STAGE"]
      BY <1>16, <2>1 DEF EnterRepoStages, Goto
    <3>4. \A q \in Run : stage'[q] # 0 <=> pc'[q] = "REPO_STAGE"
      BY <2>1, <3>3
    <3> QED BY <1>16, <3>2, <3>3, <3>4 DEF EnterRepoStages
  <2>2. CASE Goto(r, "SUMMARY") /\ UNCHANGED stage
    BY <1>16, <2>2 DEF EnterRepoStages, Goto
  <2> QED BY <1>16, <2>1, <2>2 DEF EnterRepoStages
<1>17. ASSUME NEW r \in Run, RunRepoStage(r) PROVE TypeOK'
  <2>1. stage[r] \in 1 .. Stages
    <3>1. stage[r] \in 0 .. Stages /\ stage[r] # 0
      BY <1>17 DEF RunRepoStage
    <3> QED BY <3>1
  <2>2. statuses' \in [Run -> SUBSET Status]
    <3>1. "complete (repo-wide gate FAILED)" \in Status
      BY DEF Status
    <3>2. CASE statuses' = statuses
      BY <3>2
    <3>3. CASE statuses' = [statuses EXCEPT ![r] =
                              (@ \ {"complete"}) \cup {"complete (repo-wide gate FAILED)"}]
      BY <3>1, <3>3
    <3> QED BY <1>17, <3>2, <3>3 DEF RunRepoStage
  <2>3. \/ stage' = [stage EXCEPT ![r] = @ + 1] /\ stage[r] < Stages /\ pc' = pc
        \/ stage' = [stage EXCEPT ![r] = 0] /\ pc' = [pc EXCEPT ![r] = "SUMMARY"]
    BY <1>17 DEF RunRepoStage, Goto
  <2>4. /\ stage' \in [Run -> 0 .. Stages]
        /\ \A q \in Run : stage'[q] # 0 <=> pc'[q] = "REPO_STAGE"
    <3>1. pc[r] = "REPO_STAGE"
      BY <1>17 DEF RunRepoStage
    <3>2. CASE stage' = [stage EXCEPT ![r] = @ + 1] /\ stage[r] < Stages /\ pc' = pc
      <4>1. stage[r] + 1 \in 0 .. Stages /\ stage[r] + 1 # 0
        BY <2>1, <3>2
      <4> QED BY <3>1, <3>2, <4>1
    <3>3. CASE stage' = [stage EXCEPT ![r] = 0] /\ pc' = [pc EXCEPT ![r] = "SUMMARY"]
      <4>1. 0 \in 0 .. Stages
        OBVIOUS
      <4> QED BY <3>1, <3>3, <4>1
    <3> QED BY <2>3, <3>2, <3>3
  <2> QED BY <1>17, <2>2, <2>3, <2>4 DEF RunRepoStage
<1>18. ASSUME NEW r \in Run, ReleaseLock(r) PROVE TypeOK'
  <2>1. ExitStatus(statuses[r]) \in Outside
    BY DEF ExitStatus, Outside
  <2> QED BY <1>18, <2>1, ForgetType DEF ReleaseLock
<1>19. CASE UNCHANGED vars
  BY <1>19 DEF vars
<1> QED
  BY <1>1, <1>2, <1>3, <1>4, <1>5, <1>6, <1>7, <1>8, <1>9, <1>10, <1>11, <1>12, <1>13, <1>14,
     <1>15, <1>16, <1>17, <1>18, <1>19 DEF Next, Works

-----------------------------------------------------------------------------
(* The lock.                                                                *)

\* What keeps the lock with the run inside: one run at a time is at the check
\* and the write, and once it found no live pid nobody is inside.
LockInv ==
  /\ \A q, r \in Run : pc[q] \in AtLock /\ pc[r] \in AtLock => q = r
  /\ \A r \in Run : pc[r] \in {"TRUNCATE_LOCK", "WRITE_LOCK"} => \A q \in Run : ~Inside(q)
  /\ LockIsHeld

LEMMA LockInit == Init => LockInv
BY DEF Init, LockInv, LockIsHeld, Inside, Live, Outside, AtLock

\* A step within a run that is past the lock.
LEMMA LockGoesOn ==
  ASSUME TypeOK, LockInv, NEW r \in Run, Inside(r), NEW place \in InChain, Goto(r, place),
         lock' = lock
  PROVE  LockInv'
<1>1. pc \in [Run -> Outside \cup AtLock \cup InChain]
  BY DEF TypeOK, InChain
<1>2. \A q \in Run : /\ pc'[q] \in AtLock <=> pc[q] \in AtLock
                     /\ Inside(q)' <=> Inside(q)
                     /\ pc'[q] \in {"TRUNCATE_LOCK", "WRITE_LOCK"}
                          <=> pc[q] \in {"TRUNCATE_LOCK", "WRITE_LOCK"}
  BY <1>1 DEF Goto, Inside, Live, Outside, AtLock, InChain
<1> QED BY <1>2 DEF LockInv, LockIsHeld

\* A run that ends, and takes the lock with it only if it is past it.
LEMMA LockEnds ==
  ASSUME TypeOK, LockInv, NEW r \in Run, NEW end \in Outside, Goto(r, end),
         lock' = lock \/ Inside(r)
  PROVE  LockInv'
<1>1. pc \in [Run -> Outside \cup AtLock \cup InChain]
  BY DEF TypeOK, InChain
<1>2. \A q \in Run : q # r => pc'[q] = pc[q]
  BY <1>1 DEF Goto
<1>3. pc'[r] \in Outside /\ pc'[r] \notin AtLock
  BY <1>1 DEF Goto, Outside, AtLock
<1>4. \A q \in Run : Inside(q)' => q # r /\ Inside(q)
  BY <1>2, <1>3 DEF Inside, Live
<1>5. LockIsHeld'
  <2> SUFFICES ASSUME NEW q \in Run, Inside(q)' PROVE lock' = q
    BY DEF LockIsHeld
  <2>1. q # r /\ Inside(q) /\ lock = q
    BY <1>4 DEF LockInv, LockIsHeld
  <2>2. ~Inside(r)
    BY <2>1 DEF LockInv, LockIsHeld
  <2> QED BY <2>1, <2>2
<1>6. \A q \in Run : pc'[q] \in AtLock => q # r
  BY <1>3
<1>7. \A q \in Run : pc'[q] \in {"TRUNCATE_LOCK", "WRITE_LOCK"} => q # r
  BY <1>3 DEF Outside
<1> QED BY <1>2, <1>4, <1>5, <1>6, <1>7 DEF LockInv

\* A step that leaves the lock file and every run's place alone.
LEMMA LockStays ==
  ASSUME LockInv, pc' = pc, lock' = lock
  PROVE  LockInv'
BY DEF LockInv, LockIsHeld, Inside, Live

\* Every action keeps the lock with the run inside.
LEMMA LockNext ==
  ASSUME Staggered, ~Forces
  PROVE  TypeOK /\ LockInv /\ [Next]_vars => LockInv'
<1> SUFFICES ASSUME TypeOK, LockInv, [Next]_vars PROVE LockInv'
  OBVIOUS
<1>t. pc \in [Run -> Outside \cup AtLock \cup InChain]
  BY DEF TypeOK, InChain
<1>1. ASSUME NEW i \in Ip, Edit(i) PROVE LockInv'
  BY <1>1, LockStays DEF Edit
<1>2. ASSUME NEW r \in Run, Start(r) PROVE LockInv'
  <2>1. \A q \in Run : pc[q] \notin AtLock
    BY <1>2 DEF Start
  <2>2. \A q \in Run : pc'[q] \in AtLock => q = r
    BY <1>2, <1>t, <2>1 DEF Start, Goto
  <2>3. pc'[r] = "CHECK_LOCK" /\ \A q \in Run : q # r => pc'[q] = pc[q]
    BY <1>2, <1>t DEF Start, Goto
  <2>4. \A q \in Run : Inside(q)' => Inside(q)
    BY <2>3 DEF Inside, Live, AtLock
  <2>5. lock' = lock
    BY <1>2 DEF Start
  <2>6. \A q \in Run : pc'[q] \notin {"TRUNCATE_LOCK", "WRITE_LOCK"}
    BY <2>2, <2>3 DEF AtLock
  <2> QED BY <2>2, <2>4, <2>5, <2>6 DEF LockInv, LockIsHeld
<1>3. ASSUME NEW r \in Run, Kill(r) PROVE LockInv'
  BY <1>3, LockEnds DEF Kill, Outside
<1>4. ASSUME NEW r \in Run, Raise(r) PROVE LockInv'
  BY <1>4, LockEnds DEF Raise, Outside
<1>5. ASSUME NEW r \in Run, CheckLock(r) PROVE LockInv'
  <2>1. CASE Goto(r, "FAILED")
    BY <1>5, <2>1, LockEnds DEF CheckLock, Outside
  <2>2. CASE Goto(r, "TRUNCATE_LOCK") /\ (~LockIsLive \/ force[r])
    <3>1. ~force[r]
      <4>1. force[r] = FALSE \/ force[r] = Forces
        BY DEF TypeOK
      <4> QED BY <4>1, Zenon
    <3>2. \A q \in Run : ~Inside(q)
      BY <2>2, <3>1 DEF LockInv, LockIsHeld, LockIsLive, Inside
    <3>3. pc[r] = "CHECK_LOCK" /\ pc'[r] = "TRUNCATE_LOCK"
      BY <1>5, <1>t, <2>2 DEF CheckLock, Goto
    <3>4. \A q \in Run : q # r => pc'[q] = pc[q]
      BY <1>t, <2>2 DEF Goto
    <3>5. \A q \in Run : ~Inside(q)'
      BY <3>2, <3>3, <3>4 DEF Inside, Live, AtLock
    <3>6. \A q \in Run : pc'[q] \in AtLock => pc[q] \in AtLock
      BY <3>3, <3>4 DEF AtLock
    <3> QED BY <3>5, <3>6 DEF LockInv, LockIsHeld
  <2> QED BY <1>5, <2>1, <2>2 DEF CheckLock
<1>6. ASSUME NEW r \in Run, TruncateLock(r) PROVE LockInv'
  <2>1. pc[r] = "TRUNCATE_LOCK" /\ pc'[r] = "WRITE_LOCK"
    BY <1>6, <1>t DEF TruncateLock, Goto
  <2>2. \A q \in Run : q # r => pc'[q] = pc[q]
    BY <1>6, <1>t DEF TruncateLock, Goto
  <2>3. \A q \in Run : ~Inside(q)
    BY <2>1 DEF LockInv
  <2>4. \A q \in Run : ~Inside(q)'
    BY <2>1, <2>2, <2>3 DEF Inside, Live, AtLock
  <2>5. \A q \in Run : pc'[q] \in AtLock => pc[q] \in AtLock
    BY <2>1, <2>2 DEF AtLock
  <2> QED BY <2>4, <2>5 DEF LockInv, LockIsHeld
<1>7. ASSUME NEW r \in Run, WriteLock(r) PROVE LockInv'
  <2>1. pc[r] = "WRITE_LOCK" /\ pc'[r] = "LOAD_STATE" /\ lock' = r
    BY <1>7, <1>t DEF WriteLock, Goto
  <2>2. \A q \in Run : q # r => pc'[q] = pc[q]
    BY <1>7, <1>t DEF WriteLock, Goto
  <2>3. \A q \in Run : ~Inside(q)
    BY <2>1 DEF LockInv
  <2>4. \A q \in Run : Inside(q)' => q = r
    BY <2>2, <2>3 DEF Inside, Live
  <2>5. \A q \in Run : pc'[q] \notin AtLock
    <3> TAKE q \in Run
    <3>1. CASE q = r
      BY <2>1, <3>1 DEF AtLock
    <3>2. CASE q # r
      BY <2>1, <2>2, <3>2 DEF LockInv, AtLock
    <3> QED BY <3>1, <3>2
  <2> QED BY <2>1, <2>4, <2>5 DEF LockInv, LockIsHeld, AtLock
<1>8. ASSUME NEW r \in Run, NEW place \in InChain, Goto(r, place), lock' = lock,
             pc[r] \in InChain
      PROVE  LockInv'
  BY <1>8, LockGoesOn DEF Inside, Live, Outside, AtLock, InChain
<1>9. ASSUME NEW r \in Run, LoadState(r) PROVE LockInv'
  BY <1>8, <1>9 DEF LoadState, InChain
<1>10. ASSUME NEW r \in Run, NEW named \in SUBSET Ip, FindChanged(r, named) PROVE LockInv'
  BY <1>8, <1>10 DEF FindChanged, InChain
<1>11. ASSUME NEW r \in Run, BeginChain(r) PROVE LockInv'
  BY <1>8, <1>11 DEF BeginChain, InChain
<1>12. ASSUME NEW r \in Run, NormalizeDld(r) PROVE LockInv'
  BY <1>12, LockStays DEF NormalizeDld
<1>13. ASSUME NEW r \in Run, ChainStops(r) PROVE LockInv'
  BY <1>8, <1>13 DEF ChainStops, InChain
<1>14. ASSUME NEW r \in Run, ChainCompletes(r) PROVE LockInv'
  BY <1>8, <1>14 DEF ChainCompletes, InChain
<1>15. ASSUME NEW r \in Run, TruncateState(r) PROVE LockInv'
  BY <1>8, <1>15 DEF TruncateState, InChain
<1>16. ASSUME NEW r \in Run, WriteState(r) PROVE LockInv'
  BY <1>8, <1>16 DEF WriteState, InChain
<1>17. ASSUME NEW r \in Run, EnterRepoStages(r) PROVE LockInv'
  BY <1>8, <1>17 DEF EnterRepoStages, InChain
<1>18. ASSUME NEW r \in Run, RunRepoStage(r) PROVE LockInv'
  <2>1. CASE Goto(r, "SUMMARY")
    BY <1>8, <1>18, <2>1 DEF RunRepoStage, InChain
  <2>2. CASE pc' = pc
    BY <1>18, <2>2, LockStays DEF RunRepoStage
  <2> QED BY <1>18, <2>1, <2>2 DEF RunRepoStage
<1>19. ASSUME NEW r \in Run, ReleaseLock(r) PROVE LockInv'
  <2>1. Inside(r) /\ ExitStatus(statuses[r]) \in Outside
    BY <1>19 DEF ReleaseLock, Inside, Live, ExitStatus, Outside, AtLock
  <2> QED BY <1>19, <2>1, LockEnds DEF ReleaseLock
<1>20. CASE UNCHANGED vars
  BY <1>20, LockStays DEF vars
<1> QED
  BY <1>1, <1>2, <1>3, <1>4, <1>5, <1>6, <1>7, <1>9, <1>10, <1>11, <1>12, <1>13, <1>14,
     <1>15, <1>16, <1>17, <1>18, <1>19, <1>20 DEF Next, Works

\* A run past its lock holds it, whoever dies, raises or is refused in between:
\* acquire_lock and the finally clause of main, as long as runs are started one
\* after the other at the lock and none has --force-lock.
THEOREM LockHeld ==
  ASSUME Staggered, ~Forces
  PROVE  Spec => []LockIsHeld
<1>1. Init => TypeOK /\ LockInv
  BY TypeInit, LockInit
<1>2. TypeOK /\ LockInv /\ [Next]_vars => (TypeOK /\ LockInv)'
  BY TypeNext, LockNext
<1>3. LockInv => LockIsHeld
  BY DEF LockInv
<1> QED BY <1>1, <1>2, <1>3, PTL DEF Spec

-----------------------------------------------------------------------------
(* The state file.                                                          *)

InFile == IF file = Torn THEN NoRecord ELSE file
Copied == {"FIND_CHANGED", "NEXT_DLD", "CHAIN", "REPO_STAGE", "SUMMARY"}
CopyInv == \A r \in Run : pc[r] \in Copied => state[r] = InFile

LEMMA CopyInit == Init => CopyInv
BY DEF Init, CopyInv, Copied

\* A step that leaves the file and the copies alone, and brings no run among
\* those that carry one.
LEMMA CopyStays ==
  ASSUME CopyInv, file' = file,
         \A q \in Run : pc'[q] \in Copied => pc[q] \in Copied /\ state'[q] = state[q]
  PROVE  CopyInv'
BY DEF CopyInv, InFile

\* A step of one run that leaves the file and its copy alone, and stays among
\* the places where it carries one, or leaves them.
LEMMA CopyGoesOn ==
  ASSUME TypeOK, CopyInv, file' = file, NEW r \in Run, NEW place, Goto(r, place),
         pc[r] \in Copied \/ place \notin Copied,
         \A q \in Run : place \in Copied \/ q # r => state'[q] = state[q]
  PROVE  CopyInv'
<1>1. pc \in [Run -> Outside \cup AtLock \cup InChain]
  BY DEF TypeOK, InChain
<1>2. \A q \in Run : q # r => pc'[q] = pc[q]
  BY <1>1 DEF Goto
<1>3. pc'[r] = place
  BY <1>1 DEF Goto
<1> QED BY <1>2, <1>3, CopyStays

\* Only the run inside touches the file, and a copy is saved whole.
LEMMA CopyNext ==
  TypeOK /\ LockInv /\ CopyInv /\ [Next]_vars => CopyInv'
<1> SUFFICES ASSUME TypeOK, LockInv, CopyInv, [Next]_vars PROVE CopyInv'
  OBVIOUS
<1>t. /\ pc \in [Run -> Outside \cup AtLock \cup InChain]
      /\ state \in [Run -> Record]
  BY DEF TypeOK, InChain
<1>i. \A r \in Run : pc[r] \in InChain => Inside(r)
  BY DEF Inside, Live, Outside, AtLock, InChain
<1>s. \A q, r \in Run : Inside(q) /\ Inside(r) => q = r
  BY DEF LockInv, LockIsHeld
<1>1. ASSUME NEW i \in Ip, Edit(i) PROVE CopyInv'
  BY <1>1, CopyStays DEF Edit, localVars, chainVars
<1>2. ASSUME NEW r \in Run, Start(r) PROVE CopyInv'
  <2>1. "CHECK_LOCK" \notin Copied
    BY DEF Copied
  <2> QED BY <1>2, <2>1, CopyGoesOn DEF Start, chainVars
<1>3. ASSUME NEW r \in Run, NEW end \in Outside, Goto(r, end), Forget(r), file' = file
      PROVE  CopyInv'
  <2>1. end \notin Copied
    BY DEF Outside, Copied
  <2>2. \A q \in Run : q # r => state'[q] = state[q]
    BY <1>3, <1>t DEF Forget
  <2> QED BY <1>3, <2>1, <2>2, CopyGoesOn
<1>4. ASSUME NEW r \in Run, Kill(r) PROVE CopyInv'
  BY <1>3, <1>4 DEF Kill, Outside
<1>5. ASSUME NEW r \in Run, Raise(r) PROVE CopyInv'
  BY <1>3, <1>5 DEF Raise, Outside
<1>6. ASSUME NEW r \in Run, CheckLock(r) PROVE CopyInv'
  <2>1. CASE Goto(r, "FAILED") /\ Forget(r)
    BY <1>3, <1>6, <2>1 DEF CheckLock, Outside
  <2>2. CASE Goto(r, "TRUNCATE_LOCK") /\ UNCHANGED localVars
    <3>1. "TRUNCATE_LOCK" \notin Copied
      BY DEF Copied
    <3> QED BY <1>6, <2>2, <3>1, CopyGoesOn DEF CheckLock, localVars, chainVars
  <2> QED BY <1>6, <2>1, <2>2 DEF CheckLock
<1>7. ASSUME NEW r \in Run, TruncateLock(r) PROVE CopyInv'
  <2>1. "WRITE_LOCK" \notin Copied
    BY DEF Copied
  <2> QED BY <1>7, <2>1, CopyGoesOn DEF TruncateLock, localVars, chainVars
<1>8. ASSUME NEW r \in Run, WriteLock(r) PROVE CopyInv'
  <2>1. "LOAD_STATE" \notin Copied
    BY DEF Copied
  <2> QED BY <1>8, <2>1, CopyGoesOn DEF WriteLock, localVars, chainVars
<1>9. ASSUME NEW r \in Run, LoadState(r) PROVE CopyInv'
  <2>1. file' = file /\ state'[r] = InFile
    BY <1>9, <1>t DEF LoadState, InFile
  <2>2. \A q \in Run : q # r => pc'[q] = pc[q] /\ state'[q] = state[q]
    BY <1>9, <1>t DEF LoadState, Goto
  <2>3. InFile' = InFile
    BY <2>1 DEF InFile
  <2> QED BY <2>1, <2>2, <2>3 DEF CopyInv
<1>10. ASSUME NEW r \in Run, NEW named \in SUBSET Ip, FindChanged(r, named) PROVE CopyInv'
  BY <1>10, CopyGoesOn DEF FindChanged, Copied
<1>11. ASSUME NEW r \in Run, BeginChain(r) PROVE CopyInv'
  BY <1>11, CopyGoesOn DEF BeginChain, Copied
<1>12. ASSUME NEW r \in Run, NormalizeDld(r) PROVE CopyInv'
  BY <1>12, CopyStays DEF NormalizeDld
<1>13. ASSUME NEW r \in Run, ChainStops(r) PROVE CopyInv'
  BY <1>13, CopyGoesOn DEF ChainStops, Copied
<1>14. ASSUME NEW r \in Run, ChainCompletes(r) PROVE CopyInv'
  <2>1. "TRUNCATE_STATE" \notin Copied
    BY DEF Copied
  <2>2. \A q \in Run : q # r => state'[q] = state[q]
    BY <1>14, <1>t DEF ChainCompletes
  <2> QED BY <1>14, <2>1, <2>2, CopyGoesOn DEF ChainCompletes
<1>15. ASSUME NEW r \in Run, TruncateState(r) PROVE CopyInv'
  <2>1. Inside(r) /\ pc'[r] = "WRITE_STATE"
    BY <1>15, <1>t, <1>i DEF TruncateState, Goto, InChain
  <2>2. \A q \in Run : q # r => pc'[q] = pc[q] /\ pc[q] \notin Copied
    BY <1>15, <1>t, <1>i, <1>s, <2>1 DEF TruncateState, Goto, Copied, InChain
  <2>3. \A q \in Run : pc'[q] \notin Copied
    BY <2>1, <2>2 DEF Copied
  <2> QED BY <2>3 DEF CopyInv
<1>16. ASSUME NEW r \in Run, WriteState(r) PROVE CopyInv'
  <2>1. Inside(r)
    BY <1>16, <1>i DEF WriteState, InChain
  <2>2. \A q \in Run : q # r => pc'[q] = pc[q] /\ pc[q] \notin Copied
    BY <1>16, <1>t, <1>i, <1>s, <2>1 DEF WriteState, Goto, Copied, InChain
  <2>3. Torn \notin Record
    BY RunsAssumption DEF Record, Version, InChain
  <2>4. file' = state[r] /\ state' = state /\ state[r] \in Record
    BY <1>16, <1>t DEF WriteState, localVars, chainVars
  <2>5. InFile' = state'[r]
    BY <2>3, <2>4 DEF InFile
  <2> QED BY <2>2, <2>5 DEF CopyInv
<1>17. ASSUME NEW r \in Run, EnterRepoStages(r) PROVE CopyInv'
  BY <1>17, CopyGoesOn DEF EnterRepoStages, Copied, chainVars
<1>18. ASSUME NEW r \in Run, RunRepoStage(r) PROVE CopyInv'
  <2>1. CASE Goto(r, "SUMMARY")
    BY <1>18, <2>1, CopyGoesOn DEF RunRepoStage, Copied, chainVars
  <2>2. CASE pc' = pc
    BY <1>18, <2>2, CopyStays DEF RunRepoStage, chainVars
  <2> QED BY <1>18, <2>1, <2>2 DEF RunRepoStage
<1>19. ASSUME NEW r \in Run, ReleaseLock(r) PROVE CopyInv'
  <2>1. ExitStatus(statuses[r]) \in Outside
    BY DEF ExitStatus, Outside
  <2> QED BY <1>3, <1>19, <2>1 DEF ReleaseLock
<1>20. CASE UNCHANGED vars
  BY <1>20, CopyStays DEF vars, localVars, chainVars
<1> QED
  BY <1>1, <1>2, <1>4, <1>5, <1>6, <1>7, <1>8, <1>9, <1>10, <1>11, <1>12, <1>13, <1>14,
     <1>15, <1>16, <1>17, <1>18, <1>19, <1>20 DEF Next, Works

\* The copy of the state file that a run carries is the file, whenever it is
\* not saving: save_state writes the whole copy, and forgets nothing by it.
THEOREM CopyHeld ==
  ASSUME Staggered, ~Forces
  PROVE  Spec => []CopyIsCurrent
<1>1. Init => TypeOK /\ LockInv /\ CopyInv
  BY TypeInit, LockInit, CopyInit
<1>2. TypeOK /\ LockInv /\ CopyInv /\ [Next]_vars => (TypeOK /\ LockInv /\ CopyInv)'
  BY TypeNext, LockNext, CopyNext
<1>3. TypeOK /\ CopyInv => CopyIsCurrent
  BY DEF CopyInv, CopyIsCurrent, Copied, InFile
<1> QED BY <1>1, <1>2, <1>3, PTL DEF Spec

-----------------------------------------------------------------------------
(* What is recorded was run.                                                *)

\* Every copy records what was run, as the file does, and a chain under way
\* began with the content the DLD has: nobody but the chain rewrites it.
RanInv ==
  /\ \A r \in Run : \A i \in Ip : state[r][i] # 0 => state[r][i] \in done[i]
  /\ \A r \in Run : pc[r] = "CHAIN" => begun[r] = content[subject[r]]
  /\ RecordedWasRun

LEMMA RanInit == Init => RanInv
BY DEF Init, RanInv, RecordedWasRun, NoRecord

\* A step that begins no chain, and changes the content of no DLD, nor a record.
LEMMA RanStays ==
  ASSUME RanInv, file' = file, done' = done, content' = content,
         \A q \in Run : state'[q] = state[q] \/ state'[q] = NoRecord,
         \A q \in Run : pc'[q] = "CHAIN" =>
           pc[q] = "CHAIN" /\ begun'[q] = begun[q] /\ subject'[q] = subject[q]
  PROVE  RanInv'
<1>1. \A q \in Run : \A i \in Ip : state'[q][i] # 0 => state'[q][i] \in done'[i]
  BY DEF RanInv, NoRecord
<1>2. \A q \in Run : pc'[q] = "CHAIN" => begun'[q] = content'[subject'[q]]
  BY DEF RanInv
<1>3. RecordedWasRun'
  BY DEF RanInv, RecordedWasRun
<1> QED BY <1>1, <1>2, <1>3 DEF RanInv

\* A step of one run to a place outside a chain.
LEMMA RanGoesOn ==
  ASSUME TypeOK, RanInv, file' = file, done' = done, content' = content,
         NEW r \in Run, NEW place, Goto(r, place), place # "CHAIN",
         \A q \in Run : state'[q] = state[q] \/ state'[q] = NoRecord,
         \A q \in Run : q # r => begun'[q] = begun[q] /\ subject'[q] = subject[q]
  PROVE  RanInv'
<1>1. pc \in [Run -> Outside \cup AtLock \cup InChain]
  BY DEF TypeOK, InChain
<1>2. pc'[r] = place /\ \A q \in Run : q # r => pc'[q] = pc[q]
  BY <1>1 DEF Goto
<1> QED BY <1>2, RanStays

\* Nothing gets into a record but what a chain began with and completed.
LEMMA RanNext ==
  ASSUME ~EditsInRun
  PROVE  TypeOK /\ LockInv /\ RanInv /\ [Next]_vars => RanInv'
<1> SUFFICES ASSUME TypeOK, LockInv, RanInv, [Next]_vars PROVE RanInv'
  OBVIOUS
<1>t. /\ pc \in [Run -> Outside \cup AtLock \cup InChain] /\ state \in [Run -> Record]
      /\ content \in [Ip -> Version] /\ done \in [Ip -> SUBSET Version]
      /\ subject \in [Run -> Ip \cup {None}] /\ begun \in [Run -> {0} \cup Version]
      /\ None \notin Ip
  BY RunsAssumption DEF TypeOK, InChain
<1>c. \A r \in Run : pc[r] = "CHAIN" => subject[r] \in Ip
  BY DEF TypeOK
<1>i. \A r \in Run : pc[r] \in InChain => Inside(r)
  BY DEF Inside, Live, Outside, AtLock, InChain
<1>s. \A q, r \in Run : Inside(q) /\ Inside(r) => q = r
  BY DEF LockInv, LockIsHeld
<1>1. ASSUME NEW i \in Ip, Edit(i) PROVE RanInv'
  <2>1. \A r \in Run : subject[r] # i
    BY <1>1 DEF Edit
  <2>2. \A j \in Ip : j # i => content'[j] = content[j]
    BY <1>1, <1>t DEF Edit
  <2>3. \A r \in Run : pc[r] = "CHAIN" => content'[subject[r]] = content[subject[r]]
    BY <1>c, <2>1, <2>2
  <2> QED BY <1>1, <2>3 DEF Edit, RanInv, RecordedWasRun, localVars, chainVars
<1>2. ASSUME NEW r \in Run, Start(r) PROVE RanInv'
  BY <1>2, RanGoesOn DEF Start, chainVars
<1>3. ASSUME NEW r \in Run, NEW end \in Outside, Goto(r, end), Forget(r),
             file' = file, done' = done, content' = content
      PROVE  RanInv'
  <2>1. end # "CHAIN"
    BY DEF Outside
  <2>2. \A q \in Run : state'[q] = state[q] \/ state'[q] = NoRecord
    BY <1>3, <1>t DEF Forget
  <2>3. \A q \in Run : q # r => begun'[q] = begun[q] /\ subject'[q] = subject[q]
    BY <1>3, <1>t DEF Forget
  <2> QED BY <1>3, <2>1, <2>2, <2>3, RanGoesOn
<1>4. ASSUME NEW r \in Run, Kill(r) PROVE RanInv'
  BY <1>3, <1>4 DEF Kill, Outside
<1>5. ASSUME NEW r \in Run, Raise(r) PROVE RanInv'
  BY <1>3, <1>5 DEF Raise, Outside
<1>6. ASSUME NEW r \in Run, CheckLock(r) PROVE RanInv'
  <2>1. CASE Goto(r, "FAILED") /\ Forget(r)
    BY <1>3, <1>6, <2>1 DEF CheckLock, Outside
  <2>2. CASE Goto(r, "TRUNCATE_LOCK") /\ UNCHANGED localVars
    BY <1>6, <2>2, RanGoesOn DEF CheckLock, localVars, chainVars
  <2> QED BY <1>6, <2>1, <2>2 DEF CheckLock
<1>7. ASSUME NEW r \in Run, TruncateLock(r) PROVE RanInv'
  BY <1>7, RanGoesOn DEF TruncateLock, localVars, chainVars
<1>8. ASSUME NEW r \in Run, WriteLock(r) PROVE RanInv'
  BY <1>8, RanGoesOn DEF WriteLock, localVars, chainVars
<1>9. ASSUME NEW r \in Run, LoadState(r) PROVE RanInv'
  <2>1. \A q \in Run : pc'[q] = "CHAIN" => pc[q] = "CHAIN"
    BY <1>9, <1>t DEF LoadState, Goto
  <2>2. \A i \in Ip : state'[r][i] # 0 => state'[r][i] \in done[i]
    BY <1>9, <1>t DEF LoadState, NoRecord, RanInv, RecordedWasRun
  <2>3. \A q \in Run : q # r => state'[q] = state[q]
    BY <1>9, <1>t DEF LoadState
  <2>4. \A q \in Run : \A i \in Ip : state'[q][i] # 0 => state'[q][i] \in done[i]
    BY <2>2, <2>3 DEF RanInv
  <2> QED BY <1>9, <2>1, <2>4 DEF LoadState, RanInv, RecordedWasRun
<1>10. ASSUME NEW r \in Run, NEW named \in SUBSET Ip, FindChanged(r, named) PROVE RanInv'
  BY <1>10, RanGoesOn DEF FindChanged
<1>11. ASSUME NEW r \in Run, BeginChain(r) PROVE RanInv'
  <2>1. PICK i \in Ip : subject' = [subject EXCEPT ![r] = i]
                        /\ begun' = [begun EXCEPT ![r] = content[i]]
    BY <1>11 DEF BeginChain, TypeOK
  <2>2. begun'[r] = content[subject'[r]]
    BY <1>t, <2>1
  <2>3. \A q \in Run : q # r => /\ begun'[q] = begun[q] /\ subject'[q] = subject[q]
                                /\ pc'[q] = pc[q]
    BY <1>11, <1>t, <2>1 DEF BeginChain, Goto
  <2>4. \A q \in Run : pc'[q] = "CHAIN" => begun'[q] = content[subject'[q]]
    BY <2>2, <2>3 DEF RanInv
  <2> QED BY <1>11, <2>4 DEF BeginChain, RanInv, RecordedWasRun
<1>12. ASSUME NEW r \in Run, NormalizeDld(r) PROVE RanInv'
  <2>1. subject[r] \in Ip /\ begun[r] = content[subject[r]]
    BY <1>12, <1>c DEF NormalizeDld, RanInv
  <2>2. \A q \in Run : pc[q] = "CHAIN" => q = r
    BY <1>12, <1>i, <1>s DEF NormalizeDld, InChain
  <2>3. begun'[r] = content[subject[r]] + 1 /\ content'[subject[r]] = content[subject[r]] + 1
    BY <1>12, <1>t, <2>1 DEF NormalizeDld
  <2>4. pc' = pc /\ subject' = subject /\ state' = state /\ file' = file /\ done' = done
    BY <1>12 DEF NormalizeDld
  <2>5. \A q \in Run : pc'[q] = "CHAIN" => begun'[q] = content'[subject'[q]]
    BY <2>2, <2>3, <2>4
  <2> QED BY <2>4, <2>5 DEF RanInv, RecordedWasRun
<1>13. ASSUME NEW r \in Run, ChainStops(r) PROVE RanInv'
  <2>1. \A q \in Run : q # r => begun'[q] = begun[q] /\ subject'[q] = subject[q]
    BY <1>13, <1>t DEF ChainStops
  <2> QED BY <1>13, <2>1, RanGoesOn DEF ChainStops
<1>14. ASSUME NEW r \in Run, ChainCompletes(r) PROVE RanInv'
  <2> DEFINE s == subject[r]
  <2>1. s \in Ip /\ begun[r] = content[s]
    BY <1>14, <1>c DEF ChainCompletes, RanInv
  <2>2. /\ done'[s] = done[s] \cup {content[s]}
        /\ \A i \in Ip : done[i] \subseteq done'[i]
    BY <1>14, <1>t, <2>1 DEF ChainCompletes
  <2>3. /\ state'[r][s] = content[s]
        /\ \A i \in Ip : i # s => state'[r][i] = state[r][i]
        /\ \A q \in Run : q # r => state'[q] = state[q]
    BY <1>14, <1>t, <2>1 DEF ChainCompletes, Record
  <2>4. \A i \in Ip : state'[r][i] # 0 => state'[r][i] \in done'[i]
    BY <2>2, <2>3 DEF RanInv
  <2>5. \A q \in Run : \A i \in Ip : state'[q][i] # 0 => state'[q][i] \in done'[i]
    BY <2>2, <2>3, <2>4 DEF RanInv
  <2>6. \A q \in Run : pc'[q] = "CHAIN" =>
          pc[q] = "CHAIN" /\ begun'[q] = begun[q] /\ subject'[q] = subject[q]
    BY <1>14, <1>t DEF ChainCompletes, Goto
  <2>7. \A q \in Run : pc'[q] = "CHAIN" => begun'[q] = content'[subject'[q]]
    BY <1>14, <2>6 DEF ChainCompletes, RanInv
  <2>8. RecordedWasRun'
    BY <1>14, <2>2 DEF ChainCompletes, RanInv, RecordedWasRun
  <2> QED BY <2>5, <2>7, <2>8 DEF RanInv
<1>15. ASSUME NEW r \in Run, TruncateState(r) PROVE RanInv'
  <2>1. \A q \in Run : pc'[q] = "CHAIN" => pc[q] = "CHAIN"
    BY <1>15, <1>t DEF TruncateState, Goto
  <2> QED BY <1>15, <2>1 DEF TruncateState, RanInv, RecordedWasRun, localVars, chainVars
<1>16. ASSUME NEW r \in Run, WriteState(r) PROVE RanInv'
  <2>1. \A q \in Run : pc'[q] = "CHAIN" => pc[q] = "CHAIN"
    BY <1>16, <1>t DEF WriteState, Goto
  <2> QED BY <1>16, <2>1 DEF WriteState, RanInv, RecordedWasRun, localVars, chainVars
<1>17. ASSUME NEW r \in Run, EnterRepoStages(r) PROVE RanInv'
  BY <1>17, RanGoesOn DEF EnterRepoStages, chainVars
<1>18. ASSUME NEW r \in Run, RunRepoStage(r) PROVE RanInv'
  <2>1. CASE Goto(r, "SUMMARY")
    BY <1>18, <2>1, RanGoesOn DEF RunRepoStage, chainVars
  <2>2. CASE pc' = pc
    BY <1>18, <2>2, RanStays DEF RunRepoStage, chainVars
  <2> QED BY <1>18, <2>1, <2>2 DEF RunRepoStage
<1>19. ASSUME NEW r \in Run, ReleaseLock(r) PROVE RanInv'
  <2>1. ExitStatus(statuses[r]) \in Outside
    BY DEF ExitStatus, Outside
  <2> QED BY <1>3, <1>19, <2>1 DEF ReleaseLock
<1>20. CASE UNCHANGED vars
  BY <1>20, RanStays DEF vars, localVars, chainVars
<1> QED
  BY <1>1, <1>2, <1>4, <1>5, <1>6, <1>7, <1>8, <1>9, <1>10, <1>11, <1>12, <1>13, <1>14,
     <1>15, <1>16, <1>17, <1>18, <1>19, <1>20 DEF Next, Works

\* A fingerprint in the state file is of a content that some chain began with
\* and completed, as long as nobody edits a DLD while its chain is under way:
\* the runner fingerprints the sources after the chain.
THEOREM RecordedWasRunAlways ==
  ASSUME Staggered, ~Forces, ~EditsInRun
  PROVE  Spec => []RecordedWasRun
<1>1. Init => TypeOK /\ LockInv /\ RanInv
  BY TypeInit, LockInit, RanInit
<1>2. TypeOK /\ LockInv /\ RanInv /\ [Next]_vars => (TypeOK /\ LockInv /\ RanInv)'
  BY TypeNext, LockNext, RanNext
<1>3. RanInv => RecordedWasRun
  BY DEF RanInv
<1> QED BY <1>1, <1>2, <1>3, PTL DEF Spec

=============================================================================
