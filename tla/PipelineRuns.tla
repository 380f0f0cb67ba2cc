----------------------------- MODULE PipelineRuns -----------------------------
(***************************************************************************)
(* Runs of the pipeline runner that share a checkout:                      *)
(* tools/auto_ip_pipeline.py.                                              *)
(*                                                                         *)
(* A run takes the PID-stamped lock file, loads the state file, works      *)
(* through the IPs whose DLD fingerprint it does not find there, records   *)
(* the fingerprint of each one whose chain passes, runs the repository's   *)
(* own stages, and drops the lock.                                         *)
(* Runs are operating system processes: any of them may be killed between  *)
(* two steps, and a file is written by truncating it first.  What the      *)
(* chain of stages does to one IP is StageEngine's subject; here it is an  *)
(* outcome, and perhaps a rewritten DLD.                                   *)
(***************************************************************************)
EXTENDS Naturals, FiniteSets

CONSTANTS
  Run,          \* the processes; a pid is not reused while a lock file names it
  Ip,
  MaxVersion,   \* how many contents a DLD goes through
  MaxCrashes,   \* how many runs are killed, or raise
  Forces,       \* whether a run may be given --force-lock
  Staggered,    \* whether a run starts only when no other is at its lock
  EditsInRun,   \* whether an author edits a DLD a run is working on
  Stages,       \* the stages of scope repo, in the harness's order
  Optional,     \* those that are not required
  None, Torn    \* no file; a file that was truncated and not yet written

ASSUME RunsAssumption ==
  /\ IsFiniteSet(Run) /\ IsFiniteSet(Ip)
  /\ MaxVersion \in Nat \ {0} /\ MaxCrashes \in Nat
  /\ Forces \in BOOLEAN /\ Staggered \in BOOLEAN /\ EditsInRun \in BOOLEAN
  /\ Stages \in Nat /\ Optional \subseteq 1 .. Stages
  /\ None \notin Run \cup Ip /\ Torn \notin Run \cup Ip /\ None # Torn
  /\ Torn \notin [Ip -> 0 .. MaxVersion]

VARIABLES
  content,      \* of each IP's DLD sources: what source_fingerprint hashes
  lock,         \* LOCK_PATH: the pid in it
  file,         \* STATE_PATH: the recorded fingerprints
  pc,           \* of each run
  force,        \* its --force-lock
  state,        \* its copy of the state file
  changed,      \* the IPs it has still to work on
  subject,      \* the one it is working on
  statuses,     \* what its chains came to, for the summary
  stage,        \* the repository stage it is at
  begun,        \* history: the content that IP's chain began with
  done,         \* history: the contents whose chain passed
  crashes

chainVars == <<state, changed, subject, begun>>
gateVars == <<statuses, stage>>
localVars == <<force, gateVars, chainVars>>
vars == <<content, lock, file, pc, localVars, done, crashes>>

Version == 1 .. MaxVersion
Record == [Ip -> {0} \cup Version]      \* 0: no entry
NoRecord == [i \in Ip |-> 0]

Status == {"complete", "complete (repo-wide gate FAILED)", "awaiting", "failed"}

\* A run's exit status is 0, is not, or there is none.
Outside == {"SUCCEEDED", "FAILED", "KILLED"}
AtLock == {"CHECK_LOCK", "TRUNCATE_LOCK", "WRITE_LOCK"}
Live(r) == pc[r] \notin Outside
Inside(r) == Live(r) /\ pc[r] \notin AtLock

Init ==
  /\ content = [i \in Ip |-> 1]
  /\ lock = None /\ file = NoRecord
  /\ pc = [r \in Run |-> "KILLED"]
  /\ force = [r \in Run |-> FALSE]
  /\ state = [r \in Run |-> NoRecord] /\ changed = [r \in Run |-> {}]
  /\ subject = [r \in Run |-> None] /\ begun = [r \in Run |-> 0]
  /\ statuses = [r \in Run |-> {}] /\ stage = [r \in Run |-> 0]
  /\ done = [i \in Ip |-> {}]
  /\ crashes = 0

Goto(r, place) == pc' = [pc EXCEPT ![r] = place]

-----------------------------------------------------------------------------
(* The author and the operator.                                             *)

Edit(i) ==
  /\ content[i] < MaxVersion
  /\ EditsInRun \/ \A r \in Run : subject[r] # i
  /\ content' = [content EXCEPT ![i] = @ + 1]
  /\ UNCHANGED <<lock, file, pc, localVars, done, crashes>>

Start(r) ==
  /\ ~Live(r) /\ lock # r
  /\ Staggered => \A q \in Run : pc[q] \notin AtLock
  /\ Goto(r, "CHECK_LOCK")
  /\ \E f \in {FALSE, Forces} : force' = [force EXCEPT ![r] = f]
  /\ UNCHANGED <<content, lock, file, statuses, stage, chainVars, done, crashes>>

Forget(r) ==
  /\ statuses' = [statuses EXCEPT ![r] = {}]
  /\ stage' = [stage EXCEPT ![r] = 0]
  /\ force' = [force EXCEPT ![r] = FALSE]
  /\ state' = [state EXCEPT ![r] = NoRecord] /\ changed' = [changed EXCEPT ![r] = {}]
  /\ subject' = [subject EXCEPT ![r] = None] /\ begun' = [begun EXCEPT ![r] = 0]

\* The process is killed: no finally clause runs, the files stay as they are.
Kill(r) ==
  /\ Live(r) /\ crashes < MaxCrashes
  /\ crashes' = crashes + 1
  /\ Goto(r, "KILLED") /\ Forget(r)
  /\ UNCHANGED <<content, lock, file, done>>

-----------------------------------------------------------------------------
(* acquire_lock                                                             *)

LockIsLive == lock \in Run /\ Live(lock)

\* Fault: the refused run passes through the clause that drops the lock.
CheckLockInsideTry(r) ==
  /\ pc[r] = "CHECK_LOCK"
  /\ \/ /\ LockIsLive /\ ~force[r]
        /\ Goto(r, "FAILED") /\ Forget(r) /\ lock' = None
     \/ /\ ~LockIsLive \/ force[r]
        /\ Goto(r, "TRUNCATE_LOCK") /\ UNCHANGED <<lock, localVars>>
  /\ UNCHANGED <<content, file, done, crashes>>

\* A live pid refuses the run, unless it is forced.  A lock file without a
\* pid in it is stale.
CheckLock(r) ==
  /\ pc[r] = "CHECK_LOCK"
  /\ \/ /\ LockIsLive /\ ~force[r]
        /\ Goto(r, "FAILED") /\ Forget(r)
     \/ /\ ~LockIsLive \/ force[r]
        /\ Goto(r, "TRUNCATE_LOCK") /\ UNCHANGED localVars
  /\ UNCHANGED <<content, lock, file, done, crashes>>

TruncateLock(r) ==
  /\ pc[r] = "TRUNCATE_LOCK"
  /\ lock' = Torn /\ Goto(r, "WRITE_LOCK")
  /\ UNCHANGED <<content, file, localVars, done, crashes>>

WriteLock(r) ==
  /\ pc[r] = "WRITE_LOCK"
  /\ lock' = r /\ Goto(r, "LOAD_STATE")
  /\ UNCHANGED <<content, file, localVars, done, crashes>>

-----------------------------------------------------------------------------
(* _run                                                                     *)

\* Fault: a state file that does not parse ends the run.
LoadStateStrictly(r) ==
  /\ pc[r] = "LOAD_STATE" /\ file # Torn
  /\ state' = [state EXCEPT ![r] = file]
  /\ Goto(r, "FIND_CHANGED")
  /\ UNCHANGED <<content, lock, file, force, gateVars, changed, subject, begun, done, crashes>>

\* A state file that does not parse counts as an empty one.
LoadState(r) ==
  /\ pc[r] = "LOAD_STATE"
  /\ state' = [state EXCEPT ![r] = IF file = Torn THEN NoRecord ELSE file]
  /\ Goto(r, "FIND_CHANGED")
  /\ UNCHANGED <<content, lock, file, force, gateVars, changed, subject, begun, done, crashes>>

\* A run works on the IPs it is given by name (all of them, with --force), and
\* otherwise on those whose fingerprint it does not find.
FindChanged(r, named) ==
  /\ pc[r] = "FIND_CHANGED"
  /\ changed' = [changed EXCEPT ![r] =
                   IF named # {} THEN named ELSE { i \in Ip : state[r][i] # content[i] }]
  /\ Goto(r, "NEXT_DLD")
  /\ UNCHANGED <<content, lock, file, force, gateVars, state, subject, begun, done, crashes>>

BeginChain(r) ==
  /\ pc[r] = "NEXT_DLD"
  /\ \E i \in changed[r] :
       /\ changed' = [changed EXCEPT ![r] = @ \ {i}]
       /\ subject' = [subject EXCEPT ![r] = i]
       /\ begun' = [begun EXCEPT ![r] = content[i]]
  /\ Goto(r, "CHAIN")
  /\ UNCHANGED <<content, lock, file, force, gateVars, state, done, crashes>>

\* The normalization agent rewrites the DLD the chain goes on with.
NormalizeDld(r) ==
  /\ pc[r] = "CHAIN" /\ content[subject[r]] < MaxVersion
  /\ content' = [content EXCEPT ![subject[r]] = @ + 1]
  /\ begun' = [begun EXCEPT ![r] = IF @ = content[subject[r]] THEN @ + 1 ELSE @]
  /\ UNCHANGED <<lock, file, pc, force, gateVars, state, changed, subject, done, crashes>>

Told(r, outcomes) == \E s \in outcomes : statuses' = [statuses EXCEPT ![r] = @ \cup {s}]

\* Fault: whatever became of the chain, its content is marked processed.
ChainStopsMarked(r) ==
  /\ pc[r] = "CHAIN" /\ Goto(r, "TRUNCATE_STATE")
  /\ state' = [state EXCEPT ![r][subject[r]] = content[subject[r]]]
  /\ subject' = [subject EXCEPT ![r] = None] /\ begun' = [begun EXCEPT ![r] = 0]
  /\ Told(r, {"awaiting", "failed"})
  /\ UNCHANGED <<content, lock, file, force, stage, changed, done, crashes>>

\* "awaiting" and "failed" leave no record.
ChainStops(r) ==
  /\ pc[r] = "CHAIN" /\ Goto(r, "NEXT_DLD")
  /\ subject' = [subject EXCEPT ![r] = None] /\ begun' = [begun EXCEPT ![r] = 0]
  /\ Told(r, {"awaiting", "failed"})
  /\ UNCHANGED <<content, lock, file, force, stage, state, changed, done, crashes>>

\* Fault: the state file is not saved after each IP.
ChainCompletesUnsaved(r) ==
  /\ pc[r] = "CHAIN" /\ Goto(r, "NEXT_DLD")
  /\ done' = [done EXCEPT ![subject[r]] = @ \cup {begun[r]}]
  /\ state' = [state EXCEPT ![r][subject[r]] = content[subject[r]]]
  /\ subject' = [subject EXCEPT ![r] = None] /\ begun' = [begun EXCEPT ![r] = 0]
  /\ Told(r, {"complete"})
  /\ UNCHANGED <<content, lock, file, force, stage, changed, crashes>>

\* "complete": the fingerprint is taken of what the sources are by now.
ChainCompletes(r) ==
  /\ pc[r] = "CHAIN" /\ Goto(r, "TRUNCATE_STATE")
  /\ done' = [done EXCEPT ![subject[r]] = @ \cup {begun[r]}]
  /\ state' = [state EXCEPT ![r][subject[r]] = content[subject[r]]]
  /\ subject' = [subject EXCEPT ![r] = None] /\ begun' = [begun EXCEPT ![r] = 0]
  /\ Told(r, {"complete"})
  /\ UNCHANGED <<content, lock, file, force, stage, changed, crashes>>

\* save_state writes the whole copy.
TruncateState(r) ==
  /\ pc[r] = "TRUNCATE_STATE"
  /\ file' = Torn /\ Goto(r, "WRITE_STATE")
  /\ UNCHANGED <<content, lock, localVars, done, crashes>>

WriteState(r) ==
  /\ pc[r] = "WRITE_STATE"
  /\ file' = state[r] /\ Goto(r, "NEXT_DLD")
  /\ UNCHANGED <<content, lock, localVars, done, crashes>>

\* With something completed, unless --skip-final-gate says not to, the run goes
\* on to the repository's own stages.
EnterRepoStages(r) ==
  /\ pc[r] = "NEXT_DLD" /\ changed[r] = {}
  /\ \/ /\ "complete" \in statuses[r] /\ Stages > 0
        /\ Goto(r, "REPO_STAGE") /\ stage' = [stage EXCEPT ![r] = 1]
     \/ Goto(r, "SUMMARY") /\ UNCHANGED stage
  /\ UNCHANGED <<content, lock, file, force, statuses, chainVars, done, crashes>>

\* The first required stage that fails marks the statuses, and is the last.
RunRepoStage(r) ==
  /\ pc[r] = "REPO_STAGE"
  /\ \/ /\ IF stage[r] < Stages
              THEN stage' = [stage EXCEPT ![r] = @ + 1] /\ UNCHANGED pc
              ELSE stage' = [stage EXCEPT ![r] = 0] /\ Goto(r, "SUMMARY")
        /\ UNCHANGED statuses
     \/ /\ stage[r] \notin Optional
        /\ statuses' = [statuses EXCEPT ![r] =
                          (@ \ {"complete"}) \cup {"complete (repo-wide gate FAILED)"}]
        /\ stage' = [stage EXCEPT ![r] = 0] /\ Goto(r, "SUMMARY")
  /\ UNCHANGED <<content, lock, file, force, chainVars, done, crashes>>

\* The exit status looks at how each status starts.
ExitStatus(told) == IF "failed" \in told THEN "FAILED" ELSE "SUCCEEDED"

\* The finally clause of main unlinks the file whoever's pid is in it: at the
\* end of the run,
ReleaseLock(r) ==
  /\ pc[r] = "SUMMARY"
  /\ lock' = None /\ Goto(r, ExitStatus(statuses[r])) /\ Forget(r)
  /\ UNCHANGED <<content, file, done, crashes>>

\* and when a step of it raises.
Raise(r) ==
  /\ Inside(r) /\ crashes < MaxCrashes
  /\ crashes' = crashes + 1
  /\ lock' = None /\ Goto(r, "FAILED") /\ Forget(r)
  /\ UNCHANGED <<content, file, done>>

Works(r) ==
  \/ CheckLock(r) \/ TruncateLock(r) \/ WriteLock(r) \/ LoadState(r)
  \/ \E named \in SUBSET Ip : FindChanged(r, named)
  \/ BeginChain(r) \/ NormalizeDld(r) \/ ChainStops(r) \/ ChainCompletes(r)
  \/ TruncateState(r) \/ WriteState(r) \/ EnterRepoStages(r) \/ RunRepoStage(r)
  \/ ReleaseLock(r)

Next ==
  \/ \E i \in Ip : Edit(i)
  \/ \E r \in Run : Start(r) \/ Kill(r) \/ Raise(r) \/ Works(r)

Spec == Init /\ [][Next]_vars

\* Somebody keeps starting runs, and names no IP now and then; a run that is
\* not killed comes to its end; a chain that keeps being run passes now and
\* then.  The author is not assumed to do anything.
Fairness ==
  /\ WF_vars(\E r \in Run : Start(r))
  /\ \A r \in Run :
       /\ WF_vars(Works(r))
       /\ SF_vars(FindChanged(r, {}))
       /\ \A i \in Ip : SF_vars(subject[r] = i /\ ChainCompletes(r))
FairSpec == Spec /\ Fairness

-----------------------------------------------------------------------------
(* What the runner promises.                                                *)

\* Every variable keeps its type, and a run has a subject just while its chain
\* is under way.
TypeOK ==
  /\ content \in [Ip -> Version]
  /\ lock \in Run \cup {None, Torn} /\ file \in Record \cup {Torn}
  /\ pc \in [Run -> Outside \cup AtLock \cup {"LOAD_STATE", "FIND_CHANGED", "NEXT_DLD", "CHAIN",
                                           "REPO_STAGE", "SUMMARY",
                                           "TRUNCATE_STATE", "WRITE_STATE"}]
  /\ statuses \in [Run -> SUBSET Status] /\ stage \in [Run -> 0 .. Stages]
  /\ force \in [Run -> {FALSE, Forces}] /\ state \in [Run -> Record]
  /\ changed \in [Run -> SUBSET Ip] /\ subject \in [Run -> Ip \cup {None}]
  /\ begun \in [Run -> {0} \cup Version]
  /\ \A r \in Run : /\ subject[r] # None <=> pc[r] = "CHAIN"
                    /\ begun[r] # 0 <=> pc[r] = "CHAIN"
                    /\ stage[r] # 0 <=> pc[r] = "REPO_STAGE"
  /\ done \in [Ip -> SUBSET Version] /\ crashes \in 0 .. MaxCrashes

\* A run that is past its lock holds it: at most one run at a time works on the
\* checkout, and no other run's start, end or death takes the lock from it.
LockIsHeld == \A r \in Run : Inside(r) => lock = r

\* The copy a run carries through its chains agrees with the file whenever it
\* is not saving, so saving the whole copy forgets nothing.  Every variable keeps its
\* type.
CopyIsCurrent ==
  /\ TypeOK
  /\ \A r \in Run : pc[r] \in {"FIND_CHANGED", "NEXT_DLD", "CHAIN", "REPO_STAGE", "SUMMARY"} =>
       state[r] = (IF file = Torn THEN NoRecord ELSE file)

\* A fingerprint in the state file is of a content some chain began with and
\* completed.
RecordedWasRun ==
  file # Torn => \A i \in Ip : file[i] # 0 => file[i] \in done[i]

\* Whatever is killed when, and whatever it leaves torn or locked: the content
\* an author leaves behind is processed in the end.
EditsAreProcessed == \A i \in Ip : <>[](content[i] \in done[i])

\* The repository's stages are hard gates: a run that one of them fails does
\* not end like a run they all pass.  (It does: "complete (repo-wide gate
\* FAILED ...)" starts with "complete".  The fingerprints are saved by then,
\* and the next run finds nothing to do, and runs none of them.)
FailedGateIsReported ==
  [][\A r \in Run : pc[r] = "SUMMARY" /\ pc'[r] = "SUCCEEDED" =>
        "complete (repo-wide gate FAILED)" \notin statuses[r]]_vars

=============================================================================
