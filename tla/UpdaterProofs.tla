--------------------------- MODULE UpdaterProofs ---------------------------
(***************************************************************************)
(* Theorems about the updater agent, for every set of requests, keys and   *)
(* versions, every bound on crashes and with or without save faults.       *)
(***************************************************************************)
EXTENDS Updater, TLAPS

-----------------------------------------------------------------------------
(***************************************************************************)
(* Type correctness.                                                       *)
(***************************************************************************)
\* A starting agent settles exactly one run, and the lock is gone by then.
Settling == {"restore", "retry", "settle", "unsure"}
RecoveryOK == rcv \in Runs <=> agent \in Settling

TypeInv == TypeOK /\ RecoveryOK

\* Zero is neither a run nor a version.
LEMMA Zero == NoRun \notin Runs /\ Free \notin Runs /\ Torn \notin Runs /\ 0 \notin Versions
BY UpdaterAssumption DEF NoRun, Free, Torn

LEMMA NoRecIsRecord == NoRec \in Record
BY DEF NoRec, Record, NoVersion, RollbackStatus, Codes

\* Every edit the agent makes of a record yields a record.
LEMMA RecordEdits ==
  ASSUME NEW rec \in Record, NEW p \in Phases, NEW s \in RollbackStatus, NEW c \in Codes
  PROVE  /\ [rec EXCEPT !.phase = p] \in Record
         /\ [rec EXCEPT !.rollback = s] \in Record
         /\ [rec EXCEPT !.cancel = TRUE] \in Record
         /\ [rec EXCEPT !.phase = p, !.rollback = s, !.code = c] \in Record
BY DEF Record

LEMMA NewRunIsRecord ==
  ASSUME NEW k \in Keys, NEW t \in Versions, env \in Versions
  PROVE  NewRun(k, t) \in Record
BY DEF NewRun, Record, Phases, Early, RollbackStatus, Codes

\* The phases the agent enters, and the steps it goes to.
LEMMA PhaseNames ==
  {"PENDING", "PREFLIGHT", "BACKUP", "PULLING", "VERIFYING", "MIGRATING", "DEPLOYING",
   "HEALTHCHECK", "ROLLING_BACK", "COMPLETED", "FAILED", "MANUAL_INTERVENTION_REQUIRED",
   "CANCELLED"} \subseteq Phases
BY DEF Phases, Early, Terminal

\* Saving a record, moving to a step and touching the host keep the types.
LEMMA SaveTypes ==
  ASSUME TypeOK, NEW r \in Runs, NEW rec \in Record, Save(r, rec)
  PROVE  mem' \in [Runs -> Record] /\ stored' \in [Runs -> Record]
BY DEF TypeOK, Save

LEMMA SaveFailsTypes ==
  ASSUME TypeOK, NEW r \in Runs, NEW rec \in Record, NEW s \in Steps, SaveFails(r, rec, s)
  PROVE  pc' \in [Runs -> Steps] /\ stored' \in [Runs -> Record]
BY DEF TypeOK, SaveFails, Goto

LEMMA GotoTypes ==
  ASSUME TypeOK, NEW r \in Runs, NEW s \in Steps, Goto(r, s)
  PROVE  pc' \in [Runs -> Steps]
BY DEF TypeOK, Goto

LEMMA DidTypes ==
  ASSUME TypeOK, NEW r \in Runs, NEW what \in {"migrate", "up"}, Did(r, what)
  PROVE  effects' \in [Runs -> SUBSET {"migrate", "up"}]
BY DEF TypeOK, Did

LEMMA PartialUpsTypes == TypeOK => PartialUps \subseteq SUBSET (Versions \cup {Truncated})
BY DEF TypeOK, PartialUps

LEMMA InitTypeInv == Init => TypeInv
<1> SUFFICES ASSUME Init PROVE TypeInv
  OBVIOUS
<1>1. "idle" \in Steps
  BY DEF Steps, Asking
<1>2. QED
  BY <1>1, Zero, NoRecIsRecord
  DEF Init, TypeInv, TypeOK, RecoveryOK, Settling, NoRun, Free, NoVersion, Truncated

LEMMA StopTypeInv ==
  ASSUME TypeInv, Stop, lock' \in Runs \cup {Free, Torn}, env' \in Versions \cup {Truncated},
         running' \in SUBSET (Versions \cup {Truncated}),
         effects' \in [Runs -> SUBSET {"migrate", "up"}], crashes' \in Nat
  PROVE  TypeInv'
<1>1. "lost" \in Steps
  BY DEF Steps, Over
<1>2. QED
  BY <1>1, Zero, NoRecIsRecord
  DEF TypeInv, TypeOK, RecoveryOK, Settling, Stop, NoRun, NoVersion

LEMMA NextTypeInv == TypeInv /\ [Next]_vars => TypeInv'
<1> SUFFICES ASSUME TypeInv, [Next]_vars PROVE TypeInv'
  OBVIOUS
<1> USE DEF TypeInv, RecoveryOK, At, disk, host, local, ghosts
<1>1. ASSUME NEW r \in Runs, NEW k \in Keys, NEW t \in Versions, Request(r, k, t)
      PROVE  TypeInv'
  <2>1. {"done", "refused", "found"} \subseteq Steps
    BY DEF Steps, Owning, Asking, Over
  <2>2. pc' \in [Runs -> Steps]
    BY <1>1, <2>1, GotoTypes DEF Request
  <2>3. mem' \in [Runs -> Record]
    BY <1>1, NewRunIsRecord DEF Request, TypeOK
  <2>4. QED
    BY <1>1, <2>2, <2>3 DEF Request, TypeOK
<1>2. ASSUME NEW r \in Runs, Install(r) PROVE TypeInv'
  <2>1. {"torn", "wait", "locked", "done", "refused", "start", "leaked"} \subseteq Steps
    BY DEF Steps, Owning, Asking, Over
  <2>2. CASE AcquireLock(r) \/ WriteLock(r) \/ AwaitDuplicate(r)
    BY <2>1, <2>2, GotoTypes DEF AcquireLock, WriteLock, AwaitDuplicate, TypeOK
  <2>3. CASE SaveFirst(r)
    <3>1. mem[r] \in Record
      BY DEF TypeOK
    <3>2. QED
      BY <2>1, <2>3, <3>1, GotoTypes, SaveTypes, SaveFailsTypes DEF SaveFirst, TypeOK
  <2>4. QED
    BY <1>2, <2>2, <2>3 DEF Install
<1>3. ASSUME NEW r \in Runs, Execute(r) PROVE TypeInv'
  <2> USE <1>3
  <2>0. /\ Owning \subseteq Steps /\ Over \subseteq Steps
        /\ {"release", "check", "poll1", "backup", "dump", "swap", "pull0", "pull", "poll2",
            "verify0", "verify", "migrate0", "migrate", "deploy", "up", "health0", "health",
            "complete", "prune", "catch", "rollback", "restore", "reup", "rehealth",
            "rolledback", "rollbackfailed", "fail", "manual", "reject", "cancel",
            "unlock"} \subseteq Owning
    BY DEF Steps, Owning
  <2>1. ASSUME NEW step, NEW phase \in Phases, NEW next \in Owning, Enter(r, step, phase, next)
        PROVE  TypeInv'
    <3>0. {"catch", "rollbackfailed"} \subseteq Owning
      BY <2>0
    <3>1. [mem[r] EXCEPT !.phase = phase] \in Record
      BY RecordEdits DEF TypeOK, RollbackStatus, Codes
    <3>2. QED
      BY <2>0, <2>1, <3>0, <3>1, SaveTypes, SaveFailsTypes, GotoTypes DEF Enter, TypeOK
  <2>2. CASE EnterPhase(r)
    BY <2>0, <2>1, <2>2, PhaseNames DEF EnterPhase
  <2>3. CASE FetchRelease(r)
    <3>1. ASSUME NEW s \in {"AVAILABLE", "UNSAFE"}
          PROVE  [mem[r] EXCEPT !.rollback = s] \in Record
      BY RecordEdits, PhaseNames DEF TypeOK, RollbackStatus, Codes
    <3>2. CASE Goto(r, "manual") /\ UNCHANGED <<stored, mem>>
      BY <2>0, <2>3, <3>2, GotoTypes DEF FetchRelease, TypeOK
    <3>3. ASSUME NEW s \in {"AVAILABLE", "UNSAFE"}, NEW rec, rec = [mem[r] EXCEPT !.rollback = s],
                 mem' = [mem EXCEPT ![r] = rec],
                 \/ stored' = [stored EXCEPT ![r] = rec] /\ Goto(r, "check")
                 \/ SaveFails(r, rec, "catch")
          PROVE  mem' \in [Runs -> Record] /\ stored' \in [Runs -> Record] /\ pc' \in [Runs -> Steps]
      <4>1. rec \in Record
        BY <3>1, <3>3
      <4>2. QED
        BY <2>0, <3>3, <4>1, SaveFailsTypes, GotoTypes DEF TypeOK
    <3>4. QED
      BY <2>3, <3>2, <3>3 DEF FetchRelease, TypeOK
  <2>4. CASE Check(r) \/ Pull(r) \/ PruneBackups(r) \/ ReleaseLock(r)
    BY <2>0, <2>4, GotoTypes DEF Check, Pull, PruneBackups, ReleaseLock, TypeOK, Over
  <2>5. ASSUME NEW step, NEW next \in Owning, Poll(r, step, next) PROVE TypeInv'
    BY <2>0, <2>5, GotoTypes DEF Poll, CheckpointVersion, TypeOK, Truncated, NoVersion
  <2>6. CASE CancelRun(r)
    <3>1. [stored[r] EXCEPT !.phase = "CANCELLED"] \in Record
      BY RecordEdits, PhaseNames DEF TypeOK, RollbackStatus, Codes
    <3>2. QED
      BY <2>0, <2>6, <3>1, SaveFailsTypes, GotoTypes DEF CancelRun, TypeOK
  <2>7. CASE Backup(r) \/ VerifyImages(r)
    BY <2>0, <2>7, GotoTypes, SaveTypes DEF Backup, VerifyImages, TypeOK
  <2>8. CASE Migrate(r)
    BY <2>0, <2>8, GotoTypes, SaveTypes, DidTypes DEF Migrate, TypeOK
  <2>9. CASE SwapVersion(r)
    <3>1. mem[r].target \in Versions \cup {Truncated}
      BY DEF TypeOK, Record, NoVersion, Truncated
    <3>2. QED
      BY <2>0, <2>9, <3>1, GotoTypes DEF SwapVersion, TypeOK, NoVersion, Truncated
  <2>10. ASSUME NEW step, NEW next \in Owning, ComposeUp(r, step, next) PROVE TypeInv'
    BY <2>0, <2>10, GotoTypes, DidTypes DEF ComposeUp, TypeOK
  <2>11. ASSUME NEW step, NEW version, NEW next \in Owning, HealthPasses(r, step, version, next)
         PROVE  TypeInv'
    BY <2>0, <2>11, GotoTypes DEF HealthPasses, TypeOK
  <2>12. CASE Throw(r) \/ RollbackThrows(r)
    <3>1. effects' \in [Runs -> SUBSET {"migrate", "up"}]
      BY <2>12, DidTypes DEF Throw, RollbackThrows, TypeOK
    <3>2. running' \in SUBSET (Versions \cup {Truncated})
      BY <2>12, PartialUpsTypes DEF Throw, RollbackThrows, TypeOK
    <3>3. QED
      BY <2>0, <2>12, <3>1, <3>2, GotoTypes DEF Throw, RollbackThrows, TypeOK
  <2>13. CASE Catch(r) \/ RestoreVersion(r)
    <3>1. pc' \in [Runs -> Steps]
      BY <2>0, <2>13, GotoTypes DEF Catch, RestoreVersion
    <3>2. env' \in Versions \cup {Truncated}
      BY <2>13 DEF Catch, RestoreVersion, TypeOK, Truncated, NoVersion
    <3>3. QED
      BY <2>13, <3>1, <3>2 DEF Catch, RestoreVersion, TypeOK
  <2>14. ASSUME NEW step, NEW phase \in Phases, NEW rollback \in RollbackStatus,
                NEW code \in Codes, NEW next \in Owning,
                Settle(r, step, phase, rollback, code, next)
         PROVE  TypeInv'
    <3>1. [mem[r] EXCEPT !.phase = phase, !.rollback = rollback, !.code = code] \in Record
      BY RecordEdits DEF TypeOK
    <3>2. QED
      BY <2>0, <2>14, <3>1, SaveFailsTypes, GotoTypes DEF Settle, Thrown, Unsaved, TypeOK
  <2>15. CASE SettleRun(r)
    <3>1. mem[r].rollback \in RollbackStatus
      BY DEF TypeOK, Record
    <3>2. /\ {"NOT_REQUIRED", "UNSAFE", "COMPLETED", "FAILED"} \subseteq RollbackStatus
          /\ {"NONE", "STEP_ERROR", "ROLLBACK_FAILED"} \subseteq Codes
      BY DEF RollbackStatus, Codes
    <3>3. QED
      BY <2>0, <2>14, <2>15, <3>1, <3>2, PhaseNames DEF SettleRun
  <2>16. CASE PruneRuns(r)
    BY <2>0, <2>16, GotoTypes, NoRecIsRecord DEF PruneRuns, TypeOK, Over
  <2>17. CASE Reject(r)
    BY <2>17, StopTypeInv DEF Reject, TypeOK
  <2>18. QED
    BY <2>0, <2>2, <2>3, <2>4, <2>5, <2>6, <2>7, <2>8, <2>9, <2>10, <2>11, <2>12, <2>13,
       <2>15, <2>16, <2>17
    DEF Execute
<1>4. ASSUME NEW r \in Runs, StreamLog(r) PROVE TypeInv'
  BY <1>4, SaveTypes DEF StreamLog, TypeOK
<1>5. ASSUME NEW r \in Runs, CancelLoad(r) \/ CancelSave(r) PROVE TypeInv'
  <2>1. [pend[r] EXCEPT !.cancel = TRUE] \in Record
    BY RecordEdits, PhaseNames DEF TypeOK, RollbackStatus, Codes
  <2>2. CASE CancelLoad(r)
    BY <2>2 DEF CancelLoad, TypeOK
  <2>3. CASE CancelSave(r)
    <3>1. {q \in {r} : pend[q].phase # stored[q].phase} \subseteq Runs
      OBVIOUS
    <3>2. overwritten' \in SUBSET Runs
      BY <2>3, <3>1 DEF CancelSave, TypeOK
    <3>3. QED
      BY <2>1, <2>3, <3>2, NoRecIsRecord DEF CancelSave, TypeOK
  <2>4. QED
    BY <1>5, <2>2, <2>3
<1>6. CASE Boot
  <2>1. CASE TakeInterruptedRun
    BY <2>1, Zero
    DEF TakeInterruptedRun, TakenRun, RecoveryStep, Settling, NoRun, Free, Torn, TypeOK
  <2>2. CASE RecoverVersion
    <3>1. stored[rcv].installed \in Versions \cup {Truncated}
      BY <2>2 DEF RecoverVersion, Settling, TypeOK, Record, NoVersion, Truncated
    <3>2. QED
      BY <2>2, <3>1 DEF RecoverVersion, Settling, TypeOK
  <2>3. ASSUME rcv \in Runs, NEW phase \in Phases, NEW rollback \in RollbackStatus,
               NEW code \in Codes, Outcome(phase, rollback, code)
        PROVE  stored' \in [Runs -> Record]
    <3>1. [stored[rcv] EXCEPT !.phase = phase, !.rollback = rollback, !.code = code] \in Record
      BY <2>3, RecordEdits DEF TypeOK
    <3>2. QED
      BY <2>3, <3>1 DEF Outcome, TypeOK
  <2>4. CASE Recover \/ OutcomeUnlogged \/ OutcomeRevised
    <3>1. rcv \in Runs
      BY <2>4 DEF Recover, OutcomeUnlogged, OutcomeRevised, HealthyTarget, HealthyAgain,
                  Healthy, Settling
    <3>2. stored[rcv].rollback \in RollbackStatus
      BY <3>1 DEF TypeOK, Record
    <3>3. /\ {"UNSAFE", "COMPLETED"} \subseteq RollbackStatus
          /\ {"SAFE_TO_RETRY", "RESTART_UNSURE", "NONE", "ROLLBACK_RECOVERED"} \subseteq Codes
      BY DEF RollbackStatus, Codes
    <3>4. ASSUME NEW phase \in Phases, NEW rollback \in RollbackStatus, NEW code \in Codes,
                 Recovered(phase, rollback, code)
          PROVE  TypeInv'
      <4>1. CASE CanTransition(stored[rcv].phase, phase)
        <5>1. stored' \in [Runs -> Record]
          BY <2>3, <3>1, <3>4, <4>1 DEF Recovered
        <5>2. QED
          BY <3>4, <4>1, <5>1, Zero DEF Recovered, TypeOK, Settling, NoRun
      <4>2. CASE ~CanTransition(stored[rcv].phase, phase)
        BY <3>4, <4>2, StopTypeInv DEF Recovered, TypeOK
      <4>3. QED
        BY <4>1, <4>2
    <3>5. CASE Recover
      BY <3>2, <3>3, <3>4, <3>5, PhaseNames DEF Recover
    <3>6. CASE OutcomeUnlogged \/ OutcomeRevised
      <4>1. stored' \in [Runs -> Record]
        BY <2>3, <3>1, <3>2, <3>3, <3>6, PhaseNames DEF OutcomeUnlogged, OutcomeRevised
      <4>2. QED
        BY <3>1, <3>6, <4>1, Zero DEF OutcomeUnlogged, OutcomeRevised, TypeOK, Settling, NoRun
    <3>7. QED
      BY <2>4, <3>5, <3>6
  <2>5. CASE RecoveryFails
    BY <2>5, StopTypeInv DEF RecoveryFails, TypeOK
  <2>6. QED
    BY <1>6, <2>1, <2>2, <2>4, <2>5 DEF Boot
<1>7. CASE Crash \/ StreamLogFails
  <2>1. Die /\ crashes' \in Nat
    BY <1>7 DEF Crash, StreamLogFails, TypeOK
  <2>2. running' \in SUBSET (Versions \cup {Truncated})
    BY <2>1, PartialUpsTypes DEF Die, TypeOK
  <2>3. effects' \in [Runs -> SUBSET {"migrate", "up"}]
    BY <2>1 DEF Die, TypeOK
  <2>4. env' \in Versions \cup {Truncated}
    BY <2>1 DEF Die, TypeOK
  <2>5. QED
    BY <2>1, <2>2, <2>3, <2>4, StopTypeInv DEF Die, TypeOK
<1>8. CASE UNCHANGED vars
  BY <1>8 DEF vars, TypeOK
<1>9. QED
  BY <1>1, <1>2, <1>3, <1>4, <1>5, <1>6, <1>7, <1>8 DEF Next

\* Every variable keeps its type; on the way, a starting agent always knows the run it
\* settles (AgentStore and UpdaterAgent.initialize).
THEOREM TypeCorrect == Spec => []TypeOK
<1>1. TypeInv => TypeOK
  BY DEF TypeInv
<1>2. QED
  BY <1>1, InitTypeInv, NextTypeInv, PTL DEF Spec

-----------------------------------------------------------------------------
(***************************************************************************)
(* Mutual exclusion on the host. HostLock alone is not inductive: a         *)
(* starting agent removes the lock, which is right only because nothing    *)
(* executes by then (Quiet).                                               *)
(***************************************************************************)
Quiet == agent = "ready" \/ \A r \in Runs : pc[r] \notin Owning

HostInv == TypeInv /\ HostLock /\ Quiet

\* The steps that own the host past the writing of the lock, and those that do not own it.
Working == Owning \ {"torn"}
LEMMA StepNames ==
  /\ "torn" \in Owning /\ "unlock" \in Working
  /\ {"locked", "start", "release", "check", "poll1", "backup", "dump", "swap", "pull0", "pull",
      "poll2", "verify0", "verify", "migrate0", "migrate", "deploy", "up", "health0", "health",
      "complete", "prune", "catch", "rollback", "restore", "reup", "rehealth", "rolledback",
      "rollbackfailed", "fail", "manual", "reject", "cancel"} \subseteq Working
  /\ Asking \cap Owning = {} /\ Over \cap Owning = {}
  /\ Streaming \subseteq Working
BY DEF Working, Owning, Asking, Over, Streaming

\* A run that owns the host and goes on, or leaves the lock behind, disturbs no other.
LEMMA WorkingStep ==
  ASSUME HostLock, Quiet, TypeOK, NEW r \in Runs, pc[r] \in Working, agent = "ready",
         NEW s \in Working \cup Over, Goto(r, s), lock' = lock, agent' = agent
  PROVE  HostLock' /\ Quiet'
BY StepNames DEF HostLock, Quiet, TypeOK, Goto, Working

\* Neither does one that does not own it and stays out.
LEMMA IdleStep ==
  ASSUME HostLock, Quiet, TypeOK, NEW r \in Runs, agent = "ready", pc[r] \notin Owning,
         NEW s, s \notin Owning, Goto(r, s), lock' = lock, agent' = agent
  PROVE  HostLock' /\ Quiet'
BY DEF HostLock, Quiet, TypeOK, Goto

LEMMA SameStep ==
  ASSUME HostLock, Quiet, pc' = pc, lock' = lock, agent' = agent
  PROVE  HostLock' /\ Quiet'
BY DEF HostLock, Quiet

\* A process that stops leaves nobody who owns the host.
LEMMA StopHostLock == ASSUME TypeOK, Stop PROVE HostLock' /\ Quiet'
<1>1. \A r \in Runs : pc'[r] \notin Owning
  BY StepNames DEF Stop, TypeOK, Asking, Over, Owning
<1>2. QED
  BY <1>1 DEF HostLock, Quiet

LEMMA NextHostInv == HostInv /\ [Next]_vars => HostInv'
<1> SUFFICES ASSUME HostInv, [Next]_vars PROVE HostLock' /\ Quiet'
  BY NextTypeInv DEF HostInv
<1> USE DEF HostInv, TypeInv, disk, local
<1>1. ASSUME NEW r \in Runs, NEW k \in Keys, NEW t \in Versions, Request(r, k, t)
      PROVE  HostLock' /\ Quiet'
  <2>1. {"idle", "done", "refused", "found"} \cap Owning = {}
    BY DEF Owning
  <2>2. QED
    BY <1>1, <2>1, IdleStep DEF Request, At
<1>2. ASSUME NEW r \in Runs, Install(r) PROVE HostLock' /\ Quiet'
  <2>1. {"found", "wait", "done", "refused"} \cap Owning = {}
    BY DEF Owning
  <2>2. CASE AcquireLock(r) /\ LockFree
    <3>1. \A q \in Runs : pc[q] \notin Owning
      BY <2>2, Zero DEF LockFree, HostLock, Free, Torn
    <3>2. QED
      BY <2>2, <3>1 DEF AcquireLock, At, Goto, HostLock, Quiet, TypeOK
  <2>3. CASE AcquireLock(r) /\ ~LockFree
    BY <2>1, <2>3, IdleStep DEF AcquireLock, At
  <2>4. CASE WriteLock(r)
    <3>1. "leaked" \notin Owning
      BY DEF Owning
    <3>2. QED
      BY <2>4, <3>1, StepNames DEF WriteLock, At, Goto, HostLock, Quiet, TypeOK, Working
  <2>5. CASE AwaitDuplicate(r)
    BY <2>1, <2>5, IdleStep DEF AwaitDuplicate, At
  <2>6. CASE SaveFirst(r)
    <3>1. "leaked" \in Over
      BY DEF Over
    <3>2. QED
      BY <2>6, <3>1, StepNames, WorkingStep DEF SaveFirst, SaveFails, At
  <2>7. QED
    BY <1>2, <2>2, <2>3, <2>4, <2>5, <2>6 DEF Install
<1>3. ASSUME NEW r \in Runs, Execute(r) PROVE HostLock' /\ Quiet'
  <2> USE <1>3, StepNames, WorkingStep DEF At, SaveFails
  <2>1. CASE EnterPhase(r)
    BY <2>1 DEF EnterPhase, Enter
  <2>2. CASE FetchRelease(r) \/ Check(r) \/ Poll(r, "poll1", "backup")
              \/ Poll(r, "poll2", "verify0") \/ CancelRun(r)
    BY <2>2 DEF FetchRelease, Check, Poll, CancelRun
  <2>3. CASE Backup(r) \/ SwapVersion(r) \/ Pull(r) \/ VerifyImages(r) \/ Migrate(r)
    BY <2>3 DEF Backup, SwapVersion, Pull, VerifyImages, Migrate
  <2>4. CASE \/ ComposeUp(r, "up", "health0") \/ ComposeUp(r, "reup", "rehealth")
             \/ HealthPasses(r, "health", mem[r].target, "complete")
             \/ HealthPasses(r, "rehealth", mem[r].installed, "rolledback")
    BY <2>4 DEF ComposeUp, HealthPasses
  <2>5. CASE RestoreVersion(r) \/ Throw(r) \/ RollbackThrows(r) \/ Catch(r)
    BY <2>5 DEF RestoreVersion, Throw, RollbackThrows, Catch
  <2>6. CASE SettleRun(r) \/ PruneBackups(r)
    BY <2>6 DEF SettleRun, Settle, Thrown, Unsaved, PruneBackups
  <2>7. CASE ReleaseLock(r)
    BY <2>7 DEF ReleaseLock, Goto, HostLock, Quiet, TypeOK, Over, Working
  <2>8. CASE PruneRuns(r)
    BY <2>8, IdleStep DEF PruneRuns, Over
  <2>9. CASE Reject(r)
    BY <2>9, StopHostLock DEF Reject
  <2>10. QED
    BY <2>1, <2>2, <2>3, <2>4, <2>5, <2>6, <2>7, <2>8, <2>9 DEF Execute
<1>4. ASSUME NEW r \in Runs, StreamLog(r) PROVE HostLock' /\ Quiet'
  BY <1>4, SameStep DEF StreamLog
<1>5. ASSUME NEW r \in Runs, CancelLoad(r) \/ CancelSave(r) PROVE HostLock' /\ Quiet'
  BY <1>5, SameStep DEF CancelLoad, CancelSave
<1>6. CASE Boot
  <2>1. CASE \/ TakeInterruptedRun \/ RecoverVersion
             \/ (Recover /\ ~Stop) \/ OutcomeUnlogged \/ OutcomeRevised
    <3>1. \A r \in Runs : pc'[r] \notin Owning
      BY <2>1
      DEF TakeInterruptedRun, RecoverVersion, Recover, Recovered, OutcomeUnlogged,
          OutcomeRevised, HealthyTarget, HealthyAgain, Healthy, Quiet
    <3>2. QED
      BY <3>1 DEF HostLock, Quiet
  <2>2. CASE RecoveryFails \/ (Recover /\ Stop)
    BY <2>2, StopHostLock DEF RecoveryFails
  <2>3. QED
    BY <1>6, <2>1, <2>2 DEF Boot
<1>7. CASE Crash \/ StreamLogFails
  BY <1>7, StopHostLock DEF Crash, StreamLogFails, Die
<1>8. CASE UNCHANGED vars
  BY <1>8, SameStep DEF vars
<1>9. QED
  BY <1>1, <1>2, <1>3, <1>4, <1>5, <1>6, <1>7, <1>8 DEF Next

\* Two installations never own the host at once, and the lock file on disk names the owner,
\* through every crash, restart and failing save (acquireLock, releaseLock and
\* takeInterruptedRun of AgentStore).
THEOREM MutualExclusion == Spec => []HostLock
<1>1. Init => HostInv
  <2>1. "idle" \notin Owning
    BY DEF Owning
  <2>2. QED
    BY <2>1, InitTypeInv DEF Init, HostInv, HostLock, Quiet
<1>2. HostInv => HostLock
  BY DEF HostInv
<1>3. QED
  BY <1>1, <1>2, NextHostInv, PTL DEF Spec
=============================================================================
