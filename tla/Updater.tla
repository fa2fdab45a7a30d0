------------------------------ MODULE Updater ------------------------------
(***************************************************************************)
(* The host updater agent (apps/updater): one process that installs        *)
(* releases, keeps one JSON record per run on disk, guards the host with a *)
(* lock file, honours cancellation at two checkpoints and, when it starts, *)
(* settles the run a crash interrupted.                                    *)
(*                                                                         *)
(* An install request is a run from the moment it is received, so pc[r] is *)
(* first the progress of install() and then that of execute(). What the    *)
(* executor holds in memory (mem, orig) is kept apart from what is on disk *)
(* (stored, lock, env): a crash loses the first, and a cancellation only   *)
(* ever sees the second.                                                   *)
(***************************************************************************)
EXTENDS Integers, FiniteSets

CONSTANTS
  Runs,        \* install requests; their ids grow in order of creation
  Keys,        \* idempotency keys
  Versions,    \* releases, ordered
  Cancels,     \* the runs for which somebody may ask for cancellation
  MaxCrashes,  \* bound: crashes of the agent
  KeepRuns,    \* terminal records kept by pruneRuns (200 in the code)
  SaveFaults   \* whether a write of a run record can fail (disk full, ...)

ASSUME UpdaterAssumption ==
  /\ Runs \subseteq Nat \ {0}
  /\ Keys \subseteq Nat \ {0}
  /\ Versions \subseteq Nat \ {0}
  /\ Versions # {}
  /\ Cancels \subseteq Runs
  /\ MaxCrashes \in Nat
  /\ KeepRuns \in Nat \ {0}
  /\ SaveFaults \in BOOLEAN

VARIABLES
  agent,      \* "down", "ready", or what a starting agent still has to do
  rcv,        \* the interrupted run a starting agent is settling, or NoRun
  lock,       \* update.lock: Free, Torn (created, still empty) or a run
  env,        \* PE_COMMUNITY_VERSION in the deployment's .env, or Truncated
  running,    \* the versions the application's containers run
  effects,    \* what each run has begun to do to the database and the containers
  stored,     \* runs/<id>.json
  pend,       \* the record a cancellation request has loaded and not saved
  pc,         \* progress of each install request and of its execution
  mem,        \* the executor's own copy of its run
  orig,       \* the executor's originalEnv
  crashes,    \* crashes so far
  abandoned,  \* runs whose recovery was itself cut short
  overwritten \* runs whose record a cancellation has put out of order

disk == <<lock, env, stored>>
host == <<running, effects>>
local == <<pc, mem, orig>>
ghosts == <<crashes, abandoned, overwritten>>
vars == <<agent, rcv, lock, env, running, effects, stored, pend, pc, mem, orig,
          crashes, abandoned, overwritten>>

NoRun == 0
Free == 0
Torn == -1
NoVersion == 0
Truncated == 0

(***************************************************************************)
(* Run records and their phases.                                           *)
(***************************************************************************)
Terminal == {"COMPLETED", "FAILED", "MANUAL_INTERVENTION_REQUIRED", "CANCELLED"}
Early == {"PENDING", "PREFLIGHT", "BACKUP", "PULLING", "VERIFYING"}
Phases == Early \cup {"MIGRATING", "DEPLOYING", "HEALTHCHECK", "ROLLING_BACK"} \cup Terminal

Transitions == [p \in Phases |->
  CASE p = "PENDING"      -> {"PREFLIGHT", "CANCELLED", "FAILED"}
    [] p = "PREFLIGHT"    -> {"BACKUP", "CANCELLED", "FAILED", "MANUAL_INTERVENTION_REQUIRED"}
    [] p = "BACKUP"       -> {"PULLING", "FAILED", "MANUAL_INTERVENTION_REQUIRED"}
    [] p = "PULLING"      -> {"VERIFYING", "CANCELLED", "FAILED", "MANUAL_INTERVENTION_REQUIRED"}
    [] p = "VERIFYING"    -> {"MIGRATING", "FAILED", "MANUAL_INTERVENTION_REQUIRED"}
    [] p = "MIGRATING"    -> {"DEPLOYING", "FAILED", "MANUAL_INTERVENTION_REQUIRED"}
    [] p = "DEPLOYING"    -> {"HEALTHCHECK", "ROLLING_BACK", "FAILED", "MANUAL_INTERVENTION_REQUIRED"}
    [] p = "HEALTHCHECK"  -> {"COMPLETED", "ROLLING_BACK", "FAILED", "MANUAL_INTERVENTION_REQUIRED"}
    [] p = "ROLLING_BACK" -> {"FAILED", "MANUAL_INTERVENTION_REQUIRED"}
    [] OTHER              -> {}]

\* Mutant: transitionRun without its check.
CanTransitionUnchecked(from, to) == TRUE
CanTransition(from, to) == to \in Transitions[from]

CanCancel(phase) == phase \in {"PENDING", "PREFLIGHT", "PULLING"}

RollbackStatus == {"NOT_REQUIRED", "AVAILABLE", "UNSAFE", "COMPLETED", "FAILED"}
Codes == {"NONE", "STEP_ERROR", "SAFE_TO_RETRY", "RESTART_UNSURE", "ROLLBACK_FAILED",
          "ROLLBACK_RECOVERED"}

\* A record, or the absence of one (NoRec).
Record == [key: Keys \cup {0}, installed: Versions \cup {NoVersion},
           target: Versions \cup {NoVersion}, phase: Phases \cup {"NONE"},
           cancel: BOOLEAN, rollback: RollbackStatus, code: Codes]
NoRec == [key |-> 0, installed |-> NoVersion, target |-> NoVersion, phase |-> "NONE",
          cancel |-> FALSE, rollback |-> "NOT_REQUIRED", code |-> "NONE"]
Exists(rec) == rec.phase # "NONE"
Unfinished(rec) == Exists(rec) /\ rec.phase \notin Terminal

\* findByIdempotencyKey: some record on disk carries the key.
KeyStored(k) == \E q \in Runs : Exists(stored[q]) /\ stored[q].key = k

(***************************************************************************)
(* Progress of one request. Before the lock is taken nothing is owned; from *)
(* "torn" to "unlock" the run owns the host; the rest is over.              *)
(***************************************************************************)
Asking == {"idle", "found", "wait"}
Owning == {"torn", "locked", "start", "release", "check", "poll1", "backup", "dump", "swap",
           "pull0", "pull", "poll2", "verify0", "verify", "migrate0", "migrate", "deploy", "up",
           "health0", "health", "complete", "prune", "cancel", "catch", "fail", "manual",
           "rollback", "restore", "reup", "rehealth", "rolledback", "rollbackfailed", "reject",
           "unlock"}
Over == {"prune_runs", "done", "refused", "leaked", "lost"}
Steps == Asking \cup Owning \cup Over

\* Steps whose command streams its output into the run's log while it runs.
Streaming == {"pull", "verify", "migrate", "up"}
\* Steps in the middle of rewriting .env.
WritingEnv == {"swap", "poll2", "catch", "restore"}

-----------------------------------------------------------------------------
Init ==
  /\ agent = "down" /\ rcv = NoRun /\ lock = Free
  /\ env \in Versions /\ running = {env}
  /\ effects = [r \in Runs |-> {}]
  /\ stored = [r \in Runs |-> NoRec] /\ pend = [r \in Runs |-> NoRec]
  /\ pc = [r \in Runs |-> "idle"]
  /\ mem = [r \in Runs |-> NoRec] /\ orig = [r \in Runs |-> NoVersion]
  /\ crashes = 0 /\ abandoned = {} /\ overwritten = {}

At(r, step) == agent = "ready" /\ pc[r] = step
Goto(r, step) == pc' = [pc EXCEPT ![r] = step]
\* saveRun, and every log line, writes the executor's copy over the record. One that fails
\* may have written it: the state file and the log line come after the record.
Save(r, rec) == mem' = [mem EXCEPT ![r] = rec] /\ stored' = [stored EXCEPT ![r] = rec]
SaveFails(r, rec, next) ==
  SaveFaults /\ Goto(r, next) /\ stored' \in {stored, [stored EXCEPT ![r] = rec]}

(***************************************************************************)
(* install(): look the key up, compare versions, take the lock, save.      *)
(***************************************************************************)
NewRun(k, t) == [key |-> k, installed |-> env, target |-> t, phase |-> "PENDING",
                 cancel |-> FALSE, rollback |-> "NOT_REQUIRED", code |-> "NONE"]

Request(r, k, t) ==
  /\ At(r, "idle") /\ \A q \in Runs : q < r => pc[q] # "idle"
  /\ IF KeyStored(k) THEN Goto(r, "done") /\ UNCHANGED mem
     ELSE IF env = Truncated \/ t <= env THEN Goto(r, "refused") /\ UNCHANGED mem
     ELSE Goto(r, "found") /\ mem' = [mem EXCEPT ![r] = NewRun(k, t)]
  /\ UNCHANGED <<agent, rcv, disk, host, pend, orig, ghosts>>

\* Mutant: the lock file opened without the exclusive flag.
LockFreeAlways == TRUE
LockFree == lock = Free

\* open(path, 'wx') decides who owns the host; the content follows.
AcquireLock(r) ==
  /\ At(r, "found")
  /\ IF LockFree THEN lock' = Torn /\ Goto(r, "torn") ELSE lock' = lock /\ Goto(r, "wait")
  /\ UNCHANGED <<agent, rcv, env, stored, host, pend, mem, orig, ghosts>>

WriteLock(r) ==
  /\ At(r, "torn")
  /\ \/ lock' = r /\ Goto(r, "locked")
     \/ SaveFaults /\ lock' = lock /\ Goto(r, "leaked")
  /\ UNCHANGED <<agent, rcv, env, stored, host, pend, mem, orig, ghosts>>

\* Up to ten lookups for a concurrent duplicate, then UPDATE_IN_PROGRESS.
AwaitDuplicate(r) ==
  /\ At(r, "wait")
  /\ Goto(r, IF KeyStored(mem[r].key) THEN "done" ELSE "refused")
  /\ UNCHANGED <<agent, rcv, disk, host, pend, mem, orig, ghosts>>

\* If the first save fails nobody executes the run, and nobody frees the lock.
SaveFirst(r) ==
  /\ At(r, "locked")
  /\ \/ Save(r, mem[r]) /\ Goto(r, "start")
     \/ SaveFails(r, mem[r], "leaked") /\ UNCHANGED mem
  /\ UNCHANGED <<agent, rcv, lock, env, host, pend, orig, ghosts>>

(***************************************************************************)
(* execute(): phase() enters a phase and saves it, a step succeeds or      *)
(* throws to "catch", a streaming step may log meanwhile.                  *)
(***************************************************************************)
\* Mutant: a phase that is entered in memory only.
EnterUnsaved(r, step, phase, next) ==
  /\ At(r, step) /\ CanTransition(mem[r].phase, phase)
  /\ mem' = [mem EXCEPT ![r].phase = phase] /\ Goto(r, next)
  /\ UNCHANGED <<agent, rcv, disk, host, pend, orig, ghosts>>
Enter(r, step, phase, next) ==
  /\ At(r, step)
  /\ LET rec == [mem[r] EXCEPT !.phase = phase]
         failed == IF step = "rollback" THEN "rollbackfailed" ELSE "catch"
     IN  IF CanTransition(mem[r].phase, phase)
         THEN \/ Save(r, rec) /\ Goto(r, next)
              \/ SaveFails(r, rec, failed) /\ UNCHANGED mem
         ELSE Goto(r, failed) /\ UNCHANGED <<stored, mem>>
  /\ UNCHANGED <<agent, rcv, lock, env, host, pend, orig, ghosts>>

EnterPhase(r) ==
  \/ Enter(r, "start", "PREFLIGHT", "release")
  \/ Enter(r, "backup", "BACKUP", "dump")
  \/ Enter(r, "pull0", "PULLING", "pull")
  \/ Enter(r, "verify0", "VERIFYING", "verify")
  \/ Enter(r, "migrate0", "MIGRATING", "migrate")
  \/ Enter(r, "deploy", "DEPLOYING", "up")
  \/ Enter(r, "health0", "HEALTHCHECK", "health")
  \/ Enter(r, "rollback", "ROLLING_BACK", "restore")

\* releases.target: the manifest says whether a rollback is possible, or that the release
\* needs an operator. The executor keeps the first also if the save fails.
FetchRelease(r) ==
  /\ At(r, "release")
  /\ \/ \E status \in {"AVAILABLE", "UNSAFE"} :
          LET rec == [mem[r] EXCEPT !.rollback = status] IN
          /\ mem' = [mem EXCEPT ![r] = rec]
          /\ \/ stored' = [stored EXCEPT ![r] = rec] /\ Goto(r, "check")
             \/ SaveFails(r, rec, "catch")
     \/ Goto(r, "manual") /\ UNCHANGED <<stored, mem>>
  /\ UNCHANGED <<agent, rcv, lock, env, host, pend, orig, ghosts>>

\* validateCompatibility, then preflight, whose health checks want the version in .env.
Check(r) ==
  /\ At(r, "check")
  /\ \/ env \in running /\ Goto(r, "poll1")
     \/ Goto(r, "manual")
     \/ Goto(r, "catch")
  /\ UNCHANGED <<agent, rcv, disk, host, pend, mem, orig, ghosts>>

\* Mutant: the second checkpoint without its beforeCancel.
CheckpointVersionKept(r, step) == env
CheckpointVersion(r, step) == IF step = "poll2" THEN orig[r] ELSE env

\* cancelIfRequested reads the record on disk; the second checkpoint restores .env.
Poll(r, step, next) ==
  /\ At(r, step)
  /\ IF stored[r].cancel
     THEN \/ env' = CheckpointVersion(r, step) /\ Goto(r, "cancel")
          \/ SaveFaults /\ step = "poll2" /\ env' \in {env, Truncated} /\ Goto(r, "catch")
     ELSE Goto(r, next) /\ env' = env
  /\ UNCHANGED <<agent, rcv, lock, stored, host, pend, mem, orig, ghosts>>

\* If CANCELLED is saved and its log line is not, the handler puts FAILED over it.
CancelRun(r) ==
  /\ At(r, "cancel")
  /\ LET rec == [stored[r] EXCEPT !.phase = "CANCELLED"] IN
     IF CanTransition(stored[r].phase, "CANCELLED")
     THEN \/ stored' = [stored EXCEPT ![r] = rec] /\ Goto(r, "unlock") /\ UNCHANGED overwritten
          \/ /\ SaveFails(r, rec, "catch")
             /\ overwritten' = overwritten \cup {q \in {r} : stored'[q] # stored[q]}
     ELSE Goto(r, "catch") /\ UNCHANGED <<stored, overwritten>>
  /\ UNCHANGED <<agent, rcv, lock, env, host, pend, mem, orig, crashes, abandoned>>

\* Output of a running command is logged, and logging saves the executor's copy.
StreamLog(r) ==
  /\ agent = "ready" /\ pc[r] \in Streaming /\ Save(r, mem[r])
  /\ UNCHANGED <<agent, rcv, lock, env, host, pend, pc, orig, ghosts>>

\* Steps that leave the host alone; all but the pull end with a log line.
Backup(r) ==
  /\ At(r, "dump") /\ Save(r, mem[r]) /\ Goto(r, "swap")
  /\ UNCHANGED <<agent, rcv, lock, env, host, pend, orig, ghosts>>
Pull(r) ==
  /\ At(r, "pull") /\ Goto(r, "poll2")
  /\ UNCHANGED <<agent, rcv, disk, host, pend, mem, orig, ghosts>>
VerifyImages(r) ==
  /\ At(r, "verify") /\ Save(r, mem[r]) /\ Goto(r, "migrate0")
  /\ UNCHANGED <<agent, rcv, lock, env, host, pend, orig, ghosts>>

\* .env is read, then rewritten; a write that fails may have truncated it.
SwapVersion(r) ==
  /\ At(r, "swap")
  /\ \/ orig' = [orig EXCEPT ![r] = env] /\ env' = mem[r].target /\ Goto(r, "pull0")
     \/ /\ SaveFaults /\ Goto(r, "catch")
        /\ \/ UNCHANGED <<orig, env>>
           \/ orig' = [orig EXCEPT ![r] = env] /\ env' \in {env, Truncated}
  /\ UNCHANGED <<agent, rcv, lock, stored, host, pend, mem, ghosts>>

Did(r, what) == effects' = [effects EXCEPT ![r] = @ \cup {what}]

Migrate(r) ==
  /\ At(r, "migrate") /\ Did(r, "migrate") /\ Save(r, mem[r]) /\ Goto(r, "deploy")
  /\ UNCHANGED <<agent, rcv, lock, env, running, pend, orig, ghosts>>

\* What `compose up` may leave behind when it does not finish.
PartialUps == {running, running \cup {env}, {env}}

ComposeUp(r, step, next) ==
  /\ At(r, step) /\ running' = {env} /\ Did(r, "up") /\ Goto(r, next)
  /\ UNCHANGED <<agent, rcv, disk, pend, mem, orig, ghosts>>

\* healthChecks: no API but one of the expected version can pass.
HealthPasses(r, step, version, next) ==
  /\ At(r, step) /\ version \in running /\ Goto(r, next)
  /\ UNCHANGED <<agent, rcv, disk, host, pend, mem, orig, ghosts>>

\* A step that throws, or whose log cannot be saved; a migration or an `up` may by then
\* have done part of its work.
Throw(r) ==
  /\ agent = "ready"
  /\ \/ pc[r] \in {"release", "dump", "pull", "verify", "health"} /\ UNCHANGED host
     \/ pc[r] = "migrate" /\ UNCHANGED running /\ Did(r, "migrate")
     \/ pc[r] = "up" /\ running' \in PartialUps /\ Did(r, "up")
  /\ Goto(r, "catch")
  /\ UNCHANGED <<agent, rcv, disk, pend, mem, orig, ghosts>>

\* Mutant: a rollback that fails is tried again.
RollbackRepeated(r) ==
  /\ agent = "ready"
  /\ \/ pc[r] = "rehealth" /\ UNCHANGED host
     \/ pc[r] = "reup" /\ running' \in PartialUps /\ Did(r, "up")
  /\ Goto(r, "restore")
  /\ UNCHANGED <<agent, rcv, disk, pend, mem, orig, ghosts>>
RollbackThrows(r) ==
  /\ agent = "ready"
  /\ \/ pc[r] = "rehealth" /\ UNCHANGED host
     \/ pc[r] = "reup" /\ running' \in PartialUps /\ Did(r, "up")
  /\ Goto(r, "rollbackfailed")
  /\ UNCHANGED <<agent, rcv, disk, pend, mem, orig, ghosts>>

(***************************************************************************)
(* The ends of execute(): its catch block, and the record each end saves.  *)
(***************************************************************************)
MayRollBack(r) == mem[r].rollback = "AVAILABLE" /\ orig[r] # NoVersion

\* Restoring .env is best effort there: .catch(() => undefined).
Catch(r) ==
  /\ At(r, "catch")
  /\ IF mem[r].phase \in {"DEPLOYING", "HEALTHCHECK"}
     THEN /\ Goto(r, IF MayRollBack(r) THEN "rollback" ELSE "manual")
          /\ env' = env
     ELSE /\ Goto(r, IF CanTransition(mem[r].phase, "FAILED") THEN "fail" ELSE "reject")
          /\ \/ env' = IF orig[r] # NoVersion THEN orig[r] ELSE env
             \/ SaveFaults /\ orig[r] # NoVersion /\ env' \in {env, Truncated}
  /\ UNCHANGED <<agent, rcv, lock, stored, host, pend, mem, orig, ghosts>>

RestoreVersion(r) ==
  /\ At(r, "restore")
  /\ \/ env' = orig[r] /\ Goto(r, "reup")
     \/ SaveFaults /\ env' \in {env, Truncated} /\ Goto(r, "rollbackfailed")
  /\ UNCHANGED <<agent, rcv, lock, stored, host, pend, mem, orig, ghosts>>

\* Where an error of the transition, and one of the save after it, are handled: only the
\* two ends of a try block have a handler, and no handler has one.
Thrown(step) == CASE step = "complete"   -> "catch"
                  [] step = "rolledback" -> "rollbackfailed"
                  [] OTHER               -> "reject"
Unsaved(step) == IF step = "complete" THEN "catch" ELSE "reject"

Settle(r, step, phase, rollback, code, next) ==
  /\ At(r, step)
  /\ LET rec == [mem[r] EXCEPT !.phase = phase, !.rollback = rollback, !.code = code] IN
     IF CanTransition(mem[r].phase, phase)
     THEN /\ mem' = [mem EXCEPT ![r] = rec]
          /\ \/ stored' = [stored EXCEPT ![r] = rec] /\ Goto(r, next)
             \/ SaveFails(r, rec, Unsaved(step))
     ELSE Goto(r, Thrown(step)) /\ UNCHANGED <<stored, mem>>
  /\ UNCHANGED <<agent, rcv, lock, env, host, pend, orig, ghosts>>

SettleRun(r) ==
  \/ Settle(r, "complete", "COMPLETED", "NOT_REQUIRED", "NONE", "prune")
  \/ Settle(r, "fail", "FAILED", mem[r].rollback, "STEP_ERROR", "unlock")
  \/ Settle(r, "manual", "MANUAL_INTERVENTION_REQUIRED", "UNSAFE", "STEP_ERROR", "unlock")
  \/ Settle(r, "rolledback", "FAILED", "COMPLETED", "STEP_ERROR", "unlock")
  \/ Settle(r, "rollbackfailed", "MANUAL_INTERVENTION_REQUIRED", "FAILED", "ROLLBACK_FAILED",
            "unlock")

\* pruneBackups runs inside the try block, after the run was saved COMPLETED.
PruneBackups(r) ==
  /\ At(r, "prune") /\ (Goto(r, "unlock") \/ Goto(r, "catch"))
  /\ UNCHANGED <<agent, rcv, disk, host, pend, mem, orig, ghosts>>

ReleaseLock(r) ==
  /\ At(r, "unlock") /\ lock' = Free /\ Goto(r, "prune_runs")
  /\ UNCHANGED <<agent, rcv, env, stored, host, pend, mem, orig, ghosts>>

\* pruneRuns drops all but the newest terminal records.
Prunable(r) == stored[r].phase \in Terminal
               /\ Cardinality({q \in Runs : q > r /\ stored[q].phase \in Terminal}) >= KeepRuns
PruneRuns(r) ==
  /\ At(r, "prune_runs") /\ Goto(r, "done")
  /\ stored' = [q \in Runs |-> IF Prunable(q) THEN NoRec ELSE stored[q]]
  /\ UNCHANGED <<agent, rcv, lock, env, host, pend, mem, orig, ghosts>>

-----------------------------------------------------------------------------
(***************************************************************************)
(* cancel(): the record is loaded, and saved back with the flag set. If    *)
(* the run has moved on meanwhile, the old phase is back on disk.          *)
(***************************************************************************)
CancelLoad(r) ==
  /\ agent = "ready" /\ r \in Cancels /\ ~Exists(pend[r])
  /\ Exists(stored[r]) /\ CanCancel(stored[r].phase)
  /\ pend' = [pend EXCEPT ![r] = stored[r]]
  /\ UNCHANGED <<agent, rcv, disk, host, local, ghosts>>

CancelSave(r) ==
  /\ agent = "ready" /\ Exists(pend[r])
  /\ stored' = [stored EXCEPT ![r] = [pend[r] EXCEPT !.cancel = TRUE]]
  /\ pend' = [pend EXCEPT ![r] = NoRec]
  /\ overwritten' = overwritten \cup {q \in {r} : pend[q].phase # stored[q].phase}
  /\ UNCHANGED <<agent, rcv, lock, env, host, local, crashes, abandoned>>

(***************************************************************************)
(* The process dies: what it held in memory is gone, and the command or    *)
(* the write it was in the middle of is left half done.                    *)
(***************************************************************************)
Stop ==
  /\ agent' = "down" /\ rcv' = NoRun
  /\ pc' = [r \in Runs |-> IF pc[r] \in Over \cup {"idle"} THEN pc[r] ELSE "lost"]
  /\ mem' = [r \in Runs |-> NoRec] /\ orig' = [r \in Runs |-> NoVersion]
  /\ pend' = [r \in Runs |-> NoRec]
  /\ abandoned' = IF rcv = NoRun THEN abandoned ELSE abandoned \cup {rcv}
  /\ UNCHANGED <<stored, overwritten>>

Interrupted(steps) == \E r \in Runs : pc[r] \in steps
Die ==
  /\ Stop
  /\ env' \in IF Interrupted(WritingEnv) \/ agent = "restore" THEN {env, Truncated} ELSE {env}
  /\ running' \in IF Interrupted({"up", "reup"}) THEN PartialUps ELSE {running}
  /\ effects' = [r \in Runs |->
       effects[r] \cup (IF pc[r] = "migrate" THEN {"migrate"} ELSE {})
                  \cup (IF pc[r] \in {"up", "reup"} THEN {"up"} ELSE {})]
  /\ UNCHANGED lock

Crash == agent # "down" /\ crashes < MaxCrashes /\ crashes' = crashes + 1 /\ Die

\* The log line of a command still running is awaited by nobody: if it cannot be saved the
\* unhandled rejection ends the process in the middle of the command.
StreamLogFails ==
  SaveFaults /\ agent = "ready" /\ Interrupted(Streaming) /\ Die /\ UNCHANGED crashes

\* execute() rejects: its finally clause still frees the lock, and the unhandled
\* rejection then ends the process.
Reject(r) ==
  /\ At(r, "reject") /\ lock' = Free /\ Stop
  /\ UNCHANGED <<env, host, crashes>>

-----------------------------------------------------------------------------
(***************************************************************************)
(* initialize(): a lock left behind names the interrupted run. The lock is *)
(* removed first, then the run is settled by its phase. A torn lock is not *)
(* JSON: the agent stops, and does so at every start.                      *)
(***************************************************************************)
\* Mutant: a migration taken for retryable.
SafeToRetryMigrating(phase) == phase \in Early \cup {"MIGRATING"}
SafeToRetry(phase) == phase \in Early

RecoveryStep(phase) == IF SafeToRetry(phase) THEN "restore" ELSE "settle"

\* Mutant: a start that only clears the lock.
NoTakenRun == NoRun
TakenRun == IF lock # Free /\ Unfinished(stored[lock]) THEN lock ELSE NoRun

\* Mutant: a lock that is left until the run is settled.
TakeLockedRun ==
  /\ agent = "down" /\ lock # Torn /\ UNCHANGED lock /\ rcv' = TakenRun
  /\ agent' = IF TakenRun = NoRun THEN "ready" ELSE RecoveryStep(stored[TakenRun].phase)
  /\ UNCHANGED <<env, stored, host, pend, local, ghosts>>
TakeInterruptedRun ==
  /\ agent = "down" /\ lock # Torn /\ lock' = Free /\ rcv' = TakenRun
  /\ agent' = IF TakenRun = NoRun THEN "ready" ELSE RecoveryStep(stored[TakenRun].phase)
  /\ UNCHANGED <<env, stored, host, pend, local, ghosts>>

RecoverVersion ==
  /\ agent = "restore" /\ env # Truncated
  /\ env' = stored[rcv].installed /\ agent' = "retry"
  /\ UNCHANGED <<rcv, lock, stored, host, pend, local, ghosts>>

\* Mutant: manualRecovery with its code and its summary the wrong way round.
OutcomeSwapped(phase, rollback, code) ==
  stored' = [stored EXCEPT ![rcv] = [@ EXCEPT !.phase = phase, !.rollback = rollback,
                                              !.code = "SUMMARY"]]
Outcome(phase, rollback, code) ==
  stored' = [stored EXCEPT ![rcv] = [@ EXCEPT !.phase = phase, !.rollback = rollback,
                                              !.code = code]]

\* The outcome is saved and the agent serves, or it dies of the log line that follows. A
\* transition that is refused ends it as well.
Recovered(phase, rollback, code) ==
  IF CanTransition(stored[rcv].phase, phase)
  THEN /\ Outcome(phase, rollback, code) /\ rcv' = NoRun
       /\ agent' \in IF SaveFaults THEN {"ready", "down"} ELSE {"ready"}
       /\ UNCHANGED <<lock, env, host, pend, local, ghosts>>
  ELSE Stop /\ UNCHANGED <<lock, env, host, crashes>>

\* In these two phases the containers' health decides; an error there is the second verdict.
Healthy(phase, version, end) ==
  agent = "settle" /\ stored[rcv].phase = phase /\ version \in running /\ CanTransition(phase, end)
HealthyTarget == Healthy("HEALTHCHECK", stored[rcv].target, "COMPLETED")
HealthyAgain == Healthy("ROLLING_BACK", stored[rcv].installed, "FAILED")

Recover ==
  \/ agent = "retry" /\ Recovered("FAILED", stored[rcv].rollback, "SAFE_TO_RETRY")
  \/ agent = "settle" /\ Recovered("MANUAL_INTERVENTION_REQUIRED", "UNSAFE", "RESTART_UNSURE")
  \/ HealthyTarget /\ Recovered("COMPLETED", stored[rcv].rollback, "NONE")
  \/ HealthyAgain /\ Recovered("FAILED", "COMPLETED", "ROLLBACK_RECOVERED")

\* There the log line is inside the try block: when it fails the record already holds the
\* outcome, and the handler saves another one over it, from the phase the run had.
OutcomeUnlogged ==
  /\ SaveFaults
  /\ \/ HealthyTarget /\ Outcome("COMPLETED", stored[rcv].rollback, "NONE")
     \/ HealthyAgain /\ Outcome("FAILED", "COMPLETED", "ROLLBACK_RECOVERED")
  /\ agent' = "unsure"
  /\ UNCHANGED <<rcv, lock, env, host, pend, local, ghosts>>
OutcomeRevised ==
  /\ agent = "unsure" /\ Outcome("MANUAL_INTERVENTION_REQUIRED", "UNSAFE", "RESTART_UNSURE")
  /\ agent' = "ready" /\ rcv' = NoRun
  /\ UNCHANGED <<lock, env, host, pend, local, ghosts>>

\* An error while settling (a .env without a version, a failing save) ends the process.
RecoveryFails ==
  /\ \/ agent = "restore" /\ env = Truncated
     \/ SaveFaults /\ agent \in {"restore", "retry", "settle", "unsure"}
  /\ Stop /\ env' \in IF SaveFaults /\ agent = "restore" THEN {env, Truncated} ELSE {env}
  /\ UNCHANGED <<lock, host, crashes>>

-----------------------------------------------------------------------------
Execute(r) ==
  \/ EnterPhase(r) \/ FetchRelease(r) \/ Check(r)
  \/ Poll(r, "poll1", "backup") \/ Poll(r, "poll2", "verify0")
  \/ CancelRun(r)
  \/ Backup(r) \/ SwapVersion(r) \/ Pull(r) \/ VerifyImages(r) \/ Migrate(r)
  \/ ComposeUp(r, "up", "health0")
  \/ HealthPasses(r, "health", mem[r].target, "complete")
  \/ RestoreVersion(r) \/ ComposeUp(r, "reup", "rehealth")
  \/ HealthPasses(r, "rehealth", mem[r].installed, "rolledback")
  \/ Throw(r) \/ RollbackThrows(r) \/ Catch(r) \/ SettleRun(r)
  \/ PruneBackups(r) \/ ReleaseLock(r) \/ PruneRuns(r) \/ Reject(r)

Install(r) == AcquireLock(r) \/ WriteLock(r) \/ AwaitDuplicate(r) \/ SaveFirst(r)

Boot ==
  \/ TakeInterruptedRun \/ RecoverVersion \/ Recover \/ OutcomeUnlogged \/ OutcomeRevised
  \/ RecoveryFails

Next ==
  \/ \E r \in Runs, k \in Keys, t \in Versions : Request(r, k, t)
  \/ \E r \in Runs : Install(r) \/ Execute(r) \/ StreamLog(r)
  \/ \E r \in Runs : CancelLoad(r) \/ CancelSave(r)
  \/ Boot \/ Crash \/ StreamLogFails

\* The event loop runs every continuation that is ready, commands and retries are
\* bounded by timeouts, and systemd restarts an agent that died.
Fairness ==
  /\ \A r \in Runs : WF_vars(Install(r)) /\ WF_vars(Execute(r))
  /\ WF_vars(Boot)

Spec == Init /\ [][Next]_vars
FairSpec == Spec /\ Fairness

-----------------------------------------------------------------------------
(***************************************************************************)
(* Properties.                                                             *)
(***************************************************************************)
\* Every variable stays in its range.
TypeOK ==
  /\ agent \in {"down", "ready", "restore", "retry", "settle", "unsure"}
  /\ rcv \in Runs \cup {NoRun}
  /\ lock \in Runs \cup {Free, Torn}
  /\ env \in Versions \cup {Truncated}
  /\ running \in SUBSET (Versions \cup {Truncated})
  /\ effects \in [Runs -> SUBSET {"migrate", "up"}]
  /\ stored \in [Runs -> Record] /\ pend \in [Runs -> Record]
  /\ pc \in [Runs -> Steps]
  /\ mem \in [Runs -> Record]
  /\ orig \in [Runs -> Versions \cup {NoVersion}]
  /\ crashes \in Nat
  /\ abandoned \in SUBSET Runs /\ overwritten \in SUBSET Runs

\* Two installations never run at once on the host, and the lock file names the one that
\* does (acquireLock, releaseLock and the lock a restarting agent takes away).
HostLock ==
  /\ \A q, r \in Runs : pc[q] \in Owning /\ pc[r] \in Owning => q = r
  /\ \A r \in Runs : pc[r] \in Owning => lock = IF pc[r] = "torn" THEN Torn ELSE r

\* A run whose record is not terminal has somebody to finish it: its executor, the lock
\* that will make the next start recover it, or the recovery under way. Left out: runs
\* whose recovery was itself cut short, and runs a cancellation wrote an old record over.
EveryRunIsOwned ==
  SaveFaults \/ \A r \in Runs \ overwritten :
    Unfinished(stored[r]) => pc[r] \in Owning \/ lock = r \/ rcv = r \/ r \in abandoned

\* What a finished record tells the operator is true of the host: a cancelled run never
\* reached the database or the containers, a completed one did both, and a completed
\* rollback was one the release allowed. One declared safe to retry did not reach them
\* either, unless a cancellation had written an old record over a run that had moved on:
\* the code then says "safe to retry" of a run that may have migrated the database.
OutcomeIsHonest == \A r \in Runs :
  /\ stored[r].phase = "CANCELLED" => effects[r] = {}
  /\ stored[r].phase = "COMPLETED" => effects[r] = {"migrate", "up"}
  /\ stored[r].code = "ROLLBACK_RECOVERED" => effects[r] = {"migrate", "up"}
  /\ stored[r].code = "SAFE_TO_RETRY" => effects[r] = {} \/ r \in overwritten

\* The record is written before what it announces: the database is not touched while the
\* record still says that the run may be retried, unless a cancellation wrote it back.
RecordedFirst == \A r \in Runs \ overwritten :
  effects[r] # {} => stored[r].phase \notin Early

\* A run that failed or was cancelled before deployment, and one rolled back, give .env
\* the version it had before the run.
VersionRestored == SaveFaults \/ \A r \in Runs :
  pc[r] = "unlock" /\ orig[r] # NoVersion /\ stored[r].phase \in {"FAILED", "CANCELLED"}
    => env = orig[r]

\* The record of a run only moves along the transition table, and never leaves a terminal
\* phase; pruning may remove it. The exceptions the code has are a recovery that could save
\* its verdict but not log it (OutcomeRevised), and runs a cancellation put out of order.
FollowsTransitions ==
  [][\A r \in Runs \ overwritten' :
       \/ stored'[r].phase = stored[r].phase
       \/ ~Exists(stored[r]) /\ stored'[r].phase = "PENDING"
       \/ Exists(stored[r]) /\ stored'[r].phase \in Transitions[stored[r].phase]
       \/ stored[r].phase \in Terminal /\ ~Exists(stored'[r])
       \/ agent = "unsure" /\ rcv = r]_vars

(***************************************************************************)
(* The agent implements HostUpdate. The lock names the owner, and once a   *)
(* starting agent has removed the lock the run it is settling is in charge. *)
(* An outcome counts once it is final: not while its log line is missing.   *)
(* Pruning takes a record away for good, and nothing is promised of a run   *)
(* whose record a cancellation has put out of order.                        *)
(***************************************************************************)
Unrecorded == Asking \cup {"torn", "locked"}
OwnerBar == IF rcv # NoRun THEN rcv ELSE IF lock \in Runs THEN lock ELSE NoRun
StageBar == [r \in Runs |->
  LET rec == stored[r] IN
  IF r \in overwritten THEN "unknown" ELSE
  IF agent = "unsure" /\ r = rcv THEN "changing" ELSE
  CASE ~Exists(rec)            -> IF pc[r] \in Unrecorded THEN "none" ELSE "gone"
    [] rec.phase \in Early     -> "preparing"
    [] rec.phase = "CANCELLED" -> "untouched"
    [] rec.phase = "COMPLETED" -> "installed"
    [] rec.phase \in {"FAILED", "MANUAL_INTERVENTION_REQUIRED"} ->
         IF rec.code = "SAFE_TO_RETRY" THEN "untouched" ELSE "failed"
    [] OTHER                   -> "changing"]
ChangedBar == {r \in Runs : effects[r] # {} /\ r \notin overwritten}

Host == INSTANCE HostUpdate WITH owner <- OwnerBar, stage <- StageBar, changed <- ChangedBar

\* Every step of the agent is a step HostUpdate allows or leaves it alone.
ImplementsHostUpdate == Host!Spec

\* An installation that took the lock comes to an end, and one interrupted is settled at
\* the next start.
InstallationsEnd == \A r \in Runs : pc[r] = "locked" ~> pc[r] \in Over
InterruptedRunsSettle == \A r \in Runs :
  Unfinished(stored[r]) ~> ~Unfinished(stored[r]) \/ r \in abandoned
\* An agent that died serves again, unless it died before its lock had any content.
AgentReturns == (agent = "down" /\ lock # Torn) ~> agent = "ready"
=============================================================================
