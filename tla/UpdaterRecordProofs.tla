------------------------ MODULE UpdaterRecordProofs ------------------------
(***************************************************************************)
(* What the updater's records say is true of the host, for every set of    *)
(* requests and versions, every bound and, where a property does not say   *)
(* otherwise, with failing writes: the safety properties of Updater, and   *)
(* that the agent implements HostUpdate.                                   *)
(*                                                                         *)
(* They rest on one invariant, RecordInv. It ties the step a run has        *)
(* reached to the phase in memory (PhaseAt), the phase to what the run did *)
(* to the host (DoneAt, DiskAt), the record on disk to the one in memory   *)
(* (OwnAt), the version in .env to the step (EnvAt) and the record that is *)
(* being settled to what the agent has to do (RecoveryAt).                 *)
(***************************************************************************)
EXTENDS UpdaterProofs

-----------------------------------------------------------------------------
(***************************************************************************)
(* The invariant.                                                          *)
(***************************************************************************)
Both == {"migrate", "up"}

\* The phase the executor's copy has at each step.
PhaseAt(r) ==
  /\ pc[r] \in {"found", "wait", "torn", "locked", "start"} => mem[r].phase = "PENDING"
  /\ pc[r] \in {"release", "check", "poll1", "backup"} => mem[r].phase = "PREFLIGHT"
  /\ pc[r] \in {"dump", "swap", "pull0"} => mem[r].phase = "BACKUP"
  /\ pc[r] \in {"pull", "poll2", "verify0"} => mem[r].phase = "PULLING"
  /\ pc[r] \in {"verify", "migrate0"} => mem[r].phase = "VERIFYING"
  /\ pc[r] \in {"migrate", "deploy"} => mem[r].phase = "MIGRATING"
  /\ pc[r] \in {"up", "health0"} => mem[r].phase = "DEPLOYING"
  /\ pc[r] \in {"health", "complete"} => mem[r].phase = "HEALTHCHECK"
  /\ pc[r] \in {"restore", "reup", "rehealth", "rolledback"} => mem[r].phase = "ROLLING_BACK"
  /\ pc[r] = "cancel" => mem[r].phase \in {"PREFLIGHT", "PULLING"}
  /\ pc[r] = "prune" => mem[r].phase = "COMPLETED"
  /\ pc[r] = "catch" => mem[r].phase \in Early \cup {"MIGRATING", "DEPLOYING", "HEALTHCHECK",
                                                    "COMPLETED"}
  /\ pc[r] = "fail" => mem[r].phase \in Early \cup {"MIGRATING"}
  /\ pc[r] = "manual" => mem[r].phase \in {"PREFLIGHT", "DEPLOYING", "HEALTHCHECK"}
  /\ pc[r] = "rollback" => mem[r].phase \in {"DEPLOYING", "HEALTHCHECK"}
  /\ pc[r] = "rollbackfailed" => mem[r].phase \in {"DEPLOYING", "HEALTHCHECK", "ROLLING_BACK"}

\* What a run has done to the host, by the phase in memory.
DoneAt(r) ==
  /\ pc[r] = "idle" \/ mem[r].phase \in Early => effects[r] = {}
  /\ mem[r].phase \in {"HEALTHCHECK", "ROLLING_BACK", "COMPLETED"} => effects[r] = Both
  /\ mem[r].phase = "DEPLOYING" => pc[r] = "up" \/ effects[r] = Both
  /\ pc[r] \in {"deploy", "up"} => "migrate" \in effects[r]
  /\ mem[r].cancel = FALSE
  /\ mem[r].phase \notin Terminal => mem[r].code = "NONE"
  /\ mem[r].code \notin {"SAFE_TO_RETRY", "ROLLBACK_RECOVERED"}

\* The same by the record on disk, whoever wrote it last.
DiskAt(r) ==
  /\ stored[r].phase \in {"HEALTHCHECK", "ROLLING_BACK", "COMPLETED"} => effects[r] = Both
  /\ stored[r].phase = "CANCELLED" =>
       /\ effects[r] = {} /\ pc[r] \in {"catch", "fail", "reject", "unlock"} \cup Over
       /\ pc[r] = "catch" => mem[r].phase \in Early
  /\ stored[r].phase \notin Terminal => stored[r].code = "NONE"
  /\ stored[r].code = "ROLLBACK_RECOVERED" => effects[r] = Both
  /\ pc[r] = "prune" => stored[r].phase \notin {"FAILED", "CANCELLED"}
  /\ pc[r] \in Unrecorded => ~Exists(stored[r])

\* A cancellation under way holds a record from before the run touched the host.
PendAt(r) ==
  Exists(pend[r]) =>
    /\ agent = "ready" /\ r \in Cancels /\ CanCancel(pend[r].phase)
    /\ pend[r].code = "NONE" /\ pc[r] \notin Unrecorded

\* Steps at which the record on disk says what the executor's copy says.
Synced == {"start", "release", "check", "poll1", "backup", "dump", "swap", "pull0", "pull",
           "poll2", "verify0", "verify", "migrate0", "migrate", "deploy", "up", "health0",
           "health", "complete", "restore", "reup", "rehealth", "rolledback", "cancel"}
Failing == {"catch", "fail", "manual", "rollback", "rollbackfailed"}

\* A run whose record no cancellation has put out of order: the record follows the executor's
\* copy, or is one save ahead.
OwnAt(r) ==
  /\ pc[r] \in Synced => stored[r].phase = mem[r].phase /\ stored[r].code = mem[r].code
  /\ pc[r] \in Failing => \/ stored[r].phase \in Phases \ Terminal
                          \/ pc[r] = "catch" /\ mem[r].phase = "COMPLETED"
  /\ pc[r] = "manual" => stored[r].phase # "PENDING"
  /\ pc[r] = "catch" /\ mem[r].phase \in {"DEPLOYING", "HEALTHCHECK"} =>
       stored[r].phase \in {"DEPLOYING", "HEALTHCHECK"}
  /\ pc[r] = "rollback" => stored[r].phase \in {"DEPLOYING", "HEALTHCHECK"}
  /\ pc[r] = "rollbackfailed" => stored[r].phase \in {"DEPLOYING", "HEALTHCHECK", "ROLLING_BACK"}
  /\ stored[r].code = "SAFE_TO_RETRY" => effects[r] = {} /\ pc[r] \in Over
  /\ effects[r] # {} => stored[r].phase \notin Early
  /\ ~SaveFaults /\ (pc[r] \in {"prune", "reject", "unlock"} \/ mem[r].phase = "COMPLETED") =>
       ~Unfinished(stored[r])

\* Without failing writes a run that ends before deployment has given .env its version back.
EnvAt(r) ==
  /\ pc[r] \in Asking \cup {"torn", "locked", "start", "release", "check", "poll1", "backup",
                            "dump", "swap"} => orig[r] = NoVersion
  /\ ~SaveFaults /\ pc[r] \in {"cancel", "fail"} => orig[r] \in {NoVersion, env}
  /\ pc[r] \in {"reup", "rehealth", "rolledback"} => env = orig[r]
  /\ ~SaveFaults /\ pc[r] = "unlock" /\ stored[r].phase \in {"FAILED", "CANCELLED"} =>
       orig[r] \in {NoVersion, env}

RunInv(r) ==
  /\ PhaseAt(r) /\ DoneAt(r) /\ DiskAt(r) /\ PendAt(r) /\ EnvAt(r)
  /\ pc[r] = "leaked" => SaveFaults
  /\ r \in overwritten => pc[r] \notin Unrecorded
  /\ r \notin overwritten => OwnAt(r)

\* A starting agent: nothing runs, the lock is gone, and the record is as the step says.
RecoveryAt ==
  /\ agent # "ready" => \A r \in Runs : pc[r] \in Over \cup {"idle"}
  /\ agent \in Settling => lock = Free
  /\ agent \in {"restore", "retry"} => stored[rcv].phase \in Early
  /\ agent = "settle" => stored[rcv].phase \in
                           {"MIGRATING", "DEPLOYING", "HEALTHCHECK", "ROLLING_BACK"}
  /\ agent = "unsure" => stored[rcv].phase \in {"COMPLETED", "FAILED"}

RecordInv == HostInv /\ RecoveryAt /\ \A r \in Runs : RunInv(r)
-----------------------------------------------------------------------------
(***************************************************************************)
(* What the steps of a run change, field by field.                         *)
(***************************************************************************)
LEMMA PhaseEdit ==
  ASSUME NEW rec \in Record, NEW p, NEW new, new = [rec EXCEPT !.phase = p]
  PROVE  new.phase = p /\ new.cancel = rec.cancel /\ new.code = rec.code
BY DEF Record

LEMMA RollbackEdit ==
  ASSUME NEW rec \in Record, NEW s, NEW new, new = [rec EXCEPT !.rollback = s]
  PROVE  new.phase = rec.phase /\ new.cancel = rec.cancel /\ new.code = rec.code
BY DEF Record

LEMMA CancelEdit ==
  ASSUME NEW rec \in Record, NEW new, new = [rec EXCEPT !.cancel = TRUE]
  PROVE  new.phase = rec.phase /\ new.code = rec.code
BY DEF Record

LEMMA OutcomeEdit ==
  ASSUME NEW rec \in Record, NEW p, NEW s, NEW c, NEW new,
         new = [rec EXCEPT !.phase = p, !.rollback = s, !.code = c]
  PROVE  new.phase = p /\ new.cancel = rec.cancel /\ new.code = c
BY DEF Record

LEMMA GotoIs ==
  ASSUME TypeOK, NEW r \in Runs, NEW s, Goto(r, s)
  PROVE  pc'[r] = s /\ \A q \in Runs \ {r} : pc'[q] = pc[q]
BY DEF TypeOK, Goto

LEMMA SaveIs ==
  ASSUME TypeOK, NEW r \in Runs, NEW rec, Save(r, rec)
  PROVE  /\ mem'[r] = rec /\ stored'[r] = rec
         /\ \A q \in Runs \ {r} : mem'[q] = mem[q] /\ stored'[q] = stored[q]
BY DEF TypeOK, Save

LEMMA SaveFailsIs ==
  ASSUME TypeOK, NEW r \in Runs, NEW rec, NEW s, SaveFails(r, rec, s)
  PROVE  /\ SaveFaults /\ pc'[r] = s /\ stored'[r] \in {stored[r], rec}
         /\ \A q \in Runs \ {r} : pc'[q] = pc[q] /\ stored'[q] = stored[q]
BY GotoIs DEF TypeOK, SaveFails

LEMMA DidIs ==
  ASSUME TypeOK, NEW r \in Runs, NEW what, Did(r, what)
  PROVE  /\ effects'[r] = effects[r] \cup {what}
         /\ \A q \in Runs \ {r} : effects'[q] = effects[q]
BY DEF TypeOK, Did

-----------------------------------------------------------------------------
(***************************************************************************)
(* A step of one run leaves the others alone: only the owner writes .env.  *)
(***************************************************************************)
Others(r) ==
  /\ agent = "ready" /\ agent' = agent
  /\ \A q \in Runs \ {r} :
       /\ pc'[q] = pc[q] /\ mem'[q] = mem[q] /\ stored'[q] = stored[q]
       /\ effects'[q] = effects[q] /\ pend'[q] = pend[q] /\ orig'[q] = orig[q]
       /\ (q \in overwritten' <=> q \in overwritten)
  /\ pc[r] \in Owning \/ env' = env

LEMMA RunFrame ==
  ASSUME NEW q \in Runs, RunInv(q), pc'[q] = pc[q], mem'[q] = mem[q], stored'[q] = stored[q],
         effects'[q] = effects[q], Exists(pend'[q]) => pend'[q] = pend[q] /\ agent' = agent,
         orig'[q] = orig[q], q \in overwritten' <=> q \in overwritten,
         pc[q] \in Owning => env' = env
  PROVE  RunInv(q)'
<1>1. PhaseAt(q)' /\ DoneAt(q)' /\ DiskAt(q)'
  BY DEF RunInv, PhaseAt, DoneAt, DiskAt, Exists
<1>2. PendAt(q)'
  BY DEF RunInv, PendAt, Exists
<1>3. OwnAt(q)' <=> OwnAt(q)
  BY DEF OwnAt, Unfinished, Exists
<1>4. EnvAt(q)'
  <2>1. {"cancel", "fail", "reup", "rehealth", "rolledback", "unlock"} \subseteq Owning
    BY DEF Owning
  <2>2. QED
    BY <2>1 DEF RunInv, EnvAt
<1>5. QED
  BY <1>1, <1>2, <1>3, <1>4 DEF RunInv

LEMMA RunStep ==
  ASSUME RecordInv, NEW r \in Runs, Others(r), RunInv(r)'
  PROVE  RecoveryAt' /\ \A q \in Runs : RunInv(q)'
<1>1. RecoveryAt'
  BY DEF RecoveryAt, Others, Settling
<1>2. ASSUME NEW q \in Runs \ {r} PROVE RunInv(q)'
  <2>1. pc[q] \in Owning => env' = env
    BY DEF RecordInv, HostInv, HostLock, Others
  <2>2. QED
    BY <2>1, RunFrame DEF RecordInv, Others
<1>3. QED
  BY <1>1, <1>2

-----------------------------------------------------------------------------
(***************************************************************************)
(* The steps of a run, each as what it changes of that run.                *)
(***************************************************************************)
\* Run r goes to step s; whatever else it does, it does to itself.
Turns(r, s) ==
  Others(r) /\ pc'[r] = s /\ pend' = pend /\ rcv' = rcv /\ UNCHANGED ghosts
Calm(r) == lock' = lock /\ UNCHANGED <<env, running, effects, orig>>
SameRecord(r) == mem'[r] = mem[r] /\ stored'[r] = stored[r]
\* The copy keeps the fields the invariant reads, and the disk holds it.
SavedAs(r, phase) ==
  /\ stored'[r] = mem'[r] /\ mem'[r].phase = phase
  /\ mem'[r].cancel = mem[r].cancel /\ mem'[r].code = mem[r].code
\* A save of the phase failed, and may have written it.
FailedAs(r, phase) ==
  /\ SaveFaults /\ mem'[r] = mem[r]
  /\ \/ stored'[r] = stored[r]
     \/ /\ stored'[r].phase = phase
        /\ stored'[r].cancel = mem[r].cancel /\ stored'[r].code = mem[r].code

LEMMA OwnerStep ==
  ASSUME NEW r \in Runs, NEW s \in Working, pc[r] = s
  PROVE  pc[r] \in Owning
BY DEF Working

LEMMA RequestIs ==
  ASSUME TypeOK, NEW r \in Runs, NEW k \in Keys, NEW t \in Versions, Request(r, k, t)
  PROVE  /\ pc[r] = "idle" /\ Calm(r) /\ stored'[r] = stored[r]
         /\ \/ Turns(r, "done") /\ mem'[r] = mem[r]
            \/ Turns(r, "refused") /\ mem'[r] = mem[r]
            \/ /\ Turns(r, "found") /\ mem'[r].phase = "PENDING"
               /\ mem'[r].cancel = FALSE /\ mem'[r].code = "NONE"
<1> USE DEF Request, At, disk, host, ghosts, Calm
<1>1. pc[r] = "idle" /\ Calm(r) /\ stored' = stored
  OBVIOUS
<1>2. ASSUME NEW s, Goto(r, s), mem' = mem PROVE Turns(r, s) /\ mem'[r] = mem[r]
  BY <1>1, <1>2, GotoIs DEF Turns, Others
<1>3. ASSUME Goto(r, "found"), mem' = [mem EXCEPT ![r] = NewRun(k, t)]
      PROVE  /\ Turns(r, "found") /\ mem'[r].phase = "PENDING"
             /\ mem'[r].cancel = FALSE /\ mem'[r].code = "NONE"
  <2>1. mem'[r] = NewRun(k, t) /\ \A q \in Runs \ {r} : mem'[q] = mem[q]
    BY <1>3 DEF TypeOK
  <2>2. Turns(r, "found")
    BY <1>1, <1>3, <2>1, GotoIs DEF Turns, Others
  <2>3. QED
    BY <2>1, <2>2 DEF NewRun
<1>4. QED
  BY <1>1, <1>2, <1>3

LEMMA AcquireIs ==
  ASSUME TypeOK, NEW r \in Runs, AcquireLock(r)
  PROVE  /\ pc[r] = "found" /\ SameRecord(r) /\ UNCHANGED <<env, running, effects, orig>>
         /\ \/ Turns(r, "torn") /\ lock = Free /\ lock' = Torn
            \/ Turns(r, "wait") /\ lock' = lock
BY GotoIs DEF AcquireLock, LockFree, At, host, ghosts, SameRecord, Turns, Others

LEMMA WriteLockIs ==
  ASSUME TypeOK, NEW r \in Runs, WriteLock(r)
  PROVE  /\ pc[r] = "torn" /\ SameRecord(r) /\ UNCHANGED <<env, running, effects, orig>>
         /\ \/ Turns(r, "locked") /\ lock' = r
            \/ Turns(r, "leaked") /\ lock' = lock /\ SaveFaults
BY GotoIs DEF WriteLock, At, host, ghosts, SameRecord, Turns, Others

LEMMA AwaitIs ==
  ASSUME TypeOK, NEW r \in Runs, AwaitDuplicate(r)
  PROVE  /\ pc[r] = "wait" /\ SameRecord(r) /\ Calm(r) /\ (Turns(r, "done") \/ Turns(r, "refused"))
BY GotoIs DEF AwaitDuplicate, At, disk, host, ghosts, SameRecord, Calm, Turns, Others

LEMMA SaveFirstIs ==
  ASSUME TypeOK, NEW r \in Runs, SaveFirst(r)
  PROVE  /\ pc[r] = "locked" /\ Calm(r) /\ mem'[r] = mem[r]
         /\ \/ Turns(r, "start") /\ stored'[r] = mem[r]
            \/ Turns(r, "leaked") /\ SaveFaults /\ stored'[r] \in {stored[r], mem[r]}
BY GotoIs, SaveIs, SaveFailsIs DEF SaveFirst, At, host, ghosts, Calm, Turns, Others

LEMMA EnterIs ==
  ASSUME TypeOK, NEW r \in Runs, NEW step, NEW phase, NEW next, Enter(r, step, phase, next)
  PROVE  /\ pc[r] = step /\ Calm(r)
         /\ \/ Turns(r, next) /\ SavedAs(r, phase)
            \/ /\ Turns(r, IF step = "rollback" THEN "rollbackfailed" ELSE "catch")
               /\ FailedAs(r, phase) \/ SameRecord(r)
         /\ CanTransition(mem[r].phase, phase) \/ SameRecord(r)
<1> DEFINE rec == [mem[r] EXCEPT !.phase = phase]
           failed == IF step = "rollback" THEN "rollbackfailed" ELSE "catch"
<1>1. mem[r] \in Record
  BY DEF TypeOK
<1>2. rec.phase = phase /\ rec.cancel = mem[r].cancel /\ rec.code = mem[r].code
  BY <1>1, PhaseEdit
<1>3. /\ pc[r] = step /\ Calm(r) /\ agent = "ready" /\ UNCHANGED <<agent, rcv, pend, ghosts>>
      /\ \/ Save(r, rec) /\ Goto(r, next) /\ CanTransition(mem[r].phase, phase)
         \/ SaveFails(r, rec, failed) /\ UNCHANGED mem /\ CanTransition(mem[r].phase, phase)
         \/ Goto(r, failed) /\ UNCHANGED <<stored, mem>>
  BY DEF Enter, At, host, ghosts, Calm
<1> HIDE DEF rec, failed
<1>4. CASE Save(r, rec) /\ Goto(r, next) /\ CanTransition(mem[r].phase, phase)
  BY <1>2, <1>3, <1>4, GotoIs, SaveIs DEF Calm, Turns, Others, SavedAs, ghosts
<1>5. CASE SaveFails(r, rec, failed) /\ UNCHANGED mem /\ CanTransition(mem[r].phase, phase)
  <2>1. Turns(r, failed)
    BY <1>3, <1>5, SaveFailsIs DEF Calm, Turns, Others, ghosts
  <2>2. FailedAs(r, phase)
    BY <1>2, <1>5, SaveFailsIs DEF FailedAs
  <2>3. QED
    BY <1>3, <1>5, <2>1, <2>2 DEF failed
<1>6. CASE Goto(r, failed) /\ UNCHANGED <<stored, mem>>
  <2>1. Turns(r, failed) /\ SameRecord(r)
    BY <1>3, <1>6, GotoIs DEF Calm, Turns, Others, SameRecord, ghosts
  <2>2. QED
    BY <1>3, <2>1 DEF failed
<1>7. QED
  BY <1>3, <1>4, <1>5, <1>6

LEMMA FetchIs ==
  ASSUME TypeOK, NEW r \in Runs, FetchRelease(r)
  PROVE  /\ pc[r] = "release" /\ Calm(r)
         /\ \/ Turns(r, "check") /\ SavedAs(r, mem[r].phase)
            \/ Turns(r, "manual") /\ SameRecord(r)
            \/ /\ Turns(r, "catch") /\ SaveFaults /\ mem'[r].phase = mem[r].phase
               /\ mem'[r].cancel = mem[r].cancel /\ mem'[r].code = mem[r].code
               /\ stored'[r] \in {stored[r], mem'[r]}
<1>1. mem[r] \in Record
  BY DEF TypeOK
<1>2. /\ pc[r] = "release" /\ Calm(r) /\ agent = "ready" /\ UNCHANGED <<agent, rcv, pend, ghosts>>
      /\ \/ Goto(r, "manual") /\ UNCHANGED <<stored, mem>>
         \/ \E s \in {"AVAILABLE", "UNSAFE"} :
              LET rec == [mem[r] EXCEPT !.rollback = s] IN
              /\ mem' = [mem EXCEPT ![r] = rec]
              /\ \/ stored' = [stored EXCEPT ![r] = rec] /\ Goto(r, "check")
                 \/ SaveFails(r, rec, "catch")
  BY DEF FetchRelease, At, host, ghosts, Calm
<1>3. ASSUME NEW s, NEW rec, rec = [mem[r] EXCEPT !.rollback = s], mem' = [mem EXCEPT ![r] = rec]
      PROVE  /\ mem'[r] = rec /\ \A q \in Runs \ {r} : mem'[q] = mem[q]
             /\ rec.phase = mem[r].phase /\ rec.cancel = mem[r].cancel /\ rec.code = mem[r].code
  BY <1>1, <1>3, RollbackEdit DEF TypeOK
<1>4. ASSUME NEW s, NEW rec, rec = [mem[r] EXCEPT !.rollback = s], mem' = [mem EXCEPT ![r] = rec],
             stored' = [stored EXCEPT ![r] = rec], Goto(r, "check")
      PROVE  Turns(r, "check") /\ SavedAs(r, mem[r].phase)
  <2>1. stored'[r] = rec /\ \A q \in Runs \ {r} : stored'[q] = stored[q]
    BY <1>4 DEF TypeOK
  <2>2. /\ mem'[r] = rec /\ \A q \in Runs \ {r} : mem'[q] = mem[q]
        /\ rec.phase = mem[r].phase /\ rec.cancel = mem[r].cancel /\ rec.code = mem[r].code
    BY <1>3, <1>4
  <2>3. QED
    BY <1>2, <1>4, <2>1, <2>2, GotoIs DEF Calm, Turns, Others, SavedAs, ghosts
<1>5. ASSUME NEW s, NEW rec, rec = [mem[r] EXCEPT !.rollback = s], mem' = [mem EXCEPT ![r] = rec],
             SaveFails(r, rec, "catch")
      PROVE  /\ Turns(r, "catch") /\ SaveFaults /\ mem'[r].phase = mem[r].phase
             /\ mem'[r].cancel = mem[r].cancel /\ mem'[r].code = mem[r].code
             /\ stored'[r] \in {stored[r], mem'[r]}
  <2>1. /\ mem'[r] = rec /\ \A q \in Runs \ {r} : mem'[q] = mem[q]
        /\ rec.phase = mem[r].phase /\ rec.cancel = mem[r].cancel /\ rec.code = mem[r].code
    BY <1>3, <1>5
  <2>2. QED
    BY <1>2, <1>5, <2>1, SaveFailsIs DEF Calm, Turns, Others, ghosts
<1>6. CASE Goto(r, "manual") /\ UNCHANGED <<stored, mem>>
  BY <1>2, <1>6, GotoIs DEF Calm, Turns, Others, SameRecord, ghosts
<1>7. QED
  BY <1>2, <1>4, <1>5, <1>6

\* Steps that move on, or save the copy as it is.
LEMMA PlainIs ==
  ASSUME TypeOK, NEW r \in Runs
  PROVE  /\ Check(r) => /\ pc[r] = "check" /\ Calm(r) /\ SameRecord(r)
                        /\ Turns(r, "poll1") \/ Turns(r, "manual") \/ Turns(r, "catch")
         /\ Pull(r) => pc[r] = "pull" /\ Calm(r) /\ SameRecord(r) /\ Turns(r, "poll2")
         /\ PruneBackups(r) => /\ pc[r] = "prune" /\ Calm(r) /\ SameRecord(r)
                               /\ Turns(r, "unlock") \/ Turns(r, "catch")
         /\ Backup(r) => /\ pc[r] = "dump" /\ Calm(r) /\ Turns(r, "swap")
                         /\ SavedAs(r, mem[r].phase) /\ mem'[r] = mem[r]
         /\ VerifyImages(r) => /\ pc[r] = "verify" /\ Calm(r) /\ Turns(r, "migrate0")
                               /\ SavedAs(r, mem[r].phase) /\ mem'[r] = mem[r]
         /\ StreamLog(r) => /\ pc[r] \in Streaming /\ Calm(r) /\ Turns(r, pc[r])
                            /\ SavedAs(r, mem[r].phase) /\ mem'[r] = mem[r]
<1> USE DEF At, disk, host, ghosts, Calm, SameRecord, SavedAs, Turns, Others
<1>1. Check(r) => /\ pc[r] = "check" /\ Calm(r) /\ SameRecord(r)
                  /\ Turns(r, "poll1") \/ Turns(r, "manual") \/ Turns(r, "catch")
  BY GotoIs DEF Check
<1>2. Pull(r) => pc[r] = "pull" /\ Calm(r) /\ SameRecord(r) /\ Turns(r, "poll2")
  BY GotoIs DEF Pull
<1>3. PruneBackups(r) => /\ pc[r] = "prune" /\ Calm(r) /\ SameRecord(r)
                         /\ Turns(r, "unlock") \/ Turns(r, "catch")
  BY GotoIs DEF PruneBackups
<1>4. Backup(r) => /\ pc[r] = "dump" /\ Calm(r) /\ Turns(r, "swap")
                   /\ SavedAs(r, mem[r].phase) /\ mem'[r] = mem[r]
  BY GotoIs, SaveIs DEF Backup
<1>5. VerifyImages(r) => /\ pc[r] = "verify" /\ Calm(r) /\ Turns(r, "migrate0")
                         /\ SavedAs(r, mem[r].phase) /\ mem'[r] = mem[r]
  BY GotoIs, SaveIs DEF VerifyImages
<1>6. StreamLog(r) => /\ pc[r] \in Streaming /\ Calm(r) /\ Turns(r, pc[r])
                      /\ SavedAs(r, mem[r].phase) /\ mem'[r] = mem[r]
  BY SaveIs, StepNames DEF StreamLog, Working
<1>7. QED
  BY <1>1, <1>2, <1>3, <1>4, <1>5, <1>6
LEMMA PollIs ==
  ASSUME TypeOK, NEW r \in Runs, NEW step \in Working, NEW next, Poll(r, step, next)
  PROVE  /\ pc[r] = step /\ lock' = lock /\ SameRecord(r)
         /\ UNCHANGED <<running, effects, orig>>
         /\ \/ /\ Turns(r, "cancel") /\ stored[r].cancel
               /\ env' = IF step = "poll2" THEN orig[r] ELSE env
            \/ Turns(r, next) /\ ~stored[r].cancel /\ env' = env
            \/ Turns(r, "catch") /\ SaveFaults
<1>1. pc[r] \in Owning
  BY DEF Poll, At, Working
<1>2. QED
  BY <1>1, GotoIs
  DEF Poll, CheckpointVersion, At, host, ghosts, SameRecord, Turns, Others

LEMMA CancelIs ==
  ASSUME TypeOK, NEW r \in Runs, CancelRun(r)
  PROVE  /\ pc[r] = "cancel" /\ Calm(r) /\ mem'[r] = mem[r] /\ Others(r) /\ pend' = pend
         /\ UNCHANGED <<rcv, crashes, abandoned>> /\ overwritten \subseteq overwritten'
         /\ \/ /\ Turns(r, "unlock") /\ CanTransition(stored[r].phase, "CANCELLED")
               /\ stored'[r].phase = "CANCELLED" /\ stored'[r].code = stored[r].code
            \/ Turns(r, "catch") /\ stored'[r] = stored[r]
            \/ /\ pc'[r] = "catch" /\ SaveFaults /\ r \in overwritten'
               /\ stored'[r].phase = "CANCELLED" /\ stored'[r].code = stored[r].code
<1> DEFINE rec == [stored[r] EXCEPT !.phase = "CANCELLED"]
<1>1. rec.phase = "CANCELLED" /\ rec.code = stored[r].code
  BY PhaseEdit DEF TypeOK
<1>2. /\ pc[r] = "cancel" /\ Calm(r) /\ agent = "ready" /\ UNCHANGED <<agent, rcv, pend, mem>>
      /\ UNCHANGED <<crashes, abandoned>>
      /\ \/ /\ stored' = [stored EXCEPT ![r] = rec] /\ Goto(r, "unlock")
            /\ UNCHANGED overwritten /\ CanTransition(stored[r].phase, "CANCELLED")
         \/ /\ SaveFails(r, rec, "catch")
            /\ overwritten' = overwritten \cup {q \in {r} : stored'[q] # stored[q]}
         \/ Goto(r, "catch") /\ UNCHANGED <<stored, overwritten>>
  BY DEF CancelRun, At, host, Calm
<1> HIDE DEF rec
<1>3. CASE /\ stored' = [stored EXCEPT ![r] = rec] /\ Goto(r, "unlock")
           /\ UNCHANGED overwritten /\ CanTransition(stored[r].phase, "CANCELLED")
  <2>1. stored'[r] = rec /\ \A q \in Runs \ {r} : stored'[q] = stored[q]
    BY <1>3 DEF TypeOK
  <2>2. QED
    BY <1>1, <1>2, <1>3, <2>1, GotoIs DEF Calm, Turns, Others, ghosts
<1>4. CASE /\ SaveFails(r, rec, "catch")
           /\ overwritten' = overwritten \cup {q \in {r} : stored'[q] # stored[q]}
  <2>1. /\ SaveFaults /\ pc'[r] = "catch" /\ stored'[r] \in {stored[r], rec}
        /\ \A q \in Runs \ {r} : pc'[q] = pc[q] /\ stored'[q] = stored[q]
    BY <1>4, SaveFailsIs
  <2>2. Others(r) /\ overwritten \subseteq overwritten'
    BY <1>2, <1>4, <2>1 DEF Calm, Others
  <2>3. CASE stored'[r] = stored[r]
    <3>1. overwritten' = overwritten
      BY <1>4, <2>3
    <3>2. QED
      BY <1>2, <2>1, <2>2, <2>3, <3>1 DEF Turns, ghosts
  <2>4. CASE stored'[r] # stored[r]
    BY <1>1, <1>2, <1>4, <2>1, <2>2, <2>4
  <2>5. QED
    BY <2>3, <2>4
<1>5. CASE Goto(r, "catch") /\ UNCHANGED <<stored, overwritten>>
  BY <1>2, <1>5, GotoIs DEF Calm, Turns, Others, ghosts
<1>6. QED
  BY <1>2, <1>3, <1>4, <1>5

LEMMA SwapIs ==
  ASSUME TypeOK, NEW r \in Runs, SwapVersion(r)
  PROVE  /\ pc[r] = "swap" /\ SameRecord(r) /\ lock' = lock /\ UNCHANGED <<running, effects>>
         /\ \/ Turns(r, "pull0") /\ orig'[r] = env
            \/ Turns(r, "catch") /\ SaveFaults
<1>1. \A q \in Runs \ {r} : orig'[q] = orig[q]
  BY DEF SwapVersion, TypeOK
<1>2. CASE orig' = [orig EXCEPT ![r] = env] /\ env' = mem[r].target /\ Goto(r, "pull0")
  <2>1. orig'[r] = env
    BY <1>2 DEF TypeOK
  <2>2. QED
    BY <1>1, <1>2, <2>1, GotoIs, StepNames
    DEF SwapVersion, At, host, ghosts, SameRecord, Turns, Others, Working
<1>3. CASE SaveFaults /\ Goto(r, "catch")
  BY <1>1, <1>3, GotoIs, StepNames
  DEF SwapVersion, At, host, ghosts, SameRecord, Turns, Others, Working
<1>4. QED
  BY <1>2, <1>3 DEF SwapVersion

LEMMA RestoreIs ==
  ASSUME TypeOK, NEW r \in Runs, RestoreVersion(r)
  PROVE  /\ pc[r] = "restore" /\ SameRecord(r)
         /\ lock' = lock /\ UNCHANGED <<running, effects, orig>>
         /\ \/ Turns(r, "reup") /\ env' = orig[r]
            \/ Turns(r, "rollbackfailed") /\ SaveFaults
BY GotoIs, StepNames
DEF RestoreVersion, At, host, ghosts, SameRecord, Turns, Others, Working

LEMMA CatchIs ==
  ASSUME TypeOK, NEW r \in Runs, Catch(r)
  PROVE  /\ pc[r] = "catch" /\ SameRecord(r) /\ lock' = lock
         /\ UNCHANGED <<running, effects, orig>>
         /\ \/ /\ mem[r].phase \in {"DEPLOYING", "HEALTHCHECK"}
               /\ Turns(r, "rollback") \/ Turns(r, "manual")
            \/ /\ mem[r].phase \notin {"DEPLOYING", "HEALTHCHECK"}
               /\ Turns(r, IF CanTransition(mem[r].phase, "FAILED") THEN "fail" ELSE "reject")
               /\ \/ orig[r] # NoVersion /\ env' = orig[r]
                  \/ orig[r] = NoVersion /\ env' = env
                  \/ SaveFaults
BY GotoIs, StepNames
DEF Catch, At, host, ghosts, SameRecord, Turns, Others, Working

\* Steps that reach the host.
Touched(r, what) ==
  /\ effects'[r] = effects[r] \cup {what} /\ lock' = lock /\ UNCHANGED <<env, orig>>

LEMMA MigrateIs ==
  ASSUME TypeOK, NEW r \in Runs, Migrate(r)
  PROVE  /\ pc[r] = "migrate" /\ Turns(r, "deploy") /\ Touched(r, "migrate")
         /\ SavedAs(r, mem[r].phase) /\ mem'[r] = mem[r]
BY GotoIs, SaveIs, DidIs DEF Migrate, At, ghosts, SavedAs, Turns, Others, Touched

LEMMA ComposeUpIs ==
  ASSUME TypeOK, NEW r \in Runs, NEW step, NEW next, ComposeUp(r, step, next)
  PROVE  pc[r] = step /\ Turns(r, next) /\ Touched(r, "up") /\ SameRecord(r)
BY GotoIs, DidIs DEF ComposeUp, At, disk, ghosts, SameRecord, Turns, Others, Touched

LEMMA HealthIs ==
  ASSUME TypeOK, NEW r \in Runs, NEW step, NEW v, NEW next, HealthPasses(r, step, v, next)
  PROVE  pc[r] = step /\ Turns(r, next) /\ Calm(r) /\ SameRecord(r)
BY GotoIs DEF HealthPasses, At, disk, host, ghosts, SameRecord, Turns, Others, Calm

LEMMA ThrowIs ==
  ASSUME TypeOK, NEW r \in Runs, Throw(r)
  PROVE  /\ Turns(r, "catch") /\ SameRecord(r)
         /\ \/ pc[r] \in {"release", "dump", "pull", "verify", "health"} /\ Calm(r)
            \/ pc[r] = "migrate" /\ Touched(r, "migrate")
            \/ pc[r] = "up" /\ Touched(r, "up")
BY GotoIs, DidIs DEF Throw, disk, host, ghosts, SameRecord, Turns, Others, Calm, Touched

LEMMA RollbackThrowsIs ==
  ASSUME TypeOK, NEW r \in Runs, RollbackThrows(r)
  PROVE  /\ Turns(r, "rollbackfailed") /\ SameRecord(r)
         /\ \/ pc[r] = "rehealth" /\ Calm(r)
            \/ pc[r] = "reup" /\ Touched(r, "up")
BY GotoIs, DidIs DEF RollbackThrows, disk, host, ghosts, SameRecord, Turns, Others, Calm, Touched

LEMMA ReleaseIs ==
  ASSUME TypeOK, NEW r \in Runs, ReleaseLock(r)
  PROVE  /\ pc[r] = "unlock" /\ Turns(r, "prune_runs") /\ SameRecord(r) /\ lock' = Free
         /\ UNCHANGED <<env, running, effects, orig>>
BY GotoIs DEF ReleaseLock, At, host, ghosts, SameRecord, Turns, Others

LEMMA SettleIs ==
  ASSUME TypeOK, NEW r \in Runs, NEW step, NEW phase, NEW s, NEW code, NEW next,
         Settle(r, step, phase, s, code, next)
  PROVE  /\ pc[r] = step
         /\ CanTransition(mem[r].phase, phase) =>
              /\ Calm(r)
              /\ mem'[r].phase = phase /\ mem'[r].cancel = mem[r].cancel /\ mem'[r].code = code
              /\ \/ Turns(r, next) /\ stored'[r] = mem'[r]
                 \/ /\ Turns(r, IF step = "complete" THEN "catch" ELSE "reject") /\ SaveFaults
                    /\ stored'[r] \in {stored[r], mem'[r]}
<1>0. pc[r] = step
  BY DEF Settle, At
<1> SUFFICES ASSUME CanTransition(mem[r].phase, phase)
             PROVE  /\ Calm(r)
                    /\ mem'[r].phase = phase /\ mem'[r].cancel = mem[r].cancel
                    /\ mem'[r].code = code
                    /\ \/ Turns(r, next) /\ stored'[r] = mem'[r]
                       \/ /\ Turns(r, IF step = "complete" THEN "catch" ELSE "reject")
                          /\ SaveFaults /\ stored'[r] \in {stored[r], mem'[r]}
  BY <1>0
<1> DEFINE rec == [mem[r] EXCEPT !.phase = phase, !.rollback = s, !.code = code]
           failed == IF step = "complete" THEN "catch" ELSE "reject"
<1>1. rec.phase = phase /\ rec.cancel = mem[r].cancel /\ rec.code = code
  <2>1. mem[r] \in Record
    BY DEF TypeOK
  <2>2. QED
    BY <2>1 DEF Record
<1>2. /\ pc[r] = step /\ Calm(r) /\ agent = "ready" /\ UNCHANGED <<agent, rcv, pend, ghosts>>
      /\ mem' = [mem EXCEPT ![r] = rec]
      /\ \/ stored' = [stored EXCEPT ![r] = rec] /\ Goto(r, next)
         \/ SaveFails(r, rec, failed)
  BY DEF Settle, Unsaved, At, host, ghosts, Calm
<1> HIDE DEF rec, failed
<1>3. mem'[r] = rec /\ \A q \in Runs \ {r} : mem'[q] = mem[q]
  BY <1>2 DEF TypeOK
<1>4. CASE stored' = [stored EXCEPT ![r] = rec] /\ Goto(r, next)
  <2>1. stored'[r] = rec /\ \A q \in Runs \ {r} : stored'[q] = stored[q]
    BY <1>4 DEF TypeOK
  <2>2. QED
    BY <1>1, <1>2, <1>3, <1>4, <2>1, GotoIs DEF Calm, Turns, Others, ghosts
<1>5. CASE SaveFails(r, rec, failed)
  <2>1. Turns(r, failed) /\ SaveFaults /\ stored'[r] \in {stored[r], rec}
    BY <1>2, <1>3, <1>5, SaveFailsIs DEF Calm, Turns, Others, ghosts
  <2>2. QED
    BY <1>1, <1>2, <1>3, <2>1 DEF failed
<1>6. QED
  BY <1>2, <1>4, <1>5

\* The ends of execute() are all allowed by the table.
LEMMA TransitionTable ==
  /\ \A p \in Phases \ Terminal : "FAILED" \in Transitions[p]
  /\ \A p \in Phases \ (Terminal \cup {"PENDING"}) :
       "MANUAL_INTERVENTION_REQUIRED" \in Transitions[p]
  /\ \A p \in {"DEPLOYING", "HEALTHCHECK"} : "ROLLING_BACK" \in Transitions[p]
  /\ "COMPLETED" \in Transitions["HEALTHCHECK"]
<1>1. \A p \in Phases \ Terminal : "FAILED" \in Transitions[p]
  BY DEF Transitions, Phases, Early, Terminal
<1>2. \A p \in Phases \ (Terminal \cup {"PENDING"}) :
        "MANUAL_INTERVENTION_REQUIRED" \in Transitions[p]
  BY DEF Transitions, Phases, Early, Terminal
<1>3. \A p \in {"DEPLOYING", "HEALTHCHECK"} : "ROLLING_BACK" \in Transitions[p]
  BY DEF Transitions, Phases, Early, Terminal
<1>4. "COMPLETED" \in Transitions["HEALTHCHECK"]
  BY DEF Transitions, Phases, Early, Terminal
<1>5. QED
  BY <1>1, <1>2, <1>3, <1>4

LEMMA SettleAllowed ==
  ASSUME NEW r \in Runs, PhaseAt(r)
  PROVE  /\ pc[r] = "complete" => CanTransition(mem[r].phase, "COMPLETED")
         /\ pc[r] \in {"fail", "rolledback"} => CanTransition(mem[r].phase, "FAILED")
         /\ pc[r] \in {"manual", "rollbackfailed"} =>
              CanTransition(mem[r].phase, "MANUAL_INTERVENTION_REQUIRED")
BY TransitionTable DEF CanTransition, PhaseAt, Phases, Early, Terminal

-----------------------------------------------------------------------------
(***************************************************************************)
(* RecordInv is preserved.                                                 *)
(***************************************************************************)
\* The phases from which catch fails the run, and the one from which it cannot.
LEMMA CatchTable ==
  /\ \A p \in Early \cup {"MIGRATING"} : CanTransition(p, "FAILED")
  /\ ~CanTransition("COMPLETED", "FAILED")
BY DEF CanTransition, Transitions, Phases, Early, Terminal

LEMMA BothIs ==
  ASSUME TypeOK, NEW r \in Runs, NEW what \in Both
  PROVE  /\ effects[r] = Both => effects[r] \cup {what} = Both
         /\ "migrate" \in effects[r] => effects[r] \cup {"up"} = Both
BY DEF TypeOK, Both

LEMMA InstallInv ==
  ASSUME RecordInv, NEW r \in Runs, Install(r)
  PROVE  RecoveryAt' /\ \A q \in Runs : RunInv(q)'
<1>0. TypeOK /\ RunInv(r)
  BY DEF RecordInv, HostInv, TypeInv
<1>1. Others(r)
  BY <1>0, AcquireIs, WriteLockIs, AwaitIs, SaveFirstIs DEF Install, Turns
<1>2. RunInv(r)'
  <2> USE <1>0 DEF RunInv, PhaseAt, DoneAt, DiskAt, PendAt, OwnAt, EnvAt, Synced, Failing,
                   Unrecorded, Asking, Over, Early, Terminal, Phases, Exists, Unfinished,
                   Turns, Others, Calm, SameRecord, CanCancel, ghosts
  <2>1. CASE AcquireLock(r)
    BY <2>1, AcquireIs
  <2>2. CASE WriteLock(r)
    BY <2>2, WriteLockIs
  <2>3. CASE AwaitDuplicate(r)
    BY <2>3, AwaitIs
  <2>4. CASE SaveFirst(r)
    BY <2>4, SaveFirstIs
  <2>5. QED
    BY <2>1, <2>2, <2>3, <2>4 DEF Install
<1>3. QED
  BY <1>1, <1>2, RunStep

LEMMA RequestInv ==
  ASSUME RecordInv, NEW r \in Runs, NEW k \in Keys, NEW t \in Versions, Request(r, k, t)
  PROVE  RecoveryAt' /\ \A q \in Runs : RunInv(q)'
<1>0. TypeOK /\ RunInv(r)
  BY DEF RecordInv, HostInv, TypeInv
<1>1. Others(r)
  BY <1>0, RequestIs DEF Turns
<1>2. RunInv(r)'
  <2> USE <1>0 DEF RunInv, PhaseAt, DoneAt, DiskAt, PendAt, OwnAt, EnvAt, Synced, Failing,
                   Unrecorded, Asking, Over, Early, Terminal, Phases, Exists, Unfinished,
                   Turns, Others, Calm, ghosts
  <2>1. CASE Turns(r, "found")
    BY <2>1, RequestIs
  <2>2. CASE Turns(r, "done") \/ Turns(r, "refused")
    <3>1. /\ pc[r] = "idle" /\ pc'[r] \in {"done", "refused"} /\ mem'[r] = mem[r]
          /\ stored'[r] = stored[r] /\ effects'[r] = effects[r] /\ pend'[r] = pend[r]
          /\ orig'[r] = orig[r] /\ env' = env /\ agent' = agent /\ overwritten' = overwritten
      BY <2>2, RequestIs
    <3>2. QED
      BY <3>1
  <2>3. QED
    BY <2>1, <2>2, RequestIs
<1>3. QED
  BY <1>1, <1>2, RunStep

\* A run that goes on under its lock. The steps are taken by what they change.
LEMMA ExecuteInv ==
  ASSUME RecordInv, NEW r \in Runs, Execute(r) \/ StreamLog(r), ~PruneRuns(r), ~Reject(r)
  PROVE  Others(r) /\ RunInv(r)'
<1>0. TypeOK /\ RunInv(r)
  BY DEF RecordInv, HostInv, TypeInv
<1> USE <1>0 DEF RunInv, PhaseAt, DoneAt, DiskAt, PendAt, OwnAt, EnvAt, Synced, Failing,
                 Unrecorded, Asking, Over, Early, Terminal, Phases, Exists, Unfinished,
                 Turns, Others, Calm, SameRecord, SavedAs, FailedAs, ghosts
<1>1. CASE EnterPhase(r)
  <2>1. CASE Enter(r, "start", "PREFLIGHT", "release")
    BY <2>1, EnterIs
  <2>2. CASE Enter(r, "backup", "BACKUP", "dump")
    BY <2>2, EnterIs
  <2>3. CASE Enter(r, "pull0", "PULLING", "pull")
    BY <2>3, EnterIs
  <2>4. CASE Enter(r, "verify0", "VERIFYING", "verify")
    BY <2>4, EnterIs
  <2>5. CASE Enter(r, "migrate0", "MIGRATING", "migrate")
    BY <2>5, EnterIs
  <2>6. CASE Enter(r, "deploy", "DEPLOYING", "up")
    BY <2>6, EnterIs
  <2>7. CASE Enter(r, "health0", "HEALTHCHECK", "health")
    BY <2>7, EnterIs
  <2>8. CASE Enter(r, "rollback", "ROLLING_BACK", "restore")
    BY <2>8, EnterIs
  <2>9. QED
    BY <1>1, <2>1, <2>2, <2>3, <2>4, <2>5, <2>6, <2>7, <2>8 DEF EnterPhase
<1>2. CASE FetchRelease(r)
  BY <1>2, FetchIs
<1>3. CASE Check(r) \/ Pull(r)
  BY <1>3, PlainIs
<1>4. CASE PruneBackups(r)
  BY <1>4, PlainIs
<1>5. CASE Backup(r) \/ VerifyImages(r)
  BY <1>5, PlainIs
<1>6. CASE StreamLog(r)
  BY <1>6, PlainIs DEF Streaming
<1>7. CASE Poll(r, "poll1", "backup") \/ Poll(r, "poll2", "verify0")
  BY <1>7, PollIs, StepNames
<1>8. CASE CancelRun(r)
  BY <1>8, CancelIs
<1>9. CASE SwapVersion(r) \/ RestoreVersion(r)
  BY <1>9, SwapIs, RestoreIs
<1>10. CASE Migrate(r)
  BY <1>10, MigrateIs DEF Touched
<1>11. CASE ComposeUp(r, "up", "health0") \/ ComposeUp(r, "reup", "rehealth")
  BY <1>11, ComposeUpIs, BothIs DEF Touched, Both
<1>12. CASE \/ HealthPasses(r, "health", mem[r].target, "complete")
            \/ HealthPasses(r, "rehealth", mem[r].installed, "rolledback")
  BY <1>12, HealthIs
<1>13. CASE Throw(r)
  BY <1>13, ThrowIs, BothIs DEF Touched, Both
<1>14. CASE RollbackThrows(r)
  BY <1>14, RollbackThrowsIs, BothIs DEF Touched, Both
<1>15. CASE Catch(r)
  BY <1>15, CatchIs, CatchTable
<1>16. CASE SettleRun(r)
  <2>1. CASE Settle(r, "complete", "COMPLETED", "NOT_REQUIRED", "NONE", "prune")
    BY <2>1, SettleIs, SettleAllowed
  <2>2. CASE Settle(r, "fail", "FAILED", mem[r].rollback, "STEP_ERROR", "unlock")
    BY <2>2, SettleIs, SettleAllowed
  <2>3. CASE Settle(r, "manual", "MANUAL_INTERVENTION_REQUIRED", "UNSAFE", "STEP_ERROR", "unlock")
    BY <2>3, SettleIs, SettleAllowed
  <2>4. CASE Settle(r, "rolledback", "FAILED", "COMPLETED", "STEP_ERROR", "unlock")
    BY <2>4, SettleIs, SettleAllowed
  <2>5. CASE Settle(r, "rollbackfailed", "MANUAL_INTERVENTION_REQUIRED", "FAILED",
                    "ROLLBACK_FAILED", "unlock")
    BY <2>5, SettleIs, SettleAllowed
  <2>6. QED
    BY <1>16, <2>1, <2>2, <2>3, <2>4, <2>5 DEF SettleRun
<1>17. CASE ReleaseLock(r)
  BY <1>17, ReleaseIs
<1>18. QED
  BY <1>1, <1>2, <1>3, <1>4, <1>5, <1>6, <1>7, <1>8, <1>9, <1>10, <1>11, <1>12, <1>13, <1>14,
     <1>15, <1>16, <1>17
  DEF Execute
\* Pruning takes away terminal records only, and no executor still counts on one.
LEMMA PruneIs ==
  ASSUME TypeOK, NEW r \in Runs, PruneRuns(r)
  PROVE  /\ pc[r] = "prune_runs" /\ pc'[r] = "done" /\ agent = "ready"
         /\ UNCHANGED <<agent, rcv, lock, env, running, effects, pend, mem, orig, ghosts>>
         /\ \A q \in Runs \ {r} : pc'[q] = pc[q]
         /\ \A q \in Runs : \/ stored'[q] = stored[q]
                            \/ stored[q].phase \in Terminal /\ stored'[q] = NoRec
BY GotoIs DEF PruneRuns, Prunable, At, host, ghosts, TypeOK

LEMMA PruneInv ==
  ASSUME RecordInv, NEW r \in Runs, PruneRuns(r)
  PROVE  RecoveryAt' /\ \A q \in Runs : RunInv(q)'
<1>0. TypeOK
  BY DEF RecordInv, HostInv, TypeInv
<1>1. RecoveryAt'
  BY <1>0, PruneIs DEF RecoveryAt, Settling
<1>2. ASSUME NEW q \in Runs PROVE RunInv(q)'
  <2>0. RunInv(q)
    BY DEF RecordInv
  <2>1. NoRec.phase = "NONE" /\ NoRec.code = "NONE" /\ NoRec.cancel = FALSE
    BY DEF NoRec
  <2>2. /\ pc'[q] = pc[q] \/ (pc[q] = "prune_runs" /\ pc'[q] = "done")
        /\ UNCHANGED <<agent, env, effects, pend, mem, orig, overwritten>>
        /\ \/ stored'[q] = stored[q]
           \/ stored[q].phase \in Terminal /\ stored'[q] = NoRec
    BY <1>0, PruneIs DEF ghosts
  <2>3. CASE stored'[q] = stored[q]
    BY <2>0, <2>2, <2>3
    DEF RunInv, PhaseAt, DoneAt, DiskAt, PendAt, OwnAt, EnvAt, Synced, Failing, Unrecorded,
        Asking, Over, Exists, Unfinished
  <2>4. CASE stored[q].phase \in Terminal /\ stored'[q] = NoRec
    BY <2>0, <2>1, <2>2, <2>4
    DEF RunInv, PhaseAt, DoneAt, DiskAt, PendAt, OwnAt, EnvAt, Synced, Failing, Unrecorded,
        Asking, Over, Exists, Unfinished, Early, Terminal, Phases
  <2>5. QED
    BY <2>2, <2>3, <2>4
<1>3. QED
  BY <1>1, <1>2

\* A process that stops has at most begun what its commands were doing.
Begun(q) ==
  \/ effects'[q] = effects[q]
  \/ /\ pc[q] \in {"migrate", "up", "reup"}
     /\ \E what \in Both : effects'[q] = effects[q] \cup {what}

LEMMA DieIs ==
  ASSUME TypeOK, Die
  PROVE  Stop /\ \A q \in Runs : Begun(q)
<1> SUFFICES ASSUME NEW q \in Runs PROVE Begun(q)
  BY DEF Die
<1>1. effects'[q] = effects[q] \cup (IF pc[q] = "migrate" THEN {"migrate"} ELSE {})
                               \cup (IF pc[q] \in {"up", "reup"} THEN {"up"} ELSE {})
  BY DEF Die
<1>2. CASE pc[q] = "migrate"
  <2>1. effects'[q] = effects[q] \cup {"migrate"}
    BY <1>1, <1>2
  <2>2. QED
    BY <1>2, <2>1 DEF Begun, Both
<1>3. CASE pc[q] \in {"up", "reup"}
  <2>1. effects'[q] = effects[q] \cup {"up"}
    BY <1>1, <1>3
  <2>2. QED
    BY <1>3, <2>1 DEF Begun, Both
<1>4. CASE pc[q] \notin {"migrate", "up", "reup"}
  BY <1>1, <1>4 DEF Begun
<1>5. QED
  BY <1>2, <1>3, <1>4

LEMMA StopInv ==
  ASSUME RecordInv, Stop, \A q \in Runs : Begun(q)
  PROVE  RecoveryAt' /\ \A q \in Runs : RunInv(q)'
<1>0. TypeOK
  BY DEF RecordInv, HostInv, TypeInv
<1>1. /\ agent' = "down" /\ stored' = stored /\ overwritten' = overwritten
      /\ \A q \in Runs : /\ pc'[q] = IF pc[q] \in Over \cup {"idle"} THEN pc[q] ELSE "lost"
                         /\ mem'[q] = NoRec /\ orig'[q] = NoVersion /\ pend'[q] = NoRec
  BY DEF Stop
<1>2. RecoveryAt'
  BY <1>1 DEF RecoveryAt, Settling, Over
<1>3. ASSUME NEW q \in Runs PROVE RunInv(q)'
  <2>0. RunInv(q) /\ Begun(q)
    BY DEF RecordInv
  <2>1. NoRec.phase = "NONE" /\ NoRec.code = "NONE" /\ NoRec.cancel = FALSE
    BY DEF NoRec
  <2>2. effects[q] = Both => effects'[q] = Both
    BY <1>0, <2>0, BothIs DEF Begun
  <2>3. effects'[q] = effects[q] \/ pc[q] \in {"migrate", "up", "reup"}
    BY <2>0 DEF Begun
  <2>4. QED
    BY <1>1, <2>0, <2>1, <2>2, <2>3
    DEF RunInv, PhaseAt, DoneAt, DiskAt, PendAt, OwnAt, EnvAt, Synced, Failing, Unrecorded,
        Asking, Over, Exists, Unfinished, Early, Terminal, Phases
<1>4. QED
  BY <1>2, <1>3

\* A cancellation loads a record from before the run touched the host, and saves it back.
LEMMA CancelLoadIs ==
  ASSUME TypeOK, NEW r \in Runs, CancelLoad(r)
  PROVE  /\ Others(r) /\ UNCHANGED <<rcv, lock, env, running, effects, stored, pc, mem, orig, ghosts>>
         /\ r \in Cancels /\ Exists(stored[r]) /\ CanCancel(stored[r].phase)
         /\ pend'[r] = stored[r]
BY DEF CancelLoad, TypeOK, Others, disk, host, local, ghosts

LEMMA CancelSaveIs ==
  ASSUME TypeOK, NEW r \in Runs, CancelSave(r)
  PROVE  /\ Others(r) /\ UNCHANGED <<rcv, lock, env, running, effects, pc, mem, orig>>
         /\ UNCHANGED <<crashes, abandoned>> /\ overwritten \subseteq overwritten'
         /\ Exists(pend[r]) /\ pend'[r] = NoRec
         /\ stored'[r].phase = pend[r].phase /\ stored'[r].code = pend[r].code
         /\ r \notin overwritten' => pend[r].phase = stored[r].phase
<1> DEFINE rec == [pend[r] EXCEPT !.cancel = TRUE]
<1>1. pend[r] \in Record
  BY DEF TypeOK
<1>2. rec.phase = pend[r].phase /\ rec.code = pend[r].code
  BY <1>1, CancelEdit
<1>3. stored' = [stored EXCEPT ![r] = rec]
  BY DEF CancelSave
<1> HIDE DEF rec
<1>4. stored'[r] = rec /\ \A q \in Runs \ {r} : stored'[q] = stored[q]
  BY <1>3 DEF TypeOK
<1>5. pend'[r] = NoRec /\ \A q \in Runs \ {r} : pend'[q] = pend[q]
  BY DEF CancelSave, TypeOK
<1>6. /\ overwritten \subseteq overwritten' /\ (r \notin overwritten' => pend[r].phase = stored[r].phase)
      /\ \A q \in Runs \ {r} : q \in overwritten' <=> q \in overwritten
  BY DEF CancelSave
<1>7. QED
  BY <1>2, <1>4, <1>5, <1>6 DEF CancelSave, Others, host, local

LEMMA CancelInv ==
  ASSUME RecordInv, NEW r \in Runs, CancelLoad(r) \/ CancelSave(r)
  PROVE  RecoveryAt' /\ \A q \in Runs : RunInv(q)'
<1>0. TypeOK /\ RunInv(r)
  BY DEF RecordInv, HostInv, TypeInv
<1>1. Others(r)
  BY <1>0, CancelLoadIs, CancelSaveIs
<1>2. RunInv(r)'
  <2> USE <1>0, <1>1 DEF RunInv, PhaseAt, DoneAt, DiskAt, PendAt, EnvAt, Unrecorded, Asking,
                         Exists, CanCancel, Terminal, Others
  <2>1. CASE CancelLoad(r)
    <3>1. OwnAt(r)' <=> OwnAt(r)
      BY <2>1, CancelLoadIs DEF OwnAt
    <3>2. QED
      BY <2>1, <3>1, CancelLoadIs DEF ghosts
  <2>2. CASE CancelSave(r)
    <3>1. NoRec.phase = "NONE"
      BY DEF NoRec
    <3>2. r \notin overwritten' => OwnAt(r)'
      <4>1. SUFFICES ASSUME r \notin overwritten' PROVE OwnAt(r)'
        OBVIOUS
      <4>2. /\ OwnAt(r) /\ stored'[r].phase = stored[r].phase /\ stored[r].phase \notin Terminal
            /\ stored[r].code = "NONE" /\ stored'[r].code = "NONE"
            /\ UNCHANGED <<effects, pc, mem>>
        BY <2>2, <4>1, CancelSaveIs
      <4>3. QED
        BY <4>2 DEF OwnAt, Unfinished
    <3>3. QED
      BY <2>2, <3>1, <3>2, CancelSaveIs
  <2>3. QED
    BY <2>1, <2>2
<1>3. QED
  BY <1>1, <1>2, RunStep
-----------------------------------------------------------------------------
(***************************************************************************)
(* A start, and the recovery of an interrupted run.                        *)
(***************************************************************************)
Settled(phase, code) ==
  /\ stored'[rcv].phase = phase /\ stored'[rcv].code = code
  /\ stored'[rcv].cancel = stored[rcv].cancel
  /\ \A q \in Runs \ {rcv} : stored'[q] = stored[q]

LEMMA OutcomeIs ==
  ASSUME TypeOK, rcv \in Runs, NEW phase, NEW s, NEW code, Outcome(phase, s, code)
  PROVE  Settled(phase, code)
<1> DEFINE rec == [stored[rcv] EXCEPT !.phase = phase, !.rollback = s, !.code = code]
<1>1. stored[rcv] \in Record
  BY DEF TypeOK
<1>2. rec.phase = phase /\ rec.code = code /\ rec.cancel = stored[rcv].cancel
  BY <1>1 DEF Record
<1>3. stored' = [stored EXCEPT ![rcv] = rec]
  BY DEF Outcome
<1> HIDE DEF rec
<1>4. QED
  BY <1>2, <1>3 DEF TypeOK, Settled

\* A starting agent disturbs no run but the one it settles.
LEMMA BootStep ==
  ASSUME RecordInv, agent # "ready", NEW R, R \subseteq Runs,
         \A q \in R : /\ pc'[q] = pc[q] /\ mem'[q] = mem[q] /\ stored'[q] = stored[q]
                      /\ effects'[q] = effects[q] /\ pend'[q] = pend[q] /\ orig'[q] = orig[q]
                      /\ (q \in overwritten' <=> q \in overwritten)
  PROVE  \A q \in R : RunInv(q)'
<1> SUFFICES ASSUME NEW q \in R PROVE RunInv(q)'
  OBVIOUS
<1>1. RunInv(q) /\ pc[q] \notin Owning /\ ~Exists(pend[q])
  BY DEF RecordInv, HostInv, Quiet, RunInv, PendAt
<1>2. QED
  BY <1>1, RunFrame DEF Exists

LEMMA TakeInv ==
  ASSUME RecordInv, TakeInterruptedRun
  PROVE  RecoveryAt' /\ \A q \in Runs : RunInv(q)'
<1> USE DEF TakeInterruptedRun
<1>0. TypeOK
  BY DEF RecordInv, HostInv, TypeInv
<1>1. \A q \in Runs : RunInv(q)'
  BY BootStep DEF host, local, ghosts
<1>2. /\ agent = "down" /\ lock' = Free /\ stored' = stored /\ pc' = pc /\ rcv' = TakenRun
      /\ agent' = IF TakenRun = NoRun THEN "ready" ELSE RecoveryStep(stored[TakenRun].phase)
  BY DEF host, local
<1>3. CASE TakenRun = NoRun
  BY <1>1, <1>2, <1>3 DEF RecoveryAt, Settling
<1>4. CASE TakenRun # NoRun
  <2>1. TakenRun \in Runs /\ Unfinished(stored[TakenRun])
    BY <1>0, <1>4 DEF TakenRun, TypeOK, TakeInterruptedRun
  <2>2. stored[TakenRun].phase \in Phases \ Terminal
    BY <1>0, <2>1 DEF TypeOK, Record, Unfinished, Exists
  <2>3. QED
    BY <1>1, <1>2, <1>4, <2>2
    DEF RecoveryAt, RecoveryStep, SafeToRetry, Settling, Phases, Early, Terminal, RecordInv
<1>5. QED
  BY <1>1, <1>3, <1>4

\* The steps of the recovery, by what they change.
LEMMA RecoverIs ==
  ASSUME TypeInv, RecoveryAt, Recover \/ OutcomeUnlogged \/ OutcomeRevised
  PROVE  /\ rcv \in Runs /\ agent # "ready"
         /\ UNCHANGED <<lock, env, running, effects, pend, pc, mem, orig, ghosts>>
         /\ \/ agent = "retry" /\ Settled("FAILED", "SAFE_TO_RETRY")
            \/ /\ agent \in {"settle", "unsure"}
               /\ Settled("MANUAL_INTERVENTION_REQUIRED", "RESTART_UNSURE")
            \/ /\ agent = "settle" /\ stored[rcv].phase = "HEALTHCHECK"
               /\ Settled("COMPLETED", "NONE")
            \/ /\ agent = "settle" /\ stored[rcv].phase = "ROLLING_BACK"
               /\ Settled("FAILED", "ROLLBACK_RECOVERED")
         /\ \/ agent' \in {"ready", "down"} /\ rcv' = NoRun
            \/ /\ agent = "settle" /\ agent' = "unsure" /\ rcv' = rcv
               /\ stored'[rcv].phase \in {"COMPLETED", "FAILED"}
<1>1. rcv \in Runs /\ agent # "ready"
  BY DEF Recover, OutcomeUnlogged, OutcomeRevised, HealthyTarget, HealthyAgain, Healthy, TypeInv,
         RecoveryOK, Settling
<1>2. TypeOK
  BY DEF TypeInv
<1> USE <1>1, <1>2, OutcomeIs DEF host, local, HealthyTarget, HealthyAgain, Healthy, ghosts
<1>3. CASE Recover
  <2>1. /\ agent = "retry" => CanTransition(stored[rcv].phase, "FAILED")
        /\ agent = "settle" => CanTransition(stored[rcv].phase, "MANUAL_INTERVENTION_REQUIRED")
    BY TransitionTable DEF RecoveryAt, CanTransition, Phases, Early, Terminal
  <2>2. QED
    BY <1>3, <2>1 DEF Recover, Recovered
<1>4. CASE OutcomeUnlogged
  <2>1. \/ /\ agent = "settle" /\ stored[rcv].phase = "HEALTHCHECK"
           /\ Settled("COMPLETED", "NONE")
        \/ /\ agent = "settle" /\ stored[rcv].phase = "ROLLING_BACK"
           /\ Settled("FAILED", "ROLLBACK_RECOVERED")
    BY <1>4 DEF OutcomeUnlogged
  <2>2. stored'[rcv].phase \in {"COMPLETED", "FAILED"}
    BY <2>1 DEF Settled
  <2>3. QED
    BY <1>4, <2>1, <2>2 DEF OutcomeUnlogged
<1>5. CASE OutcomeRevised
  BY <1>5 DEF OutcomeRevised
<1>6. QED
  BY <1>3, <1>4, <1>5

LEMMA RecoverInv ==
  ASSUME RecordInv, Recover \/ OutcomeUnlogged \/ OutcomeRevised
  PROVE  RecoveryAt' /\ \A q \in Runs : RunInv(q)'
<1>0. TypeInv /\ RecoveryAt /\ rcv \in Runs /\ agent \in Settling
  BY DEF RecordInv, HostInv, TypeInv, RecoveryOK, Recover, OutcomeUnlogged, OutcomeRevised,
         HealthyTarget, HealthyAgain, Healthy, Settling
<1>1. PICK r \in Runs : r = rcv
  BY <1>0
<1>2. RunInv(r) /\ pc[r] \in Over \cup {"idle"} /\ ~Exists(pend[r])
  BY <1>0, <1>1 DEF RecordInv, RecoveryAt, RunInv, PendAt, Settling
<1>3. RecoveryAt'
  BY <1>0, RecoverIs DEF RecordInv, RecoveryAt, Settling
<1>4. \A q \in Runs \ {r} : RunInv(q)'
  <2>1. \A q \in Runs \ {r} : stored'[q] = stored[q]
    BY <1>0, <1>1, RecoverIs DEF Settled
  <2>2. QED
    BY <1>0, <2>1, RecoverIs, BootStep DEF ghosts
<1>5. pc[r] \in Over
  <2>1. Exists(stored[r])
    BY <1>0, <1>1 DEF RecordInv, RecoveryAt, Settling, Early, Exists
  <2>2. QED
    BY <1>2, <2>1 DEF RunInv, DiskAt, Unrecorded, Asking
<1>6. /\ pc'[r] = pc[r] /\ mem'[r] = mem[r] /\ effects'[r] = effects[r]
      /\ orig'[r] = orig[r] /\ pend'[r] = pend[r] /\ env' = env
      /\ stored'[r].cancel = stored[r].cancel /\ overwritten' = overwritten
  BY <1>0, <1>1, RecoverIs DEF Settled, ghosts
<1>7. \/ /\ stored'[r].phase = "FAILED" /\ stored'[r].code = "SAFE_TO_RETRY"
         /\ stored[r].phase \in Early
      \/ /\ stored'[r].phase = "MANUAL_INTERVENTION_REQUIRED"
         /\ stored'[r].code = "RESTART_UNSURE"
      \/ /\ stored'[r].phase = "COMPLETED" /\ stored'[r].code = "NONE"
         /\ stored[r].phase = "HEALTHCHECK"
      \/ /\ stored'[r].phase = "FAILED" /\ stored'[r].code = "ROLLBACK_RECOVERED"
         /\ stored[r].phase = "ROLLING_BACK"
  BY <1>0, <1>1, RecoverIs DEF Settled, RecordInv, RecoveryAt
<1>8. RunInv(r)'
  <2>1. PhaseAt(r)' /\ DoneAt(r)' /\ PendAt(r)' /\ EnvAt(r)' /\ (pc'[r] = "leaked" => SaveFaults)
    BY <1>2, <1>5, <1>6 DEF RunInv, PhaseAt, DoneAt, PendAt, EnvAt, Exists, Over
  <2>2. DiskAt(r)' /\ (r \notin overwritten => OwnAt(r)') /\ pc'[r] \notin Unrecorded
    BY <1>2, <1>5, <1>6, <1>7
    DEF RunInv, DiskAt, OwnAt, Synced, Failing, Unrecorded, Asking, Over, Exists, Unfinished,
        Early, Terminal, Phases
  <2>3. QED
    BY <1>6, <2>1, <2>2 DEF RunInv
<1>9. QED
  BY <1>3, <1>4, <1>8

LEMMA BootInv ==
  ASSUME RecordInv, Boot
  PROVE  RecoveryAt' /\ \A q \in Runs : RunInv(q)'
<1>1. CASE TakeInterruptedRun
  BY <1>1, TakeInv
<1>2. CASE RecoverVersion
  <2>1. \A q \in Runs : RunInv(q)'
    BY <1>2, BootStep DEF RecoverVersion, host, local, ghosts
  <2>2. RecoveryAt'
    BY <1>2 DEF RecordInv, RecoverVersion, host, local, RecoveryAt, Settling
  <2>3. QED
    BY <2>1, <2>2
<1>3. CASE Recover \/ OutcomeUnlogged \/ OutcomeRevised
  BY <1>3, RecoverInv
<1>4. CASE RecoveryFails
  BY <1>4, StopInv DEF RecoveryFails, host, Begun
<1>5. QED
  BY <1>1, <1>2, <1>3, <1>4 DEF Boot

LEMMA InitRecordInv == Init => RecordInv
<1> SUFFICES ASSUME Init PROVE RecordInv
  OBVIOUS
<1>1. HostInv
  <2>1. "idle" \notin Owning
    BY DEF Owning
  <2>2. QED
    BY <2>1, InitTypeInv DEF Init, HostInv, HostLock, Quiet
<1>2. RecoveryAt
  BY DEF Init, RecoveryAt, Settling
<1>3. ASSUME NEW r \in Runs PROVE RunInv(r)
  <2>1. NoRec.phase = "NONE" /\ NoRec.code = "NONE" /\ NoRec.cancel = FALSE
    BY DEF NoRec
  <2>2. /\ pc[r] = "idle" /\ mem[r] = NoRec /\ stored[r] = NoRec /\ pend[r] = NoRec
        /\ effects[r] = {} /\ orig[r] = NoVersion /\ r \notin overwritten
    BY DEF Init
  <2>3. QED
    BY <2>1, <2>2
    DEF RunInv, PhaseAt, DoneAt, DiskAt, PendAt, OwnAt, EnvAt, Synced, Failing, Unrecorded,
        Asking, Over, Exists, Unfinished, Early, Terminal, Phases
<1>4. QED
  BY <1>1, <1>2, <1>3 DEF RecordInv

LEMMA NextRecordInv == RecordInv /\ [Next]_vars => RecordInv'
<1> SUFFICES ASSUME RecordInv, [Next]_vars PROVE RecoveryAt' /\ \A q \in Runs : RunInv(q)'
  BY NextHostInv DEF RecordInv
<1>0. TypeOK
  BY DEF RecordInv, HostInv, TypeInv
<1>1. ASSUME NEW r \in Runs, NEW k \in Keys, NEW t \in Versions, Request(r, k, t)
      PROVE  RecoveryAt' /\ \A q \in Runs : RunInv(q)'
  BY <1>1, RequestInv
<1>2. ASSUME NEW r \in Runs, Install(r) PROVE RecoveryAt' /\ \A q \in Runs : RunInv(q)'
  BY <1>2, InstallInv
<1>3. ASSUME NEW r \in Runs, Execute(r) \/ StreamLog(r)
      PROVE  RecoveryAt' /\ \A q \in Runs : RunInv(q)'
  <2>1. CASE PruneRuns(r)
    BY <2>1, PruneInv
  <2>2. CASE Reject(r)
    BY <2>2, StopInv DEF Reject, host, Begun
  <2>3. CASE ~PruneRuns(r) /\ ~Reject(r)
    BY <1>3, <2>3, ExecuteInv, RunStep
  <2>4. QED
    BY <2>1, <2>2, <2>3
<1>4. ASSUME NEW r \in Runs, CancelLoad(r) \/ CancelSave(r)
      PROVE  RecoveryAt' /\ \A q \in Runs : RunInv(q)'
  BY <1>4, CancelInv
<1>5. CASE Boot
  BY <1>5, BootInv
<1>6. CASE Crash \/ StreamLogFails
  BY <1>0, <1>6, DieIs, StopInv DEF Crash, StreamLogFails
<1>7. CASE UNCHANGED vars
  <2>1. \A q \in Runs : RunInv(q)'
    BY <1>7, RunFrame DEF vars, RecordInv
  <2>2. QED
    BY <1>7, <2>1 DEF vars, RecordInv, RecoveryAt
<1>8. QED
  BY <1>1, <1>2, <1>3, <1>4, <1>5, <1>6, <1>7 DEF Next

LEMMA AlwaysRecordInv == Spec => []RecordInv
BY InitRecordInv, NextRecordInv, PTL DEF Spec

-----------------------------------------------------------------------------
(***************************************************************************)
(* What the records tell.                                                  *)
(***************************************************************************)
\* The database and the containers are not touched while the record of the run still says
\* that it may be retried (phase() saves before each step of execute()).
THEOREM RecordBeforeEffect == Spec => []RecordedFirst
<1>1. RecordInv => RecordedFirst
  BY DEF RecordInv, RunInv, OwnAt, RecordedFirst
<1>2. QED
  BY <1>1, AlwaysRecordInv, PTL

\* A finished record tells the operator the truth about the host: the outcomes execute(),
\* cancelIfRequested() and recoverInterruptedRun() save match what the run did, "safe to retry"
\* only for a run whose record no cancellation has put out of order.
THEOREM HonestOutcomes == Spec => []OutcomeIsHonest
<1>1. RecordInv => OutcomeIsHonest
  <2> SUFFICES ASSUME RecordInv, NEW r \in Runs
               PROVE  /\ stored[r].phase = "CANCELLED" => effects[r] = {}
                      /\ stored[r].phase = "COMPLETED" => effects[r] = {"migrate", "up"}
                      /\ stored[r].code = "SAFE_TO_RETRY" => effects[r] = {} \/ r \in overwritten
                      /\ stored[r].code = "ROLLBACK_RECOVERED" => effects[r] = {"migrate", "up"}
    BY DEF OutcomeIsHonest
  <2>1. QED
    BY DEF RecordInv, RunInv, DiskAt, OwnAt, Both
<1>2. QED
  BY <1>1, AlwaysRecordInv, PTL
\* A run that ends before deployment, or is rolled back, has put the version back (the
\* beforeCancel of the second checkpoint, the catch block and the rollback of execute()).
THEOREM VersionIsRestored == Spec => []VersionRestored
<1>1. RecordInv => VersionRestored
  BY DEF RecordInv, RunInv, EnvAt, VersionRestored
<1>2. QED
  BY <1>1, AlwaysRecordInv, PTL

-----------------------------------------------------------------------------
(***************************************************************************)
(* Every unfinished run is owned. Where a run goes with its lock.          *)
(***************************************************************************)
\* The steps of a run whose lock file is written and whose record was saved.
Started == Owning \ {"torn", "locked"}

LEMMA StartedNames ==
  /\ {"start", "release", "check", "poll1", "backup", "dump", "swap", "pull0", "pull", "poll2",
      "verify0", "verify", "migrate0", "migrate", "deploy", "up", "health0", "health",
      "complete", "prune", "catch", "rollback", "restore", "reup", "rehealth", "rolledback",
      "rollbackfailed", "fail", "manual", "reject", "cancel", "unlock"} \subseteq Started
  /\ Streaming \subseteq Started
BY DEF Started, Owning, Streaming

\* An executing run keeps its lock, or gives it up when its record is finished.
LEMMA ExecuteTurn ==
  ASSUME RecordInv, NEW r \in Runs, Execute(r) \/ StreamLog(r), ~PruneRuns(r), ~Reject(r)
  PROVE  /\ UNCHANGED <<rcv, abandoned>> /\ pc[r] \in Started
         /\ overwritten \subseteq overwritten' /\ (CancelRun(r) \/ overwritten' = overwritten)
         /\ \/ pc'[r] \in Started /\ lock' = lock
            \/ /\ pc[r] = "unlock" /\ pc'[r] = "prune_runs" /\ lock' = Free
               /\ stored'[r] = stored[r] /\ effects' = effects /\ overwritten' = overwritten
<1>0. TypeOK /\ PhaseAt(r)
  BY DEF RecordInv, HostInv, TypeInv, RunInv
<1> USE <1>0, StartedNames, StepNames DEF Turns, Calm, Touched, ghosts
<1>1. CASE EnterPhase(r)
  BY <1>1, EnterIs DEF EnterPhase
<1>2. CASE FetchRelease(r) \/ Check(r) \/ Pull(r) \/ PruneBackups(r) \/ Backup(r) \/ VerifyImages(r)
  BY <1>2, FetchIs, PlainIs
<1>3. CASE StreamLog(r)
  BY <1>3, PlainIs
<1>4. CASE Poll(r, "poll1", "backup") \/ Poll(r, "poll2", "verify0")
  BY <1>4, PollIs
<1>5. CASE CancelRun(r) \/ SwapVersion(r) \/ RestoreVersion(r) \/ Migrate(r)
  BY <1>5, CancelIs, SwapIs, RestoreIs, MigrateIs
<1>6. CASE ComposeUp(r, "up", "health0") \/ ComposeUp(r, "reup", "rehealth")
  BY <1>6, ComposeUpIs
<1>7. CASE \/ HealthPasses(r, "health", mem[r].target, "complete")
           \/ HealthPasses(r, "rehealth", mem[r].installed, "rolledback")
  BY <1>7, HealthIs
<1>8. CASE Throw(r) \/ RollbackThrows(r)
  BY <1>8, ThrowIs, RollbackThrowsIs
<1>9. CASE Catch(r)
  BY <1>9, CatchIs
<1>10. CASE SettleRun(r)
  BY <1>10, SettleIs, SettleAllowed DEF SettleRun
<1>11. CASE ReleaseLock(r)
  BY <1>11, ReleaseIs DEF SameRecord
<1>12. QED
  BY <1>1, <1>2, <1>3, <1>4, <1>5, <1>6, <1>7, <1>8, <1>9, <1>10, <1>11 DEF Execute

Owned(r) ==
  ~SaveFaults /\ r \notin overwritten /\ Unfinished(stored[r])
    => pc[r] \in Owning \/ lock = r \/ rcv = r \/ r \in abandoned

OwnedInv == RecordInv /\ \A r \in Runs : Owned(r)

\* Whoever does not hold the lock file keeps what it has.
LEMMA OwnedFrame ==
  ASSUME OwnedInv, NEW R \in SUBSET Runs, rcv' = rcv, abandoned' = abandoned,
         lock' = lock \/ lock \notin R,
         \A q \in R : /\ stored'[q] = stored[q] /\ pc'[q] = pc[q]
                      /\ (q \in overwritten' <=> q \in overwritten)
  PROVE  \A q \in R : Owned(q)'
BY DEF OwnedInv, Owned

\* Who stops has the lock to be found by, unless its record was not written yet.
LEMMA StopOwned ==
  ASSUME OwnedInv, Stop, \/ lock' = lock
                         \/ \E r \in Runs : lock = r /\ pc[r] = "reject"
  PROVE  \A q \in Runs : Owned(q)'
<1> SUFFICES ASSUME NEW q \in Runs, ~SaveFaults, q \notin overwritten, Unfinished(stored[q])
             PROVE  lock' = q \/ q \in abandoned'
  BY DEF Owned, Stop
<1>1. pc[q] \in Owning \/ lock = q \/ rcv = q \/ q \in abandoned
  BY DEF OwnedInv, Owned
<1>2. abandoned \subseteq abandoned' /\ (rcv = q => q \in abandoned')
  BY Zero DEF Stop
<1>3. pc[q] # "torn" /\ pc[q] # "reject"
  BY DEF OwnedInv, RecordInv, RunInv, DiskAt, OwnAt, Unrecorded, Unfinished
<1>4. pc[q] \in Owning => lock = q
  BY <1>3 DEF OwnedInv, RecordInv, HostInv, HostLock
<1>5. QED
  BY <1>1, <1>2, <1>3, <1>4

LEMMA NextOwnedInv == OwnedInv /\ [Next]_vars => OwnedInv'
<1> SUFFICES ASSUME OwnedInv, [Next]_vars PROVE \A q \in Runs : Owned(q)'
  BY NextRecordInv DEF OwnedInv
<1>0. RecordInv /\ TypeOK /\ HostLock
  BY DEF OwnedInv, RecordInv, HostInv, TypeInv
<1>00. \A q \in Runs : pc[q] \in Owning \ {"torn"} => lock = q
  BY <1>0 DEF HostLock
<1> USE <1>0
<1>1. ASSUME NEW r \in Runs, NEW k \in Keys, NEW t \in Versions, Request(r, k, t)
      PROVE  \A q \in Runs : Owned(q)'
  <2>1. Owned(r)'
    BY <1>1, RequestIs DEF RecordInv, RunInv, DiskAt, Unrecorded, Asking, Owned, Unfinished, Exists
  <2>2. \A q \in Runs \ {r} : Owned(q)'
    BY <1>1, RequestIs, OwnedFrame DEF Turns, Others, Calm, ghosts
  <2>3. QED
    BY <2>1, <2>2
<1>2. ASSUME NEW r \in Runs, Install(r) PROVE \A q \in Runs : Owned(q)'
  <2>1. Owned(r)'
    <3>1. ~Exists(stored[r])
      BY <1>2, AcquireIs, WriteLockIs, AwaitIs, SaveFirstIs
      DEF Install, RecordInv, RunInv, DiskAt, Unrecorded, Asking
    <3>2. CASE SaveFirst(r)
      BY <3>2, SaveFirstIs, StepNames DEF Turns, Owned, Working
    <3>3. CASE AcquireLock(r) \/ WriteLock(r) \/ AwaitDuplicate(r)
      BY <3>1, <3>3, AcquireIs, WriteLockIs, AwaitIs DEF SameRecord, Owned, Unfinished, Exists
    <3>4. QED
      BY <1>2, <3>2, <3>3 DEF Install
  <2>2. /\ Others(r) /\ UNCHANGED <<rcv, abandoned>>
        /\ lock' = lock \/ lock \in {Free, Torn}
    <3>1. pc[r] = "torn" => lock = Torn
      BY DEF HostLock, Owning
    <3>2. QED
      BY <1>2, <3>1, AcquireIs, WriteLockIs, AwaitIs, SaveFirstIs
      DEF Install, Turns, Calm, ghosts
  <2>3. \A q \in Runs \ {r} : Owned(q)'
    BY <2>2, OwnedFrame, Zero DEF Others
  <2>4. QED
    BY <2>1, <2>3
<1>3. ASSUME NEW r \in Runs, Execute(r) \/ StreamLog(r) PROVE \A q \in Runs : Owned(q)'
  <2>1. CASE PruneRuns(r)
    <3>1. ASSUME NEW q \in Runs PROVE Owned(q)'
      <4>1. \/ stored'[q] = stored[q]
            \/ stored'[q] = NoRec
        BY <2>1, PruneIs
      <4>2. pc[q] \in Owning => pc'[q] = pc[q]
        BY <2>1, PruneIs, StepNames DEF Over
      <4>3. UNCHANGED <<lock, rcv, abandoned, overwritten>>
        BY <2>1, PruneIs DEF ghosts
      <4>4. Owned(q)
        BY DEF OwnedInv
      <4>5. QED
        BY <4>1, <4>2, <4>3, <4>4 DEF Owned, Unfinished, Exists, NoRec
    <3>2. QED
      BY <3>1
  <2>2. CASE Reject(r)
    <3>1. pc[r] = "reject" /\ pc[r] \in Owning \ {"torn"}
      BY <2>2, StepNames DEF Reject, At, Working
    <3>2. QED
      BY <1>00, <2>2, <3>1, StopOwned DEF Reject
  <2>3. CASE ~PruneRuns(r) /\ ~Reject(r)
    <3>1. Others(r) /\ RunInv(r)'
      BY <1>3, <2>3, ExecuteInv
    <3>2. lock' = lock \/ lock = r
      BY <1>00, <1>3, <2>3, ExecuteTurn DEF Started
    <3>3. Owned(r)'
      <4>1. CASE pc'[r] \in Started
        BY <4>1 DEF Owned, Started
      <4>2. CASE pc[r] = "unlock" /\ stored'[r] = stored[r] /\ overwritten' = overwritten
        BY <4>2 DEF RecordInv, RunInv, OwnAt, Owned
      <4>3. QED
        BY <1>3, <2>3, <4>1, <4>2, ExecuteTurn
    <3>4. \A q \in Runs \ {r} : Owned(q)'
      BY <1>3, <2>3, <3>1, <3>2, ExecuteTurn, OwnedFrame DEF Others
    <3>5. QED
      BY <3>3, <3>4
  <2>4. QED
    BY <2>1, <2>2, <2>3
<1>4. ASSUME NEW r \in Runs, CancelLoad(r) \/ CancelSave(r) PROVE \A q \in Runs : Owned(q)'
  <2>1. Others(r) /\ UNCHANGED <<rcv, lock, pc, abandoned>> /\ overwritten \subseteq overwritten'
    BY <1>4, CancelLoadIs, CancelSaveIs DEF ghosts
  <2>2. \A q \in Runs \ {r} : Owned(q)'
    BY <2>1, OwnedFrame DEF Others
  <2>3. r \notin overwritten' => stored'[r].phase = stored[r].phase
    BY <1>4, CancelLoadIs, CancelSaveIs
  <2>4. QED
    BY <2>1, <2>2, <2>3 DEF OwnedInv, Owned, Unfinished, Exists
<1>5. CASE Boot
  <2>1. CASE TakeInterruptedRun
    <3>1. agent = "down" /\ rcv = NoRun /\ UNCHANGED <<stored, pc, abandoned, overwritten>>
      BY <2>1, Zero
      DEF TakeInterruptedRun, local, ghosts, RecordInv, HostInv, TypeInv, TypeOK, RecoveryOK, Settling
    <3>2. ASSUME NEW q \in Runs, Unfinished(stored[q]), lock = q PROVE rcv' = q
      BY <2>1, <3>2, Zero DEF TakeInterruptedRun, TakenRun, Free
    <3>3. QED
      BY <3>1, <3>2, Zero DEF OwnedInv, Owned
  <2>2. CASE RecoverVersion
    BY <2>2, OwnedFrame DEF RecoverVersion, host, local, ghosts
  <2>3. CASE Recover \/ OutcomeUnlogged \/ OutcomeRevised
    <3>0. PICK r \in Runs : r = rcv
      BY <2>3, RecoverIs DEF RecordInv, HostInv
    <3>1. /\ UNCHANGED <<lock, pc, abandoned, overwritten>> /\ stored'[r].phase \in Terminal
          /\ \A q \in Runs \ {r} : stored'[q] = stored[q]
      BY <2>3, <3>0, RecoverIs DEF RecordInv, HostInv, Settled, Terminal, ghosts
    <3>2. QED
      BY <3>0, <3>1 DEF OwnedInv, Owned, Unfinished
  <2>4. CASE RecoveryFails
    BY <2>4, StopOwned DEF RecoveryFails
  <2>5. QED
    BY <1>5, <2>1, <2>2, <2>3, <2>4 DEF Boot
<1>6. CASE Crash \/ StreamLogFails
  BY <1>6, StopOwned DEF Crash, StreamLogFails, Die
<1>7. CASE UNCHANGED vars
  BY <1>7 DEF vars, OwnedInv, Owned
<1>8. QED
  BY <1>1, <1>2, <1>3, <1>4, <1>5, <1>6, <1>7 DEF Next

\* No unfinished run is left without its executor, the lock that makes the next start find
\* it, or the recovery under way (acquireLock, takeInterruptedRun and the finally clause of
\* install()), as long as records can be written.
THEOREM NoRunIsLost == Spec => []EveryRunIsOwned
<1>1. Init => OwnedInv
  BY InitRecordInv DEF Init, OwnedInv, Owned, Unfinished, Exists, NoRec
<1>2. OwnedInv => EveryRunIsOwned
  BY DEF OwnedInv, Owned, EveryRunIsOwned
<1>3. QED
  BY <1>1, <1>2, NextOwnedInv, PTL DEF Spec
-----------------------------------------------------------------------------
(***************************************************************************)
(* Records move along the transition table.                                *)
(***************************************************************************)
\* What a step of its executor makes of the record of run r.
Advances(r) ==
  \/ stored'[r].phase = stored[r].phase /\ stored'[r].code = stored[r].code
  \/ Exists(stored[r]) /\ stored'[r].phase \in Transitions[stored[r].phase]

LEMMA ExecuteAdvances ==
  ASSUME RecordInv, NEW r \in Runs, r \notin overwritten, r \notin overwritten',
         Execute(r) \/ StreamLog(r), ~PruneRuns(r), ~Reject(r)
  PROVE  Advances(r)
<1>0. TypeOK /\ RunInv(r)
  BY DEF RecordInv, HostInv, TypeInv
<1> USE <1>0 DEF Advances, SameRecord, SavedAs, FailedAs
<1>1. PhaseAt(r) /\ OwnAt(r)
  BY DEF RunInv
<1>2. CASE EnterPhase(r)
  <2>1. ASSUME NEW step \in Synced, NEW phase, NEW next, mem[r].phase # "NONE",
               Enter(r, step, phase, next)
        PROVE  Advances(r)
    <3>1. stored[r].phase = mem[r].phase
      BY <1>1, <2>1 DEF Enter, At, OwnAt
    <3>2. \/ stored'[r].phase = phase /\ phase \in Transitions[mem[r].phase]
          \/ stored'[r] = stored[r]
      BY <2>1, EnterIs DEF CanTransition
    <3>3. QED
      BY <2>1, <3>1, <3>2 DEF Exists
  <2>2. CASE Enter(r, "rollback", "ROLLING_BACK", "restore")
    <3>1. stored[r].phase \in {"DEPLOYING", "HEALTHCHECK"}
      BY <1>1, <2>2 DEF Enter, At, OwnAt
    <3>2. stored'[r].phase = "ROLLING_BACK" \/ stored'[r] = stored[r]
      BY <2>2, EnterIs
    <3>3. QED
      BY <3>1, <3>2, TransitionTable DEF Exists
  <2>3. CASE ~Enter(r, "rollback", "ROLLING_BACK", "restore")
    <3>1. /\ pc[r] \in {"start", "backup", "pull0", "verify0", "migrate0", "deploy", "health0"}
      BY <1>2, <2>3 DEF EnterPhase, Enter, At
    <3>2. mem[r].phase # "NONE"
      BY <1>1, <3>1 DEF PhaseAt
    <3>3. QED
      BY <1>2, <2>1, <2>3, <3>2 DEF EnterPhase, Synced
  <2>4. QED
    BY <2>2, <2>3
<1>3. CASE FetchRelease(r) \/ Check(r) \/ Pull(r) \/ Backup(r) \/ VerifyImages(r)
           \/ StreamLog(r) \/ PruneBackups(r) \/ Migrate(r)
  BY <1>1, <1>3, FetchIs, PlainIs, MigrateIs DEF OwnAt, Synced, Streaming
<1>4. CASE Poll(r, "poll1", "backup") \/ Poll(r, "poll2", "verify0")
  BY <1>4, PollIs, StepNames
<1>5. CASE CancelRun(r)
  <2>1. Exists(stored[r])
    BY <1>1, <1>5, CancelIs DEF OwnAt, PhaseAt, Synced, Exists
  <2>2. QED
    BY <1>5, <2>1, CancelIs DEF CanTransition
<1>6. CASE SwapVersion(r) \/ RestoreVersion(r) \/ Catch(r) \/ ReleaseLock(r)
           \/ Throw(r) \/ RollbackThrows(r)
  BY <1>6, SwapIs, RestoreIs, CatchIs, ReleaseIs, ThrowIs, RollbackThrowsIs
<1>7. CASE \/ ComposeUp(r, "up", "health0") \/ ComposeUp(r, "reup", "rehealth")
           \/ HealthPasses(r, "health", mem[r].target, "complete")
           \/ HealthPasses(r, "rehealth", mem[r].installed, "rolledback")
  BY <1>7, ComposeUpIs, HealthIs
<1>8. CASE SettleRun(r)
  <2> USE <1>1, TransitionTable DEF OwnAt, PhaseAt, Synced, Failing, Exists, Phases, Early, Terminal
  <2>1. CASE Settle(r, "complete", "COMPLETED", "NOT_REQUIRED", "NONE", "prune")
    BY <2>1, SettleIs, SettleAllowed
  <2>2. CASE Settle(r, "fail", "FAILED", mem[r].rollback, "STEP_ERROR", "unlock")
    BY <2>2, SettleIs, SettleAllowed
  <2>3. CASE Settle(r, "manual", "MANUAL_INTERVENTION_REQUIRED", "UNSAFE", "STEP_ERROR", "unlock")
    BY <2>3, SettleIs, SettleAllowed
  <2>4. CASE Settle(r, "rolledback", "FAILED", "COMPLETED", "STEP_ERROR", "unlock")
    BY <2>4, SettleIs, SettleAllowed
  <2>5. CASE Settle(r, "rollbackfailed", "MANUAL_INTERVENTION_REQUIRED", "FAILED",
                    "ROLLBACK_FAILED", "unlock")
    BY <2>5, SettleIs, SettleAllowed
  <2>6. QED
    BY <1>8, <2>1, <2>2, <2>3, <2>4, <2>5 DEF SettleRun
<1>9. QED
  BY <1>2, <1>3, <1>4, <1>5, <1>6, <1>7, <1>8 DEF Execute

\* The same of the record a recovery settles.
LEMMA RecoverAdvances ==
  ASSUME RecordInv, Recover \/ OutcomeUnlogged \/ OutcomeRevised
  PROVE  \/ Exists(stored[rcv]) /\ stored'[rcv].phase \in Transitions[stored[rcv].phase]
         \/ agent = "unsure" /\ stored'[rcv].phase = "MANUAL_INTERVENTION_REQUIRED"
<1>1. RecoveryAt /\ TypeInv
  BY DEF RecordInv, HostInv
<1>2. QED
  BY <1>1, RecoverIs, TransitionTable DEF RecoveryAt, Settled, Exists, Phases, Early, Terminal

\* The record of a run moves only along the transition table and never leaves a terminal
\* phase except by pruning (transitionRun and its callers, pruneRuns), but for the verdict
\* of a recovery that could not be logged.
THEOREM RecordsFollowTable == Spec => FollowsTransitions
<1> DEFINE Follows(r) ==
             \/ stored'[r].phase = stored[r].phase
             \/ ~Exists(stored[r]) /\ stored'[r].phase = "PENDING"
             \/ Exists(stored[r]) /\ stored'[r].phase \in Transitions[stored[r].phase]
             \/ stored[r].phase \in Terminal /\ ~Exists(stored'[r])
             \/ agent = "unsure" /\ rcv = r
<1>1. RecordInv /\ [Next]_vars => \A r \in Runs \ overwritten' : Follows(r)
  <2> SUFFICES ASSUME RecordInv, [Next]_vars, NEW q \in Runs \ overwritten' PROVE Follows(q)
    OBVIOUS
  <2>0. TypeOK
    BY DEF RecordInv, HostInv, TypeInv
  <2>1. ASSUME NEW r \in Runs, NEW k \in Keys, NEW t \in Versions, Request(r, k, t)
        PROVE  Follows(q)
    BY <2>1 DEF Request, disk
  <2>2. ASSUME NEW r \in Runs, Install(r) PROVE Follows(q)
    <3>1. CASE SaveFirst(r)
      <4>1. CASE q = r
        BY <2>0, <3>1, <4>1, SaveFirstIs
        DEF RecordInv, RunInv, PhaseAt, DiskAt, Unrecorded
      <4>2. CASE q # r
        BY <2>0, <3>1, <4>2, SaveFirstIs DEF Turns, Others
      <4>3. QED
        BY <4>1, <4>2
    <3>2. CASE AcquireLock(r) \/ WriteLock(r) \/ AwaitDuplicate(r)
      BY <3>2 DEF AcquireLock, WriteLock, AwaitDuplicate, disk
    <3>3. QED
      BY <2>2, <3>1, <3>2 DEF Install
  <2>3. ASSUME NEW r \in Runs, Execute(r) \/ StreamLog(r) PROVE Follows(q)
    <3>1. CASE PruneRuns(r)
      <4>1. ~Exists(NoRec)
        BY DEF Exists, NoRec
      <4>2. QED
        BY <2>0, <3>1, <4>1, PruneIs
    <3>2. CASE Reject(r)
      BY <3>2 DEF Reject, Stop
    <3>3. CASE ~PruneRuns(r) /\ ~Reject(r) /\ q = r
      BY <2>3, <3>3, ExecuteTurn, ExecuteAdvances DEF Advances
    <3>4. CASE ~PruneRuns(r) /\ ~Reject(r) /\ q # r
      BY <2>3, <3>4, ExecuteInv DEF Others
    <3>5. QED
      BY <3>1, <3>2, <3>3, <3>4
  <2>4. ASSUME NEW r \in Runs, CancelLoad(r) \/ CancelSave(r) PROVE Follows(q)
    <3>1. Others(r) /\ (r \notin overwritten' => stored'[r].phase = stored[r].phase)
      BY <2>0, <2>4, CancelLoadIs, CancelSaveIs
    <3>2. QED
      BY <3>1 DEF Others
  <2>5. CASE Boot
    <3>1. CASE Recover \/ OutcomeUnlogged \/ OutcomeRevised
      <4>1. CASE q = rcv
        BY <3>1, <4>1, RecoverAdvances
      <4>2. CASE q # rcv
        BY <3>1, <4>2, RecoverIs DEF RecordInv, HostInv, Settled
      <4>3. QED
        BY <4>1, <4>2
    <3>2. CASE TakeInterruptedRun \/ RecoverVersion \/ RecoveryFails
      BY <3>2 DEF TakeInterruptedRun, RecoverVersion, RecoveryFails, Stop
    <3>3. QED
      BY <2>5, <3>1, <3>2 DEF Boot
  <2>6. CASE Crash \/ StreamLogFails
    BY <2>6 DEF Crash, StreamLogFails, Die, Stop
  <2>7. CASE UNCHANGED vars
    BY <2>7 DEF vars
  <2>8. QED
    BY <2>1, <2>2, <2>3, <2>4, <2>5, <2>6, <2>7 DEF Next
<1>2. QED
  BY <1>1, AlwaysRecordInv, PTL DEF Spec, FollowsTransitions
-----------------------------------------------------------------------------
(***************************************************************************)
(* The agent implements HostUpdate. First the mapping: what the state of   *)
(* the agent says of owner, stage and changed.                             *)
(***************************************************************************)
Preparing == Early
Changing == {"MIGRATING", "DEPLOYING", "HEALTHCHECK", "ROLLING_BACK"}
Revising(r) == agent = "unsure" /\ r = rcv

LEMMA StageIs ==
  ASSUME NEW r \in Runs
  PROVE  /\ r \in overwritten => StageBar[r] = "unknown"
         /\ r \notin overwritten /\ Revising(r) => StageBar[r] = "changing"
         /\ r \notin overwritten /\ ~Revising(r) =>
              /\ ~Exists(stored[r]) /\ pc[r] \in Unrecorded => StageBar[r] = "none"
              /\ ~Exists(stored[r]) /\ pc[r] \notin Unrecorded => StageBar[r] = "gone"
              /\ stored[r].phase \in Early => StageBar[r] = "preparing"
              /\ stored[r].phase \in Changing => StageBar[r] = "changing"
              /\ stored[r].phase = "CANCELLED" => StageBar[r] = "untouched"
              /\ stored[r].phase = "COMPLETED" => StageBar[r] = "installed"
              /\ stored[r].phase \in {"FAILED", "MANUAL_INTERVENTION_REQUIRED"} =>
                   StageBar[r] = IF stored[r].code = "SAFE_TO_RETRY" THEN "untouched" ELSE "failed"
BY DEF StageBar, Revising, Exists, Early, Changing

LEMMA StageIsNext ==
  ASSUME NEW r \in Runs
  PROVE  /\ r \in overwritten' => StageBar'[r] = "unknown"
         /\ r \notin overwritten' /\ Revising(r)' => StageBar'[r] = "changing"
         /\ r \notin overwritten' /\ ~Revising(r)' =>
              /\ ~Exists(stored'[r]) /\ pc'[r] \in Unrecorded => StageBar'[r] = "none"
              /\ ~Exists(stored'[r]) /\ pc'[r] \notin Unrecorded => StageBar'[r] = "gone"
              /\ stored'[r].phase \in Early => StageBar'[r] = "preparing"
              /\ stored'[r].phase \in Changing => StageBar'[r] = "changing"
              /\ stored'[r].phase = "CANCELLED" => StageBar'[r] = "untouched"
              /\ stored'[r].phase = "COMPLETED" => StageBar'[r] = "installed"
              /\ stored'[r].phase \in {"FAILED", "MANUAL_INTERVENTION_REQUIRED"} =>
                   StageBar'[r] = IF stored'[r].code = "SAFE_TO_RETRY" THEN "untouched" ELSE "failed"
BY DEF StageBar, Revising, Exists, Early, Changing

LEMMA StageFunctions ==
  StageBar = [r \in Runs |-> StageBar[r]] /\ StageBar' = [r \in Runs |-> StageBar'[r]]
BY DEF StageBar

\* The stage of a run depends on its record, and on its step only while it has none.
LEMMA StageSame ==
  ASSUME NEW r \in Runs, stored'[r].phase = stored[r].phase, stored'[r].code = stored[r].code,
         Exists(stored[r]) \/ (pc[r] \in Unrecorded <=> pc'[r] \in Unrecorded),
         Revising(r)' <=> Revising(r), r \in overwritten' <=> r \in overwritten
  PROVE  StageBar'[r] = StageBar[r]
BY DEF StageBar, Revising, Exists

\* That of a run whose record was put out of order no longer depends on anything.
LEMMA StageUnknown ==
  ASSUME NEW r \in Runs, r \in overwritten, r \in overwritten'
  PROVE  StageBar'[r] = StageBar[r]
BY StageIs, StageIsNext

\* Records that vanish, and nothing else.
LEMMA Vanishing ==
  ASSUME \A r \in Runs : \/ StageBar'[r] = StageBar[r]
                         \/ StageBar[r] \in {"none"} \cup Host!Ends /\ StageBar'[r] = "gone"
  PROVE  Host!Vanish
<1> DEFINE gone == {r \in Runs : StageBar'[r] # StageBar[r]}
<1>1. gone \in SUBSET {r \in Runs : StageBar[r] \in {"none"} \cup Host!Ends}
  OBVIOUS
<1>2. StageBar' = [r \in Runs |-> IF r \in gone THEN "gone" ELSE StageBar[r]]
  BY StageFunctions
<1>3. QED
  BY <1>1, <1>2 DEF Host!Vanish

LEMMA ForgetStep ==
  ASSUME OwnerBar' = OwnerBar, ChangedBar' = ChangedBar,
         \A r \in Runs : \/ StageBar'[r] = StageBar[r]
                         \/ StageBar[r] \in {"none"} \cup Host!Ends /\ StageBar'[r] = "gone"
  PROVE  Host!Next
BY Vanishing DEF Host!Next, Host!Forget

LEMMA GiveUpStep ==
  ASSUME NEW r \in Runs, OwnerBar = r, OwnerBar' = NoRun, ChangedBar' = ChangedBar,
         \A q \in Runs : \/ StageBar'[q] = StageBar[q]
                         \/ StageBar[q] \in {"none"} \cup Host!Ends /\ StageBar'[q] = "gone"
  PROVE  Host!Next
<1>1. Host!GiveUp(r)
  BY Vanishing DEF Host!GiveUp
<1>2. QED
  BY <1>1 DEF Host!Next

\* A step of one run, seen as a change of its stage alone.
LEMMA OnlyStage ==
  ASSUME NEW r \in Runs, \A q \in Runs \ {r} : StageBar'[q] = StageBar[q]
  PROVE  StageBar' = [StageBar EXCEPT ![r] = StageBar'[r]]
BY StageFunctions

LEMMA ChangedSame ==
  ASSUME \A q \in Runs : /\ q \in overwritten' <=> q \in overwritten
                         /\ q \notin overwritten => (effects'[q] = {} <=> effects[q] = {})
  PROVE  ChangedBar' = ChangedBar
BY DEF ChangedBar

\* A cancellation puts the record of a run that has one out of order.
LEMMA LoseStep ==
  ASSUME RecordInv, NEW r \in Runs, Others(r), pc[r] \notin Unrecorded, r \notin overwritten,
         r \in overwritten', OwnerBar' = OwnerBar
  PROVE  Host!Next
<1>1. \A q \in Runs \ {r} : StageBar'[q] = StageBar[q]
  BY StageSame DEF Others, Revising
<1>2. StageBar[r] \notin {"none", "unknown"}
  BY DEF StageBar, Others
<1>3. StageBar'[r] = "unknown"
  BY StageIsNext
<1>4. ChangedBar' = ChangedBar \ {r}
  BY DEF ChangedBar, Others
<1>5. Host!Lose(r)
  BY <1>1, <1>2, <1>3, <1>4, OnlyStage DEF Host!Lose
<1>6. QED
  BY <1>5 DEF Host!Next

\* An outcome is truthful because RecordInv holds after the step as well.
LEMMA EndStep ==
  ASSUME RecordInv', NEW r \in Runs, OwnerBar = r, OwnerBar' \in {r, NoRun},
         \A q \in Runs : q \in overwritten' <=> q \in overwritten, r \notin overwritten,
         effects' = effects, StageBar[r] \in {"preparing", "changing"}, ~Revising(r)',
         stored'[r].phase \in Terminal, \A q \in Runs \ {r} : StageBar'[q] = StageBar[q]
  PROVE  Host!Next
<1>1. DiskAt(r)' /\ OwnAt(r)'
  BY DEF RecordInv, RunInv
<1>2. StageBar'[r] \in Host!Ends /\ ChangedBar' = ChangedBar
  BY StageIsNext, ChangedSame DEF Terminal, Host!Ends
<1>3. StageBar'[r] = "untouched" => r \notin ChangedBar
  <2>1. StageBar'[r] = "untouched" =>
          stored'[r].phase = "CANCELLED" \/ stored'[r].code = "SAFE_TO_RETRY"
    BY StageIsNext DEF Terminal
  <2>2. QED
    BY <1>1, <2>1 DEF DiskAt, OwnAt, ChangedBar
<1>4. StageBar'[r] = "installed" => r \in ChangedBar
  <2>1. StageBar'[r] = "installed" => stored'[r].phase = "COMPLETED"
    BY StageIsNext DEF Terminal
  <2>2. Both # {}
    BY DEF Both
  <2>3. QED
    BY <1>1, <2>1, <2>2 DEF DiskAt, ChangedBar
<1>5. Host!End(r, StageBar'[r])
  BY <1>2, <1>3, <1>4, OnlyStage DEF Host!End, Host!Truthful
<1>6. QED
  BY <1>2, <1>5 DEF Host!Next
-----------------------------------------------------------------------------
(***************************************************************************)
(* Every step of the agent as a step of HostUpdate.                        *)
(***************************************************************************)
HostStays == UNCHANGED <<OwnerBar, StageBar, ChangedBar>>

LEMMA AllStagesSame ==
  ASSUME \A q \in Runs : StageBar'[q] = StageBar[q]
  PROVE  StageBar' = StageBar
BY StageFunctions

\* While the agent serves, the lock alone names the owner and nothing is being revised.
LEMMA ReadyOwner ==
  ASSUME RecordInv, agent = "ready"
  PROVE  rcv = NoRun /\ OwnerBar = (IF lock \in Runs THEN lock ELSE NoRun)
BY DEF RecordInv, HostInv, TypeInv, TypeOK, RecoveryOK, Settling, OwnerBar

LEMMA OtherStages ==
  ASSUME NEW r \in Runs, Others(r)
  PROVE  \A q \in Runs \ {r} : StageBar'[q] = StageBar[q]
BY StageSame DEF Others, Revising

LEMMA RequestHost ==
  ASSUME RecordInv, NEW r \in Runs, NEW k \in Keys, NEW t \in Versions, Request(r, k, t)
  PROVE  Host!Next \/ HostStays
<1>0. TypeOK /\ pc[r] = "idle" /\ ~Exists(stored[r]) /\ r \notin overwritten
  BY RequestIs
  DEF RecordInv, HostInv, TypeInv, RunInv, DiskAt, Unrecorded, Asking, Request, At
<1>1. /\ Others(r) /\ rcv' = rcv /\ Calm(r) /\ stored'[r] = stored[r]
      /\ pc'[r] \in {"found", "done", "refused"} /\ overwritten' = overwritten
  BY <1>0, RequestIs DEF Turns, ghosts
<1>2. OwnerBar' = OwnerBar /\ ChangedBar' = ChangedBar
  BY <1>1 DEF OwnerBar, ChangedBar, Calm
<1>3. StageBar[r] = "none" /\ StageBar'[r] \in {"none", "gone"}
  BY <1>0, <1>1, StageIs, StageIsNext DEF Revising, Others, Unrecorded, Asking
<1>4. QED
  BY <1>1, <1>2, <1>3, OtherStages, ForgetStep

LEMMA InstallHost ==
  ASSUME RecordInv, NEW r \in Runs, Install(r)
  PROVE  Host!Next \/ HostStays
<1>0. TypeOK /\ HostLock
  BY DEF RecordInv, HostInv, TypeInv
<1>1. /\ Others(r) /\ rcv' = rcv /\ effects' = effects /\ overwritten' = overwritten
      /\ pc[r] \in Unrecorded /\ agent = "ready"
  BY <1>0, AcquireIs, WriteLockIs, AwaitIs, SaveFirstIs
  DEF Install, Turns, Others, Calm, Unrecorded, Asking, ghosts
<1>2. ~Exists(stored[r]) /\ StageBar[r] = "none" /\ ~Revising(r)' /\ r \notin overwritten'
  BY <1>1, StageIs DEF RecordInv, RunInv, DiskAt, Revising, Others
<1>3. ChangedBar' = ChangedBar /\ \A q \in Runs \ {r} : StageBar'[q] = StageBar[q]
  BY <1>1, OtherStages DEF ChangedBar
<1>4. OwnerBar = (IF lock \in Runs THEN lock ELSE NoRun)
  BY <1>1, ReadyOwner
<1>5. OwnerBar' = (IF lock' \in Runs THEN lock' ELSE NoRun)
  BY <1>1, ReadyOwner DEF OwnerBar
<1>6. ASSUME ~Exists(stored'[r]) PROVE StageBar'[r] \in {"none", "gone"}
  BY <1>2, <1>6, StageIsNext
<1>7. CASE AcquireLock(r) \/ AwaitDuplicate(r)
  <2>1. stored'[r] = stored[r] /\ (lock' = lock \/ (lock = Free /\ lock' = Torn))
    BY <1>0, <1>7, AcquireIs, AwaitIs DEF SameRecord, Calm
  <2>2. OwnerBar' = OwnerBar
    BY <1>4, <1>5, <2>1, Zero
  <2>3. QED
    BY <1>2, <1>3, <1>6, <2>1, <2>2, ForgetStep
<1>8. CASE WriteLock(r)
  <2>1. lock = Torn /\ OwnerBar = NoRun
    BY <1>0, <1>4, <1>8, Zero DEF WriteLock, At, HostLock, Owning
  <2>2. stored'[r] = stored[r]
    BY <1>0, <1>8, WriteLockIs DEF SameRecord
  <2>3. CASE lock' = r /\ pc'[r] = "locked"
    <3>1. StageBar'[r] = "none" /\ OwnerBar' = r
      BY <1>2, <1>5, <2>2, <2>3, StageIsNext DEF Unrecorded
    <3>2. StageBar' = StageBar
      BY <1>2, <1>3, <3>1, AllStagesSame
    <3>3. QED
      BY <1>2, <1>3, <2>1, <3>1, <3>2 DEF Host!Next, Host!Take
  <2>4. CASE lock' = lock
    <3>1. OwnerBar' = OwnerBar
      BY <1>4, <1>5, <2>4
    <3>2. QED
      BY <1>2, <1>3, <1>6, <2>2, <3>1, ForgetStep
  <2>5. QED
    BY <1>0, <1>8, <2>3, <2>4, WriteLockIs DEF Turns
<1>9. CASE SaveFirst(r)
  <2>1. /\ lock' = lock /\ lock = r /\ mem[r].phase = "PENDING"
        /\ stored'[r] = mem[r] \/ stored'[r] = stored[r]
    BY <1>0, <1>9, SaveFirstIs
    DEF Calm, SaveFirst, At, HostLock, Owning, RecordInv, RunInv, PhaseAt
  <2>2. OwnerBar' = OwnerBar /\ OwnerBar = r
    BY <1>4, <1>5, <2>1
  <2>3. CASE stored'[r] = mem[r]
    <3>1. StageBar'[r] = "preparing"
      BY <1>2, <2>1, <2>3, StageIsNext DEF Early
    <3>2. QED
      BY <1>2, <1>3, <2>2, <3>1, OnlyStage DEF Host!Next, Host!Prepare
  <2>4. CASE stored'[r] = stored[r]
    BY <1>2, <1>3, <1>6, <2>2, <2>4, ForgetStep
  <2>5. QED
    BY <2>1, <2>3, <2>4
<1>10. QED
  BY <1>7, <1>8, <1>9 DEF Install

\* What the table allows, by stage.
LEMMA StageTable ==
  ASSUME NEW p \in Phases, NEW p2 \in Transitions[p]
  PROVE  /\ p2 \in Phases
         /\ p \in Early => p2 \in Early \cup {"MIGRATING"} \cup Terminal
         /\ p \in Changing => p2 \in Changing \cup Terminal
         /\ p \in Early \cup Changing
BY DEF Transitions, Phases, Early, Terminal, Changing

\* A run that reaches the host does so with a record that says it changes the host.
LEMMA ExecuteTouch ==
  ASSUME RecordInv, NEW r \in Runs, r \notin overwritten, Execute(r) \/ StreamLog(r),
         ~PruneRuns(r), ~Reject(r)
  PROVE  \/ effects' = effects
         \/ /\ effects'[r] # {} /\ \A q \in Runs \ {r} : effects'[q] = effects[q]
            /\ stored[r].phase \in Changing
            /\ stored'[r].phase = stored[r].phase /\ stored'[r].code = stored[r].code
<1>0. TypeOK /\ PhaseAt(r) /\ OwnAt(r)
  BY DEF RecordInv, HostInv, TypeInv, RunInv
<1>1. CASE Migrate(r)
  BY <1>0, <1>1, MigrateIs DEF Turns, Others, Touched, SavedAs, PhaseAt, OwnAt, Synced, Changing
<1>2. CASE ComposeUp(r, "up", "health0") \/ ComposeUp(r, "reup", "rehealth")
  BY <1>0, <1>2, ComposeUpIs
  DEF Turns, Others, Touched, SameRecord, PhaseAt, OwnAt, Synced, Changing
<1>3. CASE Throw(r) /\ pc[r] \in {"migrate", "up"}
  BY <1>0, <1>3, ThrowIs DEF Turns, Others, Touched, SameRecord, PhaseAt, OwnAt, Synced, Changing
<1>4. CASE RollbackThrows(r) /\ pc[r] = "reup"
  BY <1>0, <1>4, RollbackThrowsIs
  DEF Turns, Others, Touched, SameRecord, PhaseAt, OwnAt, Synced, Changing
<1>5. CASE Throw(r) /\ pc[r] \notin {"migrate", "up"}
  BY <1>0, <1>5, ThrowIs DEF Calm
<1>6. CASE RollbackThrows(r) /\ pc[r] # "reup"
  BY <1>0, <1>6, RollbackThrowsIs DEF Calm
<1>7. CASE EnterPhase(r) \/ FetchRelease(r) \/ CancelRun(r) \/ SettleRun(r) \/ StreamLog(r)
           \/ Backup(r) \/ VerifyImages(r)
  BY <1>7
  DEF EnterPhase, Enter, FetchRelease, CancelRun, SettleRun, Settle, StreamLog, Backup,
      VerifyImages, host
<1>8. CASE Check(r) \/ Pull(r) \/ PruneBackups(r) \/ ReleaseLock(r) \/ Catch(r)
           \/ RestoreVersion(r) \/ SwapVersion(r)
           \/ Poll(r, "poll1", "backup") \/ Poll(r, "poll2", "verify0")
           \/ HealthPasses(r, "health", mem[r].target, "complete")
           \/ HealthPasses(r, "rehealth", mem[r].installed, "rolledback")
  BY <1>8
  DEF Check, Pull, PruneBackups, ReleaseLock, Catch, RestoreVersion, SwapVersion, Poll,
      HealthPasses, host
<1>9. QED
  BY <1>1, <1>2, <1>3, <1>4, <1>5, <1>6, <1>7, <1>8 DEF Execute

LEMMA ExecuteHost ==
  ASSUME RecordInv, RecordInv', NEW r \in Runs, Execute(r) \/ StreamLog(r),
         ~PruneRuns(r), ~Reject(r)
  PROVE  Host!Next \/ HostStays
<1>0. TypeOK /\ HostLock
  BY DEF RecordInv, HostInv, TypeInv
<1>1. Others(r) /\ agent = "ready" /\ ~Revising(r) /\ ~Revising(r)'
  BY ExecuteInv DEF Others, Revising
<1>2. \A q \in Runs \ {r} : /\ StageBar'[q] = StageBar[q] /\ effects'[q] = effects[q]
                            /\ (q \in overwritten' <=> q \in overwritten)
  BY <1>1, OtherStages DEF Others
<1>3. pc[r] \in Started /\ pc[r] \notin Unrecorded
  BY ExecuteTurn DEF Started, Owning, Unrecorded, Asking
<1>4. OwnerBar = r
  BY <1>0, <1>1, <1>3, ReadyOwner DEF HostLock, Started
<1>5. OwnerBar' = IF lock' \in Runs THEN lock' ELSE NoRun
  BY <1>1, ReadyOwner, ExecuteTurn DEF OwnerBar
<1>9. CASE r \in overwritten
  <2>1. \A q \in Runs : StageBar'[q] = StageBar[q]
    BY <1>2, <1>9, ExecuteTurn, StageUnknown
  <2>2. ChangedBar' = ChangedBar
    BY <1>2, <1>9, ExecuteTurn, ChangedSame
  <2>3. CASE lock' = lock
    BY <1>1, <1>4, <1>5, <2>1, <2>2, <2>3, ReadyOwner, AllStagesSame DEF HostStays
  <2>4. CASE lock' = Free
    BY <1>4, <1>5, <2>1, <2>2, <2>4, Zero, GiveUpStep
  <2>5. QED
    BY <2>3, <2>4, ExecuteTurn
<1>10. CASE r \notin overwritten /\ r \in overwritten'
  <2>1. lock' = lock
    BY <1>10, ExecuteTurn
  <2>2. QED
    BY <1>1, <1>3, <1>4, <1>5, <1>10, <2>1, ReadyOwner, LoseStep
<1> SUFFICES ASSUME r \notin overwritten, r \notin overwritten' PROVE Host!Next \/ HostStays
  BY <1>9, <1>10
<1>6. CASE pc[r] = "unlock" /\ pc'[r] = "prune_runs" /\ lock' = Free /\ stored'[r] = stored[r]
           /\ effects' = effects
  <2>1. StageBar'[r] = StageBar[r]
    BY <1>1, <1>3, <1>6, StageSame DEF Unrecorded, Asking
  <2>2. OwnerBar' = NoRun /\ ChangedBar' = ChangedBar
    BY <1>2, <1>5, <1>6, Zero, ChangedSame
  <2>3. QED
    BY <1>2, <1>4, <2>1, <2>2, GiveUpStep
<1>7. CASE pc'[r] \in Started /\ lock' = lock
  <2>1. OwnerBar' = r /\ pc'[r] \notin Unrecorded
    BY <1>0, <1>3, <1>5, <1>7 DEF HostLock, Started, Owning, Unrecorded, Asking
  <2>2. CASE effects' = effects /\ stored'[r].phase = stored[r].phase
                               /\ stored'[r].code = stored[r].code
    <3>1. StageBar'[r] = StageBar[r]
      BY <1>1, <1>3, <2>1, <2>2, StageSame
    <3>2. QED
      BY <1>2, <1>4, <2>1, <2>2, <3>1, AllStagesSame, ChangedSame DEF HostStays
  <2>3. CASE effects' = effects /\ Exists(stored[r])
                               /\ stored'[r].phase \in Transitions[stored[r].phase]
    <3>1. stored[r].phase \in Phases
      BY <1>0, <2>3 DEF TypeOK, Record, Exists
    <3>2. CASE stored'[r].phase \in Terminal
      <4>1. StageBar[r] \in {"preparing", "changing"}
        BY <1>1, <2>3, <3>1, StageTable, StageIs
      <4>2. QED
        BY <1>1, <1>2, <1>4, <2>1, <2>3, <3>2, <4>1, EndStep
    <3>3. CASE stored[r].phase \in Early /\ stored'[r].phase \in Early
      <4>1. StageBar'[r] = StageBar[r]
        BY <1>1, <3>3, StageIs, StageIsNext
      <4>2. QED
        BY <1>2, <1>4, <2>1, <2>3, <4>1, AllStagesSame, ChangedSame DEF HostStays
    <3>4. CASE stored[r].phase \in Early /\ stored'[r].phase = "MIGRATING"
      <4>1. StageBar[r] = "preparing" /\ StageBar'[r] = "changing"
        BY <1>1, <3>4, StageIs, StageIsNext DEF Changing
      <4>2. Host!Commit(r)
        BY <1>2, <1>4, <2>1, <2>3, <4>1, OnlyStage, ChangedSame DEF Host!Commit
      <4>3. QED
        BY <4>2 DEF Host!Next
    <3>5. CASE stored[r].phase \in Changing /\ stored'[r].phase \in Changing
      <4>1. StageBar'[r] = StageBar[r]
        BY <1>1, <3>5, StageIs, StageIsNext
      <4>2. QED
        BY <1>2, <1>4, <2>1, <2>3, <4>1, AllStagesSame, ChangedSame DEF HostStays
    <3>6. QED
      BY <2>3, <3>1, <3>2, <3>3, <3>4, <3>5, StageTable
  <2>4. CASE /\ effects'[r] # {} /\ \A q \in Runs \ {r} : effects'[q] = effects[q]
             /\ stored[r].phase \in Changing
             /\ stored'[r].phase = stored[r].phase /\ stored'[r].code = stored[r].code
    <3>1. StageBar'[r] = StageBar[r] /\ StageBar[r] = "changing"
      BY <1>1, <1>3, <2>1, <2>4, StageSame, StageIs
    <3>2. ChangedBar' = ChangedBar \cup {r}
      BY <1>2, <2>4 DEF ChangedBar
    <3>3. Host!Change(r)
      BY <1>2, <1>4, <2>1, <3>1, <3>2, Vanishing DEF Host!Change
    <3>4. QED
      BY <3>3 DEF Host!Next
  <2>5. QED
    BY <2>2, <2>3, <2>4, ExecuteTouch, ExecuteAdvances DEF Advances
<1>8. QED
  BY <1>6, <1>7, ExecuteTurn
LEMMA PruneHost ==
  ASSUME RecordInv, NEW r \in Runs, PruneRuns(r)
  PROVE  Host!Next \/ HostStays
<1>0. TypeOK
  BY DEF RecordInv, HostInv, TypeInv
<1>1. OwnerBar' = OwnerBar /\ ChangedBar' = ChangedBar
  BY <1>0, PruneIs DEF OwnerBar, ChangedBar, ghosts
<1>2. ASSUME NEW q \in Runs
      PROVE  \/ StageBar'[q] = StageBar[q]
             \/ StageBar[q] \in {"none"} \cup Host!Ends /\ StageBar'[q] = "gone"
  <2>0. /\ ~Revising(q) /\ ~Revising(q)' /\ (pc[q] \in Unrecorded <=> pc'[q] \in Unrecorded)
        /\ overwritten' = overwritten
        /\ \/ stored'[q] = stored[q]
           \/ stored[q].phase \in Terminal /\ stored'[q] = NoRec
    BY <1>0, PruneIs DEF Revising, Unrecorded, Asking, ghosts
  <2>1. CASE stored'[q] = stored[q] \/ q \in overwritten
    BY <2>0, <2>1, StageSame, StageUnknown
  <2>2. CASE stored[q].phase \in Terminal /\ stored'[q] = NoRec /\ q \notin overwritten
    <3>1. Exists(stored[q]) /\ ~Exists(stored'[q])
      BY <2>2 DEF Exists, Terminal, NoRec
    <3>2. pc'[q] \notin Unrecorded
      BY <2>0, <3>1 DEF RecordInv, RunInv, DiskAt
    <3>3. StageBar'[q] = "gone"
      BY <2>0, <2>2, <3>1, <3>2, StageIsNext
    <3>4. StageBar[q] \in Host!Ends
      BY <2>0, <2>2, StageIs DEF Terminal, Host!Ends
    <3>5. QED
      BY <3>3, <3>4
  <2>3. QED
    BY <2>0, <2>1, <2>2
<1>3. QED
  BY <1>1, <1>2, ForgetStep

\* A process that stops loses the requests it had not recorded.
LEMMA StopStages ==
  ASSUME TypeOK, Stop, NEW q \in Runs, ~Revising(q)
  PROVE  \/ StageBar'[q] = StageBar[q]
         \/ StageBar[q] = "none" /\ StageBar'[q] = "gone"
<1>1. stored' = stored /\ ~Revising(q)' /\ overwritten' = overwritten
  BY DEF Stop, Revising
<1>2. pc'[q] = IF pc[q] \in Over \cup {"idle"} THEN pc[q] ELSE "lost"
  BY DEF Stop
<1>3. CASE Exists(stored[q])
  BY <1>1, <1>3, StageSame
<1>4. CASE ~Exists(stored[q]) /\ q \notin overwritten
  BY <1>1, <1>2, <1>4, StageIs, StageIsNext DEF Unrecorded, Asking, Over
<1>5. CASE q \in overwritten
  BY <1>1, <1>5, StageUnknown
<1>6. QED
  BY <1>3, <1>4, <1>5

LEMMA RejectHost ==
  ASSUME RecordInv, NEW r \in Runs, Reject(r)
  PROVE  Host!Next \/ HostStays
<1>0. TypeOK /\ HostLock
  BY DEF RecordInv, HostInv, TypeInv
<1>1. agent = "ready" /\ lock = r /\ lock' = Free /\ rcv' = NoRun /\ effects' = effects /\ Stop
  BY <1>0, StartedNames DEF Reject, At, HostLock, Started, host, Stop
<1>2. OwnerBar = r /\ OwnerBar' = NoRun /\ ChangedBar' = ChangedBar
  BY <1>1, ReadyOwner, Zero DEF OwnerBar, ChangedBar, Stop
<1>3. QED
  BY <1>0, <1>1, <1>2, StopStages, GiveUpStep DEF Revising

\* A recovery that is cut short gives the host up; a verdict that was saved now counts.
LEMMA SettlingHost ==
  ASSUME RecordInv, RecordInv', Stop, agent \in Settling, UNCHANGED <<lock, effects>>
  PROVE  Host!Next \/ HostStays
<1>0. TypeInv /\ TypeOK /\ RecoveryAt
  BY DEF RecordInv, HostInv, TypeInv
<1>1. PICK r \in Runs : r = rcv
  BY <1>0 DEF TypeInv, RecoveryOK
<1>2. OwnerBar = r /\ OwnerBar' = NoRun /\ ChangedBar' = ChangedBar
  BY <1>0, <1>1, Zero DEF RecoveryAt, OwnerBar, ChangedBar, Stop
<1>3. /\ \A q \in Runs : stored'[q] = stored[q] /\ pc'[q] = pc[q] /\ ~Revising(q)'
      /\ overwritten' = overwritten
  BY <1>0 DEF Stop, RecoveryAt, Settling, TypeOK, Revising
<1>4. \A q \in Runs \ {r} : StageBar'[q] = StageBar[q]
  BY <1>1, <1>3, StageSame DEF Revising
<1>5. CASE Revising(r) /\ r \notin overwritten
  <2>1. stored'[r].phase \in Terminal /\ StageBar[r] = "changing"
    BY <1>0, <1>1, <1>3, <1>5, StageIs DEF RecoveryAt, Revising, Terminal
  <2>2. QED
    BY <1>2, <1>3, <1>4, <1>5, <2>1, EndStep
<1>6. CASE ~Revising(r) \/ r \in overwritten
  <2>1. StageBar'[r] = StageBar[r]
    BY <1>3, <1>6, StageSame, StageUnknown
  <2>2. QED
    BY <1>2, <1>4, <2>1, GiveUpStep
<1>7. QED
  BY <1>5, <1>6

LEMMA DieHost ==
  ASSUME RecordInv, RecordInv', Die, agent # "down"
  PROVE  Host!Next \/ HostStays
<1>0. /\ TypeOK /\ HostLock /\ Quiet /\ Stop /\ lock' = lock /\ \A q \in Runs : Begun(q)
      /\ overwritten' = overwritten
  BY DieIs DEF RecordInv, HostInv, TypeInv, Die, Stop
<1>1. CASE agent = "ready"
  <2>1. OwnerBar' = OwnerBar /\ OwnerBar = (IF lock \in Runs THEN lock ELSE NoRun)
    BY <1>0, <1>1, ReadyOwner, Zero DEF OwnerBar, Stop
  <2>2. \A q \in Runs : \/ StageBar'[q] = StageBar[q]
                        \/ StageBar[q] = "none" /\ StageBar'[q] = "gone"
    BY <1>0, <1>1, StopStages DEF Revising
  <2>3. CASE \A q \in Runs : effects'[q] = effects[q]
    BY <1>0, <2>1, <2>2, <2>3, ChangedSame, ForgetStep
  <2>4. CASE \E r \in Runs : effects'[r] # effects[r]
    <3>1. PICK r \in Runs : effects'[r] # effects[r]
      BY <2>4
    <3>2. pc[r] \in {"migrate", "up", "reup"} /\ effects'[r] # {}
      BY <1>0, <3>1 DEF Begun
    <3>3. lock = r /\ \A q \in Runs \ {r} : pc[q] \notin Owning
      BY <1>0, <3>2 DEF HostLock, Owning
    <3>4. \A q \in Runs \ {r} : effects'[q] = effects[q]
      BY <1>0, <3>3 DEF Begun, Owning
    <3>10. CASE r \in overwritten
      <4>1. ChangedBar' = ChangedBar
        BY <1>0, <3>4, <3>10, ChangedSame
      <4>2. QED
        BY <2>1, <2>2, <4>1, ForgetStep
    <3> SUFFICES ASSUME r \notin overwritten PROVE Host!Next \/ HostStays
      BY <3>10
    <3>5. ChangedBar' = ChangedBar \cup {r}
      BY <1>0, <3>2, <3>4 DEF ChangedBar
    <3>6. stored[r].phase \in Changing
      BY <3>2 DEF RecordInv, RunInv, OwnAt, PhaseAt, Synced, Changing
    <3>7. StageBar[r] = "changing"
      BY <1>1, <3>6, StageIs DEF Revising
    <3>8. Host!Change(r)
      BY <2>1, <2>2, <3>3, <3>5, <3>7, Vanishing DEF Host!Change
    <3>9. QED
      BY <3>8 DEF Host!Next
  <2>5. QED
    BY <2>3, <2>4
<1>2. CASE agent # "ready"
  <2>1. agent \in Settling
    BY <1>0, <1>2 DEF TypeOK, Settling
  <2>2. \A q \in Runs : effects'[q] = effects[q]
    BY <1>0, <1>2 DEF Quiet, Begun, Owning
  <2>3. effects' = effects
    BY <1>0, <2>2 DEF Die, TypeOK
  <2>4. QED
    BY <1>0, <2>1, <2>3, SettlingHost
<1>3. QED
  BY <1>1, <1>2

LEMMA BootHost ==
  ASSUME RecordInv, RecordInv', Boot
  PROVE  Host!Next \/ HostStays
<1>0. TypeInv /\ TypeOK /\ RecoveryAt
  BY DEF RecordInv, HostInv, TypeInv
<1>1. CASE TakeInterruptedRun
  <2>1. /\ agent = "down" /\ rcv = NoRun /\ lock # Torn /\ lock' = Free /\ rcv' = TakenRun
        /\ stored' = stored /\ pc' = pc /\ effects' = effects /\ agent' # "unsure"
        /\ overwritten' = overwritten
    BY <1>0, <1>1
    DEF TakeInterruptedRun, local, host, ghosts, TypeInv, TypeOK, RecoveryOK, Settling, RecoveryStep
  <2>2. StageBar' = StageBar /\ ChangedBar' = ChangedBar
    BY <2>1, StageSame, AllStagesSame DEF Revising, ChangedBar
  <2>3. CASE TakenRun # NoRun
    <3>1. TakenRun = lock /\ lock \in Runs
      BY <1>0, <2>1, <2>3 DEF TakenRun, TypeOK
    <3>2. OwnerBar' = OwnerBar
      BY <2>1, <3>1, Zero DEF OwnerBar
    <3>3. QED
      BY <2>2, <3>2 DEF HostStays
  <2>4. CASE TakenRun = NoRun
    <3>1. OwnerBar' = NoRun
      BY <2>1, <2>4, Zero DEF OwnerBar
    <3>2. CASE lock \in Runs
      <4>1. OwnerBar = lock
        BY <2>1, <3>2 DEF OwnerBar
      <4>2. QED
        BY <2>2, <3>1, <3>2, <4>1, GiveUpStep
    <3>3. CASE lock \notin Runs
      BY <2>1, <2>2, <3>1, <3>3 DEF OwnerBar, HostStays
    <3>4. QED
      BY <3>2, <3>3
  <2>5. QED
    BY <2>3, <2>4
<1>2. CASE RecoverVersion
  <2>1. /\ UNCHANGED <<rcv, lock, stored, effects, pc, overwritten>>
        /\ agent = "restore" /\ agent' = "retry"
    BY <1>2 DEF RecoverVersion, host, local, ghosts
  <2>2. QED
    BY <2>1, StageSame, AllStagesSame DEF Revising, ChangedBar, OwnerBar, HostStays
<1>3. CASE Recover \/ OutcomeUnlogged \/ OutcomeRevised
  <2>1. PICK r \in Runs : r = rcv
    BY <1>0, <1>3, RecoverIs
  <2>2. /\ agent \in Settling /\ lock = Free /\ UNCHANGED <<lock, effects, pc, overwritten>>
        /\ \A q \in Runs \ {r} : stored'[q] = stored[q]
        /\ stored'[r].phase \in Terminal
    BY <1>0, <1>3, <2>1, RecoverIs
    DEF RecoveryAt, TypeInv, RecoveryOK, Settling, Settled, Terminal, ghosts
  <2>3. OwnerBar = r /\ ChangedBar' = ChangedBar
    BY <2>1, <2>2, Zero DEF OwnerBar, ChangedBar
  <2>4. \A q \in Runs \ {r} : StageBar'[q] = StageBar[q]
    <3>1. \A q \in Runs \ {r} : ~Revising(q) /\ ~Revising(q)'
      BY <1>0, <1>3, <2>1, RecoverIs, Zero DEF Revising
    <3>2. QED
      BY <2>2, <3>1, StageSame
  <2>9. CASE r \in overwritten
    <3>1. \A q \in Runs : StageBar'[q] = StageBar[q]
      BY <2>2, <2>4, <2>9, StageUnknown
    <3>2. OwnerBar' \in {r, NoRun}
      BY <1>0, <1>3, <2>1, <2>2, RecoverIs, Zero DEF OwnerBar
    <3>3. CASE OwnerBar' = r
      BY <2>3, <3>1, <3>3, AllStagesSame DEF HostStays
    <3>4. CASE OwnerBar' = NoRun
      BY <2>3, <3>1, <3>4, GiveUpStep
    <3>5. QED
      BY <3>2, <3>3, <3>4
  <2> SUFFICES ASSUME r \notin overwritten PROVE Host!Next \/ HostStays
    BY <2>9
  <2>5. StageBar[r] \in {"preparing", "changing"}
    <3>1. CASE Revising(r)
      BY <3>1, StageIs
    <3>2. CASE ~Revising(r)
      BY <1>0, <2>1, <2>2, <3>2, StageIs DEF RecoveryAt, Settling, Revising, Changing
    <3>3. QED
      BY <3>1, <3>2
  <2>6. CASE agent' \in {"ready", "down"} /\ rcv' = NoRun
    <3>1. OwnerBar' = NoRun /\ ~Revising(r)'
      BY <2>2, <2>6, Zero DEF OwnerBar, Revising
    <3>2. effects' = effects
      BY <2>2
    <3>3. QED
      BY <2>2, <2>3, <2>4, <2>5, <3>1, <3>2, EndStep
  <2>7. CASE agent = "settle" /\ agent' = "unsure" /\ rcv' = rcv
    <3>1. StageBar[r] = "changing" /\ StageBar'[r] = "changing"
      BY <1>0, <2>1, <2>2, <2>7, StageIs, StageIsNext DEF RecoveryAt, Revising, Changing
    <3>2. StageBar' = StageBar
      BY <2>4, <3>1, AllStagesSame
    <3>3. QED
      BY <2>2, <2>3, <2>7, <3>2 DEF OwnerBar, HostStays
  <2>8. QED
    BY <1>0, <1>3, <2>6, <2>7, RecoverIs
<1>4. CASE RecoveryFails
  <2>1. Stop /\ agent \in Settling /\ UNCHANGED <<lock, effects>>
    BY <1>4 DEF RecoveryFails, host, Settling
  <2>2. QED
    BY <2>1, SettlingHost
<1>5. QED
  BY <1>0, <1>1, <1>2, <1>3, <1>4 DEF Boot

\* A cancellation leaves the stage of a run alone, or loses its record.
LEMMA CancelHost ==
  ASSUME RecordInv, NEW r \in Runs, CancelLoad(r) \/ CancelSave(r)
  PROVE  Host!Next \/ HostStays
<1>0. TypeOK /\ RunInv(r)
  BY DEF RecordInv, HostInv, TypeInv
<1>1. /\ Others(r) /\ UNCHANGED <<rcv, lock, effects, pc>> /\ overwritten \subseteq overwritten'
      /\ pc[r] \notin Unrecorded
  BY <1>0, CancelLoadIs, CancelSaveIs DEF RunInv, DiskAt, PendAt, ghosts
<1>2. OwnerBar' = OwnerBar /\ \A q \in Runs \ {r} : StageBar'[q] = StageBar[q]
  BY <1>1, OtherStages DEF OwnerBar
<1>3. CASE r \notin overwritten /\ r \in overwritten'
  BY <1>1, <1>2, <1>3, LoseStep
<1>4. CASE r \in overwritten \/ r \notin overwritten'
  <2>1. ChangedBar' = ChangedBar
    BY <1>1, <1>4, ChangedSame DEF Others
  <2>2. r \notin overwritten' => stored'[r].phase = stored[r].phase /\ stored'[r].code = stored[r].code
    BY <1>0, CancelLoadIs, CancelSaveIs DEF RunInv, DiskAt, PendAt, CanCancel, Terminal
  <2>3. StageBar'[r] = StageBar[r]
    BY <1>1, <1>4, <2>2, StageSame, StageUnknown DEF Others, Revising
  <2>4. QED
    BY <1>2, <2>1, <2>3, AllStagesSame DEF HostStays
<1>5. QED
  BY <1>3, <1>4

LEMMA NextHost ==
  ASSUME RecordInv, RecordInv', [Next]_vars
  PROVE  Host!Next \/ HostStays
<1>1. ASSUME NEW r \in Runs, Execute(r) \/ StreamLog(r) PROVE Host!Next \/ HostStays
  BY <1>1, PruneHost, RejectHost, ExecuteHost
<1>2. ASSUME NEW r \in Runs, CancelLoad(r) \/ CancelSave(r) PROVE Host!Next \/ HostStays
  BY <1>2, CancelHost
<1>3. CASE Crash \/ StreamLogFails
  BY <1>3, DieHost DEF Crash, StreamLogFails
<1>4. CASE UNCHANGED vars
  BY <1>4 DEF vars, HostStays, OwnerBar, StageBar, ChangedBar
<1>5. QED
  BY <1>1, <1>2, <1>3, <1>4, RequestHost, InstallHost, BootHost DEF Next

\* The agent keeps what HostUpdate promises: one owner at a time, no change of the host
\* before the record announces it, one truthful outcome per run, and no run that returns
\* after its record was pruned. A cancellation may lose a run, and no other: CancelSave writes a
\* record back that may be older than the run (cancel() of UpdaterAgent).
THEOREM AgentImplementsHost == Spec => ImplementsHostUpdate
<1>1. Init => Host!Init
  <2> SUFFICES ASSUME Init PROVE Host!Init
    OBVIOUS
  <2>1. OwnerBar = NoRun /\ ChangedBar = {}
    BY Zero DEF Init, OwnerBar, ChangedBar
  <2>2. \A r \in Runs : StageBar[r] = "none"
    BY StageIs DEF Init, Revising, Exists, NoRec, Unrecorded, Asking
  <2>3. StageBar = [r \in Runs |-> "none"]
    BY <2>2, StageFunctions
  <2>4. QED
    BY <2>1, <2>3 DEF Host!Init
<1>2. RecordInv /\ RecordInv' /\ [Next]_vars => [Host!Next]_Host!vars
  BY NextHost DEF HostStays, Host!vars
<1>3. QED
  BY <1>1, <1>2, AlwaysRecordInv, PTL DEF Spec, ImplementsHostUpdate, Host!Spec
=============================================================================
