------------------------- MODULE MediaDeletionProofs -------------------------
(***************************************************************************)
(* What is served is on the disk, what is reported deleted is not, nothing *)
(* withdrawn is stranded and uploads fit the quota: proofs for any number  *)
(* of attachments, deletion requests, retries, crashes and faults.         *)
(***************************************************************************)
EXTENDS MediaDeletion, FiniteSetTheorems, TLAPS

JobRecord == [key: JobKey, tries: 0..(MaxTries - 1), state: {"waiting", "active", "ended"}]
WorkerRecord ==
  [pc: {"idle", "load", "claim", "mark", "unlink", "read", "commit", "catch"},
   key: JobKey \cup {<<>>}, seen: Statuses, used: Nat, gone: BOOLEAN]
OpRecord == [status: Statuses, of: SUBSET Attachments, attempts: Nat]
Bounds == [retries: Nat, reconciles: Nat, crashes: Nat, faults: Nat]

\* TypeOK with the worker and the bounds as records, and a key for a worker with a job.
Typed ==
  /\ TypeOK
  /\ worker \in WorkerRecord /\ (worker.pc # "idle" => worker.key \in JobKey)
  /\ bounds \in Bounds

\* Who asks for a deletion read the attachment's row before; the operation is of at most one
\* attachment from then on, and only then are there jobs for it.
Asked ==
  /\ \A o \in Operations :
       /\ request[o] # {} => op[o].status = "NONE"
       /\ op[o].status = "NONE" => op[o].of = {}
       /\ \A a, b \in request[o] : a = b
       /\ \A a, b \in op[o].of : a = b
  /\ \A o \in retrying : op[o].status # "NONE"
  /\ \A k \in adding : op[k[1]].status # "NONE"
  /\ \A j \in queue : op[j.key[1]].status # "NONE"
  /\ worker.pc # "idle" => op[Mine].status # "NONE"

\* An attachment has a row once its upload was stored, and an upload that may still be stored
\* has its file.
Uploads ==
  \A a \in Attachments :
    /\ upload[a] \in {"none", "written", "checked", "refused"} => att[a] = "NONE"
    /\ upload[a] \in {"written", "checked"} => a \in file

\* Nothing that somebody asked to delete is active, or becomes it.
Withdrawn ==
  \A o \in Operations :
    /\ \A a \in request[o] : att[a] # "NONE"
    /\ \A a \in op[o].of : att[a] \notin {"NONE", "ACTIVE"}

\* Past the removal of the file it stays removed.
Removed == worker.pc \in {"read", "commit"} => op[Mine].of \cap file = {}

\* A worker that has found the attachment deleted completes its operation alone: if the row
\* was withdrawn again since, another operation did it and is open.
GoneStays ==
  worker.pc = "commit" /\ worker.gone =>
    \A a \in op[Mine].of :
      \/ att[a] = "DELETED"
      \/ \E o \in Operations \ {Mine} : a \in op[o].of /\ op[o].status # "COMPLETED"

\* Before the first deletion and the first reconciliation the counter is exact, and leaves
\* room for the one upload that was checked and is not stored yet.
Untouched == (\A o \in Operations : op[o].status = "NONE") /\ bounds.reconciles = MaxReconciles
Checked == {a \in Attachments : upload[a] = "checked"}
Counted ==
  /\ bounds.reconciles \in 0..MaxReconciles
  /\ reconciling # NoTotal => bounds.reconciles < MaxReconciles
  /\ \A a, b \in Checked : a = b
  /\ Untouched => /\ used = Cardinality(Active) /\ used <= Quota
                  /\ Checked # {} => used + 1 <= Quota

-----------------------------------------------------------------------------
(***************************************************************************)
(* Records.                                                                *)
(***************************************************************************)
LEMMA IdleWorker == Idle \in WorkerRecord /\ Idle.pc = "idle"
BY DEF Idle, WorkerRecord, Statuses

\* The operation of a worker with a job.
LEMMA MineIsOperation ==
  ASSUME Typed, worker.pc # "idle"
  PROVE  Mine \in Operations /\ worker.key \in JobKey
BY DEF Typed, Mine, JobKey

LEMMA OpChanges ==
  ASSUME NEW r \in OpRecord, NEW status \in Statuses, NEW of \in SUBSET Attachments
  PROVE  /\ [r EXCEPT !.status = status] \in OpRecord
         /\ [r EXCEPT !.status = status, !.of = of] \in OpRecord
         /\ [r EXCEPT !.status = status, !.attempts = r.attempts + 1] \in OpRecord
<1>1. r.attempts + 1 \in Nat
  BY DEF OpRecord
<1> DEFINE n == r.attempts + 1
<1> HIDE DEF n
<1>2. n \in Nat
  BY <1>1 DEF n
<1>3. [r EXCEPT !.status = status, !.attempts = n] \in OpRecord
  BY <1>2 DEF OpRecord
<1>4. [r EXCEPT !.status = status, !.attempts = r.attempts + 1] \in OpRecord
  BY <1>3 DEF n
<1>5. QED
  BY <1>4 DEF OpRecord

LEMMA OpIsRecord ==
  ASSUME Typed
  PROVE  /\ op \in [Operations -> OpRecord]
         /\ \A o \in Operations : /\ op[o] \in OpRecord /\ op[o].status \in Statuses
                                  /\ op[o].of \in SUBSET Attachments
BY DEF Typed, TypeOK, OpRecord

LEMMA StatusChange ==
  ASSUME Typed, NEW o \in Operations, NEW status \in Statuses
  PROVE  [op EXCEPT ![o].status = status] \in [Operations -> OpRecord]
<1>1. [op[o] EXCEPT !.status = status] \in OpRecord
  BY OpIsRecord, OpChanges
<1>2. QED
  BY <1>1, OpIsRecord

LEMMA GotoIsWorker ==
  ASSUME Typed, NEW step \in {"load", "claim", "mark", "unlink", "read", "commit", "catch"},
         worker.pc # "idle", Goto(step)
  PROVE  /\ worker' \in WorkerRecord /\ worker'.key \in JobKey
         /\ worker'.pc = step /\ worker'.key = worker.key
         /\ worker'.seen = worker.seen /\ worker'.used = worker.used /\ worker'.gone = worker.gone
BY MineIsOperation DEF Typed, WorkerRecord, Goto

\* A job that ends or is tried again is the same job.
LEMMA FinishIsQueue ==
  ASSUME Typed, NEW ok \in BOOLEAN, Finish(ok)
  PROVE  /\ worker' = Idle /\ queue' \subseteq JobRecord
         /\ \A j \in queue' : \E i \in queue : i.key = j.key
<1> DEFINE after(j) == IF j.key # worker.key THEN j
                       ELSE IF ok \/ j.tries + 1 >= MaxTries THEN [j EXCEPT !.state = "ended"]
                       ELSE [j EXCEPT !.state = "waiting", !.tries = @ + 1]
<1>1. queue \subseteq JobRecord /\ MaxTries \in Nat
  BY MediaAssumption DEF Typed, TypeOK, JobRecord
<1>2. ASSUME NEW j \in queue PROVE after(j) \in JobRecord /\ after(j).key = j.key
  <2>1. j \in JobRecord
    BY <1>1
  <2>2. [j EXCEPT !.state = "ended"] \in JobRecord /\ [j EXCEPT !.state = "ended"].key = j.key
    BY <2>1 DEF JobRecord
  <2>3. j.tries + 1 < MaxTries =>
          /\ [j EXCEPT !.state = "waiting", !.tries = j.tries + 1] \in JobRecord
          /\ [j EXCEPT !.state = "waiting", !.tries = j.tries + 1].key = j.key
    <3> DEFINE tries == 0..(MaxTries - 1)
    <3>1. j.tries + 1 < MaxTries => j.tries + 1 \in tries
      BY <1>1, <2>1 DEF JobRecord
    <3> HIDE DEF tries
    <3>2. JobRecord = [key: JobKey, tries: tries, state: {"waiting", "active", "ended"}]
      BY DEF JobRecord, tries
    <3>3. QED
      BY <2>1, <3>1, <3>2
  <2>4. j.tries \in Nat
    BY <2>1, <1>1 DEF JobRecord
  <2>5. QED
    BY <1>1, <2>1, <2>2, <2>3, <2>4
<1>3. queue' = {after(j) : j \in queue} /\ worker' = Idle
  BY DEF Finish
<1>4. QED
  BY <1>2, <1>3

LEMMA SpendIsBounds ==
  ASSUME Typed, NEW b \in {"retries", "reconciles", "crashes", "faults"}, Spend(b)
  PROVE  /\ bounds' \in Bounds
         /\ b # "reconciles" => bounds'.reconciles = bounds.reconciles
         /\ b = "reconciles" => bounds'.reconciles = bounds.reconciles - 1 /\ bounds.reconciles > 0
BY DEF Typed, Spend, Bounds
-----------------------------------------------------------------------------
(***************************************************************************)
(* Types.                                                                  *)
(***************************************************************************)
LEMMA InitTyped == Init => Typed
BY MediaAssumption, IdleWorker
DEF Init, Typed, TypeOK, Lifecycle, Statuses, NoTotal, Idle, Bounds, JobKey

LEMMA UploadTyped ==
  ASSUME Typed, NEW a \in Attachments, Upload(a)
  PROVE  Typed'
<1> USE DEF api, Step
<1>1. CASE UploadFile(a)
  BY <1>1 DEF Typed, TypeOK, UploadFile
<1>2. CASE UploadCheck(a)
  BY <1>2 DEF Typed, TypeOK, UploadCheck
<1>3. CASE UploadStore(a)
  <2>1. bounds' \in Bounds
    BY <1>3, SpendIsBounds DEF UploadStore, Typed
  <2>2. QED
    BY <1>3, <2>1 DEF Typed, TypeOK, UploadStore, Lifecycle
<1>4. CASE UploadFails(a)
  <2>1. bounds' \in Bounds
    BY <1>4, SpendIsBounds DEF UploadFails, Typed
  <2>2. QED
    BY <1>4, <2>1 DEF Typed, TypeOK, UploadFails
<1>5. CASE UploadUndo(a)
  <2>1. bounds' \in Bounds
    BY <1>5, SpendIsBounds DEF UploadUndo, Typed
  <2>2. file' \subseteq file /\ upload' \in [Attachments -> {"none", "written", "checked",
                              "refused", "stored", "left", "unanswered", "torn"}]
    BY <1>5 DEF Typed, TypeOK, UploadUndo
  <2>3. QED
    BY <1>5, <2>1, <2>2 DEF Typed, TypeOK, UploadUndo
<1>6. QED
  BY <1>1, <1>2, <1>3, <1>4, <1>5 DEF Upload

LEMMA KeyIsJobKey ==
  ASSUME Typed, NEW o \in Operations
  PROVE  Key(o) \in JobKey
BY DEF Typed, TypeOK, Key, JobKey

LEMMA RequestTyped ==
  ASSUME Typed, NEW o \in Operations,
         \/ \E a \in Unwanted : RequestRead(o, a)
         \/ RequestStore(o) \/ RequestAgain(o) \/ RetryRead(o) \/ RetryStore(o)
  PROVE  Typed'
<1>1. CASE \E a \in Unwanted : RequestRead(o, a)
  BY <1>1, MediaAssumption DEF Typed, TypeOK, RequestRead
<1>2. CASE RequestStore(o)
  <2>1. op \in [Operations -> OpRecord] /\ op[o] \in OpRecord /\ request[o] \in SUBSET Attachments
    BY DEF Typed, TypeOK, OpRecord
  <2>2. [op[o] EXCEPT !.status = "PENDING", !.of = request[o]] \in OpRecord
    BY <2>1, OpChanges DEF Statuses
  <2>3. op' \in [Operations -> OpRecord]
    BY <1>2, <2>1, <2>2 DEF RequestStore
  <2>4. <<o, 0>> \in JobKey
    BY DEF JobKey
  <2>5. att' \in [Attachments -> Lifecycle]
    BY <1>2 DEF Typed, TypeOK, RequestStore, Lifecycle
  <2>6. QED
    BY <1>2, <2>3, <2>4, <2>5 DEF Typed, TypeOK, RequestStore, OpRecord
<1>3. CASE RequestAgain(o)
  <2>1. bounds' \in Bounds
    BY <1>3, SpendIsBounds DEF RequestAgain
  <2>2. QED
    BY <1>3, <2>1, KeyIsJobKey DEF Typed, TypeOK, RequestAgain
<1>4. CASE RetryRead(o)
  <2>1. bounds' \in Bounds
    BY <1>4, SpendIsBounds DEF RetryRead
  <2>2. QED
    BY <1>4, <2>1 DEF Typed, TypeOK, RetryRead
<1>5. CASE RetryStore(o)
  <2>1. op' \in [Operations -> OpRecord]
    BY <1>5, StatusChange DEF RetryStore, Statuses
  <2>2. att' \in [Attachments -> Lifecycle]
    BY <1>5 DEF Typed, TypeOK, RetryStore, Lifecycle
  <2>3. lost' \subseteq Operations
    BY <1>5 DEF Typed, TypeOK, RetryStore
  <2>4. QED
    BY <1>5, <2>1, <2>2, <2>3, KeyIsJobKey DEF Typed, TypeOK, RetryStore, OpRecord
<1>6. QED
  BY <1>1, <1>2, <1>3, <1>4, <1>5

LEMMA QueueTyped ==
  ASSUME Typed, (\E k \in adding : AddJob(k)) \/ (\E j \in queue : Evict(j))
  PROVE  Typed'
<1>1. ASSUME NEW k \in adding, AddJob(k)
      PROVE  Typed'
  <2>1. [key |-> k, state |-> "waiting", tries |-> 0] \in JobRecord
    BY MediaAssumption DEF Typed, TypeOK, JobRecord
  <2>2. queue' \subseteq JobRecord
    BY <1>1, <2>1 DEF AddJob, Typed, TypeOK, JobRecord
  <2>3. QED
    BY <1>1, <2>2 DEF AddJob, Typed, TypeOK, JobRecord
<1>2. ASSUME NEW j \in queue, Evict(j)
      PROVE  Typed'
  BY <1>2 DEF Evict, api, Typed, TypeOK
<1>3. QED
  BY <1>1, <1>2

\* What a step of the worker leaves of the types when it keeps the worker, the queue and the
\* rows in theirs.
LEMMA WorkTyped ==
  ASSUME Typed, Work
  PROVE  Typed'
<1> USE DEF api, At
<1>1. queue \subseteq JobRecord /\ op \in [Operations -> OpRecord]
  BY DEF Typed, TypeOK, JobRecord, OpRecord
<1>2. ASSUME NEW j \in queue, Take(j)
      PROVE  Typed'
  <2>1. j \in JobRecord /\ [j EXCEPT !.state = "active"] \in JobRecord /\ j.key \in JobKey
    BY <1>1 DEF JobRecord
  <2>2. [[Idle EXCEPT !.pc = "load"] EXCEPT !.key = j.key] \in WorkerRecord
        /\ [[Idle EXCEPT !.pc = "load"] EXCEPT !.key = j.key].key = j.key
    BY <2>1, IdleWorker DEF WorkerRecord
  <2>3. worker' \in WorkerRecord /\ worker'.key \in JobKey
    BY <1>2, <2>1, <2>2 DEF Take
  <2>4. queue' \subseteq JobRecord
    BY <1>1, <1>2, <2>1 DEF Take
  <2>5. QED
    BY <1>2, <2>3, <2>4 DEF Take, Typed, TypeOK, WorkerRecord, JobRecord
<1>3. ASSUME worker' \in WorkerRecord, worker'.pc # "idle" => worker'.key \in JobKey,
             queue' \subseteq JobRecord, op' \in [Operations -> OpRecord],
             att' \in [Attachments -> Lifecycle], used' \in Nat, file' \subseteq Attachments,
             lost' \subseteq Operations, bounds' \in Bounds, UNCHANGED <<upload, api>>
      PROVE  Typed'
  BY <1>3 DEF Typed, TypeOK, WorkerRecord, JobRecord, OpRecord
<1>4. Idle \in WorkerRecord /\ Idle.pc = "idle"
  BY IdleWorker
<1>5. /\ att \in [Attachments -> Lifecycle] /\ used \in Nat /\ file \subseteq Attachments
      /\ lost \subseteq Operations /\ bounds \in Bounds /\ worker \in WorkerRecord
  BY DEF Typed, TypeOK
<1>6. CASE Load
  <2>1. CASE op[Mine].status = "COMPLETED"
    BY <1>1, <1>3, <1>4, <1>5, <1>6, <2>1, FinishIsQueue DEF Load
  <2>2. CASE op[Mine].status # "COMPLETED"
    <3>1. op[Mine].status \in Statuses /\ worker.key \in JobKey
      BY <1>6, OpIsRecord, MineIsOperation DEF Load
    <3>2. worker' = [worker EXCEPT !.pc = "claim", !.seen = op[Mine].status]
      BY <1>6, <2>2 DEF Load
    <3>3. worker' \in WorkerRecord /\ worker'.key = worker.key
      <4> DEFINE status == op[Mine].status
      <4>1. status \in Statuses /\ worker' = [worker EXCEPT !.pc = "claim", !.seen = status]
        BY <3>1, <3>2
      <4> HIDE DEF status
      <4>2. QED
        BY <1>5, <4>1 DEF WorkerRecord
    <3>4. QED
      BY <1>1, <1>3, <1>5, <1>6, <2>2, <3>1, <3>3 DEF Load
  <2>3. QED
    BY <2>1, <2>2
<1>7. CASE Claim
  <2>1. Mine \in Operations
    BY <1>7, MineIsOperation DEF Claim
  <2>2. op' \in [Operations -> OpRecord]
    <3>1. [[op[Mine] EXCEPT !.status = "PROCESSING"] EXCEPT !.attempts = op[Mine].attempts + 1]
            \in OpRecord
      BY <1>1, <2>1, OpChanges DEF Statuses
    <3>2. CASE Claimable(op[Mine].status)
      BY <1>1, <1>7, <2>1, <3>1, <3>2 DEF Claim
    <3>3. QED
      BY <1>1, <1>7, <3>2 DEF Claim
  <2>3. CASE Finish(TRUE)
    BY <1>3, <1>4, <1>5, <1>7, <2>2, <2>3, FinishIsQueue DEF Claim
  <2>4. CASE Goto("mark") /\ UNCHANGED queue
    BY <1>1, <1>3, <1>5, <1>7, <2>2, <2>4, GotoIsWorker DEF Claim
  <2>5. QED
    BY <1>7, <2>3, <2>4 DEF Claim
<1>8. CASE MarkDeleting
  <2>1. att' \in [Attachments -> Lifecycle]
    BY <1>5, <1>8 DEF MarkDeleting, Lifecycle
  <2>2. QED
    BY <1>1, <1>3, <1>5, <1>8, <2>1, GotoIsWorker DEF MarkDeleting
<1>9. CASE Unlink
  BY <1>1, <1>3, <1>5, <1>9, GotoIsWorker DEF Unlink
<1>10. CASE ReadUsage
  <2> DEFINE found == \E a \in op[Mine].of : Done(att[a])
  <2>1. found \in BOOLEAN
    OBVIOUS
  <2>2. worker' = [worker EXCEPT !.pc = "commit", !.used = used, !.gone = found]
    BY <1>10 DEF ReadUsage
  <2> HIDE DEF found
  <2>3. worker' \in WorkerRecord /\ worker'.key = worker.key
    BY <1>5, <2>1, <2>2 DEF WorkerRecord
  <2>4. worker.key \in JobKey
    BY <1>10, MineIsOperation DEF ReadUsage
  <2>5. QED
    BY <1>1, <1>3, <1>5, <1>10, <2>3, <2>4 DEF ReadUsage
<1>11. CASE Commit
  <2>1. Mine \in Operations
    BY <1>11, MineIsOperation DEF Commit
  <2>2. op' \in [Operations -> OpRecord]
    BY <1>11, <2>1, StatusChange DEF Commit, Statuses
  <2>3. att' \in [Attachments -> Lifecycle] /\ used' \in Nat
    BY <1>5, <1>11 DEF Commit, Become, Lowered, Lifecycle, WorkerRecord
  <2>4. CASE Finish(TRUE) /\ UNCHANGED bounds
    BY <1>3, <1>4, <1>5, <1>11, <2>2, <2>3, <2>4, FinishIsQueue DEF Commit
  <2>5. CASE Goto("catch") /\ Spend("faults") /\ UNCHANGED queue
    BY <1>1, <1>3, <1>5, <1>11, <2>2, <2>3, <2>5, GotoIsWorker, SpendIsBounds DEF Commit
  <2>6. QED
    BY <1>11, <2>4, <2>5 DEF Commit
<1>12. CASE Throws
  BY <1>1, <1>3, <1>5, <1>12, GotoIsWorker, SpendIsBounds DEF Throws, Handler
<1>13. CASE Catch
  <2>1. Mine \in Operations
    BY <1>13, MineIsOperation DEF Catch
  <2>2. op' \in [Operations -> OpRecord] /\ att' \in [Attachments -> Lifecycle]
    <3>1. op' \in [Operations -> OpRecord]
      BY <1>13, <2>1, StatusChange DEF Catch, Statuses
    <3>2. QED
      BY <1>5, <1>13, <3>1 DEF Catch, Become, FailedStatus, Lifecycle
  <2>3. QED
    BY <1>3, <1>4, <1>5, <1>13, <2>2, FinishIsQueue DEF Catch
<1>14. CASE Uncaught
  <2>1. lost' \subseteq Operations
    BY <1>5, <1>14, MineIsOperation DEF Uncaught, Exhausted
  <2>2. QED
    BY <1>1, <1>3, <1>4, <1>5, <1>14, <2>1, FinishIsQueue, SpendIsBounds DEF Uncaught
<1>15. QED
  BY <1>2, <1>6, <1>7, <1>8, <1>9, <1>10, <1>11, <1>12, <1>13, <1>14 DEF Work

LEMMA ActiveIsCounted == IsFiniteSet(Active) /\ Cardinality(Active) \in Nat
<1>1. Active \subseteq Attachments /\ IsFiniteSet(Attachments)
  BY MediaAssumption DEF Active
<1>2. QED
  BY <1>1, FS_Subset, FS_CardinalityType

LEMMA ReconcileTyped ==
  ASSUME Typed, ReconcileRead \/ ReconcileStore
  PROVE  Typed'
<1>1. CASE ReconcileRead
  <2>1. bounds' \in Bounds /\ reconciling' \in Nat
    BY <1>1, SpendIsBounds, ActiveIsCounted DEF ReconcileRead, Active
  <2>2. QED
    BY <1>1, <2>1 DEF ReconcileRead, Typed, TypeOK
<1>2. CASE ReconcileStore
  BY <1>2 DEF ReconcileStore, Typed, TypeOK
<1>3. QED
  BY <1>1, <1>2

\* A crash puts the job of the worker back.
LEMMA CrashIsQueue ==
  ASSUME Typed, WorkerCrash
  PROVE  queue' \subseteq JobRecord /\ \A j \in queue' : \E i \in queue : i.key = j.key
<1>1. queue \subseteq JobRecord
  BY DEF Typed, TypeOK, JobRecord
<1>2. ASSUME NEW j \in queue
      PROVE  [j EXCEPT !.state = "waiting"] \in JobRecord /\ [j EXCEPT !.state = "waiting"].key = j.key
  BY <1>1 DEF JobRecord
<1>3. QED
  BY <1>1, <1>2 DEF WorkerCrash

LEMMA CrashTyped ==
  ASSUME Typed, ApiCrash \/ WorkerCrash
  PROVE  Typed'
<1>1. CASE ApiCrash
  <2>1. bounds' \in Bounds
    BY <1>1, SpendIsBounds DEF ApiCrash
  <2>2. lost' \subseteq Operations
    BY <1>1 DEF ApiCrash, Typed, TypeOK, JobKey
  <2>3. upload' \in [Attachments -> {"none", "written", "checked", "refused", "stored", "left",
                                 "unanswered", "torn"}]
    BY <1>1 DEF ApiCrash, Typed, TypeOK
  <2>4. QED
    BY <1>1, <2>1, <2>2, <2>3 DEF ApiCrash, Typed, TypeOK
<1>2. CASE WorkerCrash
  <2>1. bounds' \in Bounds
    BY <1>2, SpendIsBounds DEF WorkerCrash
  <2>2. worker' = Idle /\ queue' \subseteq JobRecord
    BY <1>2, CrashIsQueue DEF WorkerCrash
  <2>3. worker' \in WorkerRecord /\ worker'.pc = "idle"
    BY <2>2, IdleWorker
  <2>4. QED
    BY <1>2, <2>1, <2>2, <2>3 DEF WorkerCrash, api, Typed, TypeOK, WorkerRecord, JobRecord
<1>3. QED
  BY <1>1, <1>2

LEMMA NextTyped == Typed /\ [Next]_vars => Typed'
<1> SUFFICES ASSUME Typed, [Next]_vars PROVE Typed'
  OBVIOUS
<1>1. CASE UNCHANGED vars
  BY <1>1 DEF vars, api, Typed, TypeOK
<1>2. QED
  BY <1>1, UploadTyped, RequestTyped, QueueTyped, WorkTyped, ReconcileTyped, CrashTyped DEF Next

\* Every variable keeps to its values, through retries, crashes and faults.
THEOREM TypeCorrect == Spec => []Typed
BY InitTyped, NextTyped, PTL DEF Spec
-----------------------------------------------------------------------------
(***************************************************************************)
(* Requests, operations and their jobs.                                    *)
(***************************************************************************)
\* A step that turns no operation into another one's, adds no job to the queue, and hands the
\* worker none from elsewhere.
OpsKept ==
  \A o \in Operations : op'[o].of = op[o].of /\ (op'[o].status = "NONE" <=> op[o].status = "NONE")
JobsKept == \A j \in queue' : \E i \in queue : i.key = j.key
JobTaken ==
  worker'.pc # "idle" => \/ worker.pc # "idle" /\ worker'.key = worker.key
                         \/ \E j \in queue : worker'.key = j.key

LEMMA StatusSet ==
  ASSUME Typed, NEW o \in Operations, NEW status \in Statuses, status # "NONE",
         op[o].status # "NONE", op' = [op EXCEPT ![o].status = status]
  PROVE  OpsKept /\ op'[o].status = status /\ \A p \in Operations : p # o => op'[p] = op[p]
<1>1. [op[o] EXCEPT !.status = status].status = status
      /\ [op[o] EXCEPT !.status = status].of = op[o].of
  BY OpIsRecord DEF OpRecord
<1>2. op'[o] = [op[o] EXCEPT !.status = status] /\ \A p \in Operations \ {o} : op'[p] = op[p]
  BY OpIsRecord
<1>3. QED
  BY <1>1, <1>2 DEF OpsKept

LEMMA ClaimSet ==
  ASSUME Typed, NEW o \in Operations, op[o].status # "NONE",
         op' = [op EXCEPT ![o].status = "PROCESSING", ![o].attempts = @ + 1]
  PROVE  OpsKept /\ op'[o].status = "PROCESSING" /\ \A p \in Operations : p # o => op'[p] = op[p]
<1> DEFINE n == op[o].attempts + 1
<1>1. op' = [op EXCEPT ![o] = [op[o] EXCEPT !.status = "PROCESSING", !.attempts = n]]
  BY OpIsRecord
<1> HIDE DEF n
<1>2. [op[o] EXCEPT !.status = "PROCESSING", !.attempts = n].status = "PROCESSING"
      /\ [op[o] EXCEPT !.status = "PROCESSING", !.attempts = n].of = op[o].of
  BY OpIsRecord DEF OpRecord
<1>3. QED
  BY <1>1, <1>2, OpIsRecord DEF OpsKept

LEMMA WorkKeeps ==
  ASSUME Typed, Asked, Work
  PROVE  /\ OpsKept /\ JobsKept /\ JobTaken /\ UNCHANGED <<upload, api>>
         /\ \A o \in Operations : worker.pc = "idle" \/ o # Mine => op'[o] = op[o]
<1> USE DEF api, At
<1>1. worker.pc # "idle" => Mine \in Operations /\ op[Mine].status # "NONE"
  BY MineIsOperation DEF Asked
<1>2. ASSUME UNCHANGED op
      PROVE  OpsKept /\ \A o \in Operations : op'[o] = op[o]
  BY <1>2 DEF OpsKept
<1>3. ASSUME UNCHANGED queue
      PROVE  JobsKept
  BY <1>3 DEF JobsKept
<1>4. ASSUME worker.pc # "idle",
             Finish(TRUE) \/ Finish(FALSE)
      PROVE  JobsKept /\ JobTaken
  BY <1>4, FinishIsQueue, IdleWorker DEF JobsKept, JobTaken
<1>5. ASSUME worker.pc # "idle",
             NEW step \in {"load", "claim", "mark", "unlink", "read", "commit", "catch"}, Goto(step)
      PROVE  JobTaken
  BY <1>5, GotoIsWorker DEF JobTaken
<1>6. ASSUME NEW j \in queue, Take(j)
      PROVE  JobsKept /\ JobTaken /\ UNCHANGED <<op, upload, api>>
  <2>1. j \in JobRecord
    BY DEF Typed, TypeOK, JobRecord
  <2>2. [j EXCEPT !.state = "active"].key = j.key
    BY <2>1 DEF JobRecord
  <2>3. [Idle EXCEPT !.pc = "load", !.key = j.key].key = j.key
    BY IdleWorker DEF WorkerRecord
  <2>4. QED
    BY <1>6, <2>2, <2>3 DEF Take, JobsKept, JobTaken
<1>7. CASE Load
  <2>1. CASE Finish(TRUE)
    BY <1>2, <1>4, <1>7, <2>1 DEF Load
  <2>2. CASE worker' = [worker EXCEPT !.pc = "claim", !.seen = op[Mine].status] /\ UNCHANGED queue
    <3>1. worker'.key = worker.key
      BY <2>2 DEF Typed, WorkerRecord
    <3>2. QED
      BY <1>2, <1>3, <1>7, <2>2, <3>1 DEF Load, JobTaken
  <2>3. QED
    BY <1>7, <2>1, <2>2 DEF Load
<1>8. CASE Claim
  <2>1. OpsKept /\ \A o \in Operations : o # Mine => op'[o] = op[o]
    BY <1>1, <1>2, <1>8, ClaimSet DEF Claim
  <2>2. QED
    BY <1>3, <1>4, <1>5, <1>8, <2>1 DEF Claim
<1>9. CASE MarkDeleting
  BY <1>2, <1>3, <1>5, <1>9 DEF MarkDeleting
<1>10. CASE Unlink
  BY <1>2, <1>3, <1>5, <1>10 DEF Unlink
<1>11. CASE ReadUsage
  <2>1. worker'.key = worker.key
    BY <1>11 DEF ReadUsage, Typed, WorkerRecord
  <2>2. QED
    BY <1>2, <1>3, <1>11, <2>1 DEF ReadUsage, JobTaken
<1>12. CASE Commit
  <2>1. OpsKept /\ \A o \in Operations : o # Mine => op'[o] = op[o]
    BY <1>1, <1>12, StatusSet DEF Commit, Statuses
  <2>2. QED
    BY <1>3, <1>4, <1>5, <1>12, <2>1 DEF Commit
<1>13. CASE Throws
  BY <1>2, <1>3, <1>5, <1>13 DEF Throws, Handler
<1>14. CASE Catch
  <2>1. OpsKept /\ \A o \in Operations : o # Mine => op'[o] = op[o]
    BY <1>1, <1>14, StatusSet DEF Catch, Statuses
  <2>2. QED
    BY <1>4, <1>14, <2>1 DEF Catch
<1>15. CASE Uncaught
  BY <1>2, <1>4, <1>15 DEF Uncaught
<1>16. QED
  BY <1>2, <1>6, <1>7, <1>8, <1>9, <1>10, <1>11, <1>12, <1>13, <1>14, <1>15 DEF Work

LEMMA InitAsked == Init => Asked
BY IdleWorker DEF Init, Asked

\* Steps that leave every operation its attachment ask for nothing new.
LEMMA KeptAsked ==
  ASSUME Typed, Asked, OpsKept, JobsKept, JobTaken,
         \A o \in Operations : request'[o] \in {request[o], {}},
         \A o \in retrying' : o \in retrying \/ op[o].status # "NONE",
         \A k \in adding' : k \in adding \/ op[k[1]].status # "NONE",
         retrying' \subseteq Operations, adding' \subseteq JobKey
  PROVE  Asked'
<1>1. \A k \in JobKey : k[1] \in Operations
  BY DEF JobKey
<1>2. \A j \in queue : j.key \in JobKey
  BY DEF Typed, TypeOK
<1>3. \A o \in Operations : /\ request'[o] # {} => op'[o].status = "NONE"
                            /\ op'[o].status = "NONE" => op'[o].of = {}
                            /\ \A a, b \in request'[o] : a = b
                            /\ \A a, b \in op'[o].of : a = b
  BY DEF Asked, OpsKept
<1>4. \A o \in retrying' : op'[o].status # "NONE"
  BY DEF Asked, OpsKept
<1>5. \A k \in adding' : op'[k[1]].status # "NONE"
  BY <1>1 DEF Asked, OpsKept
<1>6. \A j \in queue' : op'[j.key[1]].status # "NONE"
  BY <1>1, <1>2 DEF Asked, OpsKept, JobsKept
<1>7. worker'.pc # "idle" => op'[Mine'].status # "NONE"
  BY <1>1, <1>2, MineIsOperation DEF Asked, OpsKept, JobTaken, Mine
<1>8. QED
  BY <1>3, <1>4, <1>5, <1>6, <1>7 DEF Asked

LEMMA NextAsked == Typed /\ Asked /\ [Next]_vars => Asked'
<1> SUFFICES ASSUME Typed, Asked, [Next]_vars PROVE Asked'
  OBVIOUS
<1> USE DEF api
<1>1. Typed'
  BY NextTyped
<1>2. retrying' \subseteq Operations /\ adding' \subseteq JobKey
  BY <1>1 DEF Typed, TypeOK
<1>3. ASSUME UNCHANGED op PROVE OpsKept
  BY <1>3 DEF OpsKept
<1>4. ASSUME UNCHANGED queue PROVE JobsKept
  BY <1>4 DEF JobsKept
<1>5. ASSUME UNCHANGED worker PROVE JobTaken
  BY <1>5 DEF JobTaken
<1>6. ASSUME NEW a \in Attachments, Upload(a) PROVE Asked'
  <2>1. UNCHANGED <<op, request, retrying, adding, queue, worker>>
    BY <1>6 DEF Upload, UploadFile, UploadCheck, UploadStore, UploadFails, UploadUndo
  <2>2. QED
    BY <1>2, <1>3, <1>4, <1>5, <2>1, KeptAsked
<1>7. ASSUME NEW o \in Operations, NEW a \in Unwanted, RequestRead(o, a) PROVE Asked'
  <2>1. request' = [request EXCEPT ![o] = {a}] /\ op[o].status = "NONE"
        /\ UNCHANGED <<op, retrying, adding, queue, worker>>
    BY <1>7 DEF RequestRead
  <2>2. request \in [Operations -> SUBSET Attachments]
    BY DEF Typed, TypeOK
  <2>3. QED
    BY <2>1, <2>2 DEF Asked, Mine
<1>8. ASSUME NEW o \in Operations, RequestStore(o) PROVE Asked'
  <2>1. op[o].status = "NONE" /\ request[o] \in SUBSET Attachments /\ \A a, b \in request[o] : a = b
    BY <1>8 DEF RequestStore, Asked, Typed, TypeOK
  <2> DEFINE asked == request[o]
             r == [op[o] EXCEPT !.status = "PENDING", !.of = asked]
  <2>2. op' = [op EXCEPT ![o] = r]
    BY <1>8, OpIsRecord DEF RequestStore
  <2>3. r.status = "PENDING" /\ r.of = asked
    <3> HIDE DEF asked
    <3>1. QED
      BY OpIsRecord DEF OpRecord
  <2>4. op'[o].status = "PENDING" /\ op'[o].of = request[o]
        /\ \A p \in Operations \ {o} : op'[p] = op[p]
    <3> HIDE DEF r
    <3>1. op'[o] = r /\ \A p \in Operations \ {o} : op'[p] = op[p]
      BY <2>2, OpIsRecord
    <3>2. QED
      BY <2>3, <3>1
  <2>5. request'[o] = {} /\ \A p \in Operations \ {o} : request'[p] = request[p]
    BY <1>8 DEF RequestStore, Typed, TypeOK
  <2>6. \A k \in JobKey : k[1] \in Operations
    BY DEF JobKey
  <2>7. \A k \in adding' : op'[k[1]].status # "NONE"
    <3>1. adding' = adding \cup {<<o, 0>>} /\ <<o, 0>>[1] = o
      BY <1>8 DEF RequestStore
    <3>2. QED
      BY <1>2, <2>4, <2>6, <3>1 DEF Asked
  <2>8. UNCHANGED <<retrying, queue, worker>>
    BY <1>8 DEF RequestStore
  <2>9. \A j \in queue' : op'[j.key[1]].status # "NONE"
    BY <2>4, <2>6, <2>8 DEF Asked, Typed, TypeOK
  <2>10. worker'.pc # "idle" => op'[Mine'].status # "NONE"
    BY <2>4, <2>8, MineIsOperation DEF Asked, Mine
  <2>11. \A p \in retrying' : op'[p].status # "NONE"
    BY <1>2, <2>4, <2>8 DEF Asked
  <2>12. QED
    BY <2>1, <2>4, <2>5, <2>7, <2>9, <2>10, <2>11 DEF Asked
<1>9. ASSUME NEW o \in Operations, RequestAgain(o) PROVE Asked'
  <2>1. op[o].status # "NONE" /\ adding' = adding \cup {Key(o)} /\ Key(o)[1] = o
        /\ UNCHANGED <<op, request, retrying, queue, worker>>
    BY <1>9 DEF RequestAgain, Key
  <2>2. QED
    BY <1>2, <1>3, <1>4, <1>5, <2>1, KeptAsked
<1>10. ASSUME NEW o \in Operations, RetryRead(o) PROVE Asked'
  <2>1. op[o].status # "NONE" /\ retrying' = retrying \cup {o}
        /\ UNCHANGED <<op, request, adding, queue, worker>>
    BY <1>10 DEF RetryRead
  <2>2. QED
    BY <1>2, <1>3, <1>4, <1>5, <2>1, KeptAsked
<1>11. ASSUME NEW o \in Operations, RetryStore(o) PROVE Asked'
  <2>1. op[o].status # "NONE"
    BY <1>11 DEF RetryStore, Asked
  <2>2. op' = [op EXCEPT ![o].status = "PENDING"] /\ retrying' = retrying \ {o}
        /\ adding' = adding \cup {Key(o)} /\ Key(o)[1] = o /\ UNCHANGED <<request, queue, worker>>
    BY <1>11 DEF RetryStore, Key
  <2>3. OpsKept
    BY <2>1, <2>2, StatusSet DEF Statuses
  <2>4. QED
    BY <1>2, <1>4, <1>5, <2>1, <2>2, <2>3, KeptAsked
<1>12. ASSUME NEW k \in adding, AddJob(k) PROVE Asked'
  <2>1. [key |-> k, state |-> "waiting", tries |-> 0].key = k
    OBVIOUS
  <2>2. \A j \in queue' : j \in queue \/ j.key = k
    BY <1>12, <2>1 DEF AddJob
  <2>3. UNCHANGED <<op, request, retrying, worker>> /\ adding' \subseteq adding
    BY <1>12 DEF AddJob
  <2>4. QED
    BY <2>2, <2>3 DEF Asked, Mine
<1>13. ASSUME NEW j \in queue, Evict(j) PROVE Asked'
  <2>1. UNCHANGED <<op, request, retrying, adding, worker>> /\ queue' \subseteq queue
    BY <1>13 DEF Evict
  <2>2. QED
    BY <2>1 DEF Asked, Mine
<1>14. CASE Work
  BY <1>2, <1>14, WorkKeeps, KeptAsked
<1>15. CASE ReconcileRead \/ ReconcileStore
  <2>1. UNCHANGED <<op, request, retrying, adding, queue, worker>>
    BY <1>15 DEF ReconcileRead, ReconcileStore
  <2>2. QED
    BY <1>2, <1>3, <1>4, <1>5, <2>1, KeptAsked
<1>16. CASE ApiCrash
  <2>1. UNCHANGED <<op, queue, worker>> /\ retrying' = {} /\ adding' = {}
        /\ \A o \in Operations : request'[o] = {}
    BY <1>16 DEF ApiCrash
  <2>2. QED
    BY <1>2, <1>3, <1>4, <1>5, <2>1, KeptAsked
<1>17. CASE WorkerCrash
  <2>1. UNCHANGED <<op, request, retrying, adding>> /\ worker'.pc = "idle"
    BY <1>17, IdleWorker DEF WorkerCrash
  <2>2. JobsKept /\ JobTaken
    BY <1>17, <2>1, CrashIsQueue DEF JobsKept, JobTaken
  <2>3. QED
    BY <1>2, <1>3, <2>1, <2>2, KeptAsked
<1>18. CASE UNCHANGED vars
  BY <1>2, <1>3, <1>4, <1>5, <1>18, KeptAsked DEF vars
<1>19. QED
  BY <1>6, <1>7, <1>8, <1>9, <1>10, <1>11, <1>12, <1>13, <1>14, <1>15, <1>16, <1>17, <1>18
  DEF Next
-----------------------------------------------------------------------------
(***************************************************************************)
(* Rows and files.                                                         *)
(***************************************************************************)
\* What the worker does to the rows and files: only to the attachment of its operation, which it
\* never makes active or forgets; a row is deleted, and an operation completed, by the commit.
LEMMA WorkChanges ==
  ASSUME Typed, Asked, Work
  PROVE  /\ \A a \in Attachments :
              \/ att'[a] = att[a]
              \/ /\ worker.pc # "idle" /\ a \in op[Mine].of
                 /\ \/ att[a] # "DELETED" /\ att'[a] = "DELETING"
                    \/ att'[a] = "DELETE_FAILED" /\ op'[Mine].status = "FAILED"
                    \/ att'[a] = "DELETED" /\ worker.pc = "commit"
         /\ file' = file \/ (worker.pc = "unlink" /\ file' = file \ op[Mine].of)
         /\ \A o \in Operations : op'[o].status = "COMPLETED" =>
              \/ op[o].status = "COMPLETED"
              \/ worker.pc = "commit" /\ o = Mine
         /\ worker'.pc \in {"read", "commit"} =>
              /\ worker.pc \in {"unlink", "read"} /\ worker'.key = worker.key
              /\ worker.pc = "unlink" => file' = file \ op[Mine].of
<1> USE DEF api, At
<1>1. worker.pc # "idle" => Mine \in Operations /\ op[Mine].status # "NONE"
  BY MineIsOperation DEF Asked
<1>2. att \in [Attachments -> Lifecycle]
  BY DEF Typed, TypeOK
<1>3. Finish(TRUE) \/ Finish(FALSE) => worker'.pc = "idle"
  BY IdleWorker DEF Finish
<1>4. ASSUME NEW j \in queue, Take(j)
      PROVE  worker'.pc = "load" /\ UNCHANGED <<att, file, op>>
  <2>1. [Idle EXCEPT !.pc = "load", !.key = j.key].pc = "load"
    BY DEF Idle
  <2>2. QED
    BY <1>4, <2>1 DEF Take
<1>5. CASE Load
  <2>1. [worker EXCEPT !.pc = "claim", !.seen = op[Mine].status].pc = "claim"
    BY DEF Typed, WorkerRecord
  <2>2. QED
    BY <1>3, <1>5, <2>1 DEF Load
<1>6. CASE Claim
  <2>1. \A o \in Operations : op'[o].status = "COMPLETED" => op[o].status = "COMPLETED"
    BY <1>1, <1>6, ClaimSet DEF Claim
  <2>2. worker'.pc \in {"idle", "mark"}
    BY <1>3, <1>6, GotoIsWorker DEF Claim
  <2>3. QED
    BY <1>6, <2>1, <2>2 DEF Claim
<1>7. CASE MarkDeleting
  <2>1. worker'.pc = "unlink"
    BY <1>7, GotoIsWorker DEF MarkDeleting
  <2>2. QED
    BY <1>2, <1>7, <2>1 DEF MarkDeleting
<1>8. CASE Unlink
  BY <1>8, GotoIsWorker DEF Unlink
<1>9. CASE ReadUsage
  <2>1. worker'.pc = "commit" /\ worker'.key = worker.key
    BY <1>9 DEF ReadUsage, Typed, WorkerRecord
  <2>2. QED
    BY <1>9, <2>1 DEF ReadUsage
<1>10. CASE Commit
  <2>1. \A o \in Operations : op'[o].status = "COMPLETED" => op[o].status = "COMPLETED" \/ o = Mine
    BY <1>1, <1>10, StatusSet DEF Commit, Statuses
  <2>2. worker'.pc \in {"idle", "catch"}
    BY <1>3, <1>10, GotoIsWorker DEF Commit
  <2>3. QED
    BY <1>2, <1>10, <2>1, <2>2 DEF Commit, Become
<1>11. CASE Throws
  BY <1>11, GotoIsWorker DEF Throws, Handler
<1>12. CASE Catch
  <2>1. op'[Mine].status = "FAILED"
        /\ \A o \in Operations : op'[o].status = "COMPLETED" => op[o].status = "COMPLETED"
    BY <1>1, <1>12, StatusSet DEF Catch, Statuses
  <2>2. QED
    BY <1>2, <1>3, <1>12, <2>1 DEF Catch, Become, FailedStatus
<1>13. CASE Uncaught
  BY <1>3, <1>13 DEF Uncaught
<1>14. QED
  BY <1>4, <1>5, <1>6, <1>7, <1>8, <1>9, <1>10, <1>11, <1>12, <1>13 DEF Work

RowInv == Uploads /\ Withdrawn

LEMMA InitRowInv == Init => RowInv
BY DEF Init, RowInv, Uploads, Withdrawn

\* A request's transaction, as the proofs use it.
LEMMA RequestStoreIs ==
  ASSUME Typed, Asked, NEW o \in Operations, RequestStore(o)
  PROVE  /\ op[o].status = "NONE" /\ op[o].of = {}
         /\ op'[o].status = "PENDING" /\ op'[o].of = request[o]
         /\ \A p \in Operations \ {o} : op'[p] = op[p]
         /\ request'[o] = {} /\ \A p \in Operations \ {o} : request'[p] = request[p]
         /\ \A a \in Attachments :
              att'[a] = IF a \in request[o] THEN "PENDING_DELETION" ELSE att[a]
         /\ UNCHANGED <<upload, file, used, reconciling, queue, worker, bounds>>
<1> DEFINE asked == request[o]
           r == [op[o] EXCEPT !.status = "PENDING", !.of = asked]
<1>1. op' = [op EXCEPT ![o] = r]
  BY OpIsRecord DEF RequestStore
<1>2. r.status = "PENDING" /\ r.of = asked
  <2> HIDE DEF asked
  <2>1. QED
    BY OpIsRecord DEF OpRecord
<1>3. op'[o].status = "PENDING" /\ op'[o].of = request[o]
      /\ \A p \in Operations \ {o} : op'[p] = op[p]
  <2> HIDE DEF r
  <2>1. op'[o] = r /\ \A p \in Operations \ {o} : op'[p] = op[p]
    BY <1>1, OpIsRecord
  <2>2. QED
    BY <1>2, <2>1
<1>4. request'[o] = {} /\ \A p \in Operations \ {o} : request'[p] = request[p]
  BY DEF RequestStore, Typed, TypeOK
<1>5. op[o].status = "NONE" /\ op[o].of = {}
  BY DEF RequestStore, Asked
<1>6. QED
  BY <1>3, <1>4, <1>5 DEF RequestStore

\* A retry's transaction: the operation is pending again, unless it was never requested.
LEMMA RetryStoreIs ==
  ASSUME Typed, Asked, NEW o \in Operations, RetryStore(o)
  PROVE  /\ OpsKept /\ op'[o].status = "PENDING" /\ \A p \in Operations : p # o => op'[p] = op[p]
         /\ \A a \in Attachments :
              att'[a] = IF a \in op[o].of /\ att[a] # "DELETED" THEN "PENDING_DELETION" ELSE att[a]
         /\ UNCHANGED <<upload, file, used, request, reconciling, queue, worker, bounds>>
<1>1. op[o].status # "NONE" /\ op' = [op EXCEPT ![o].status = "PENDING"]
  BY DEF RetryStore, Asked
<1>2. OpsKept /\ op'[o].status = "PENDING" /\ \A p \in Operations : p # o => op'[p] = op[p]
  BY <1>1, StatusSet DEF Statuses
<1>3. QED
  BY <1>2 DEF RetryStore

\* Steps that change neither rows, files, operations, nor the worker's place, nor how far an
\* upload is, except to end it.
LEMMA OtherSteps ==
  ASSUME Typed, [Next]_vars
  PROVE  \/ \E a \in Attachments : Upload(a)
         \/ \E o \in Operations, a \in Unwanted : RequestRead(o, a)
         \/ \E o \in Operations : RequestStore(o) \/ RetryStore(o)
         \/ Work
         \/ /\ UNCHANGED <<att, file, op>>
            /\ \A o \in Operations : request'[o] \in {request[o], {}}
            /\ worker' = worker \/ worker'.pc = "idle"
            /\ \A a \in Attachments : upload'[a] = upload[a] \/ (upload'[a] = "left" /\ upload[a] # "torn")
<1>1. CASE \E o \in Operations : RequestAgain(o) \/ RetryRead(o)
  BY <1>1 DEF RequestAgain, RetryRead
<1>2. CASE (\E k \in adding : AddJob(k)) \/ (\E j \in queue : Evict(j))
  BY <1>2 DEF AddJob, Evict, api
<1>3. CASE ReconcileRead \/ ReconcileStore
  BY <1>3 DEF ReconcileRead, ReconcileStore
<1>4. CASE ApiCrash
  BY <1>4 DEF ApiCrash, Typed, TypeOK
<1>5. CASE WorkerCrash
  BY <1>5, IdleWorker DEF WorkerCrash, api
<1>6. CASE UNCHANGED vars
  BY <1>6 DEF vars, api
<1>7. QED
  BY <1>1, <1>2, <1>3, <1>4, <1>5, <1>6 DEF Next

LEMMA StepIs ==
  ASSUME Typed, NEW a \in Attachments, NEW from, NEW to, Step(a, from, to)
  PROVE  upload[a] = from /\ upload'[a] = to
BY DEF Step, Typed, TypeOK

LEMMA NextRowInv == Typed /\ Asked /\ RowInv /\ [Next]_vars => RowInv'
<1> SUFFICES ASSUME Typed, Asked, RowInv, [Next]_vars PROVE RowInv'
  OBVIOUS
<1> USE DEF RowInv, Uploads, Withdrawn
<1>1. ASSUME NEW a \in Attachments, Upload(a) PROVE RowInv'
  <2>1. \A b \in Attachments \ {a} : upload'[b] = upload[b] /\ att'[b] = att[b]
                                     /\ (b \in file' <=> b \in file)
    BY <1>1 DEF Upload, UploadFile, UploadCheck, UploadStore, UploadFails, UploadUndo, Step,
                Typed, TypeOK
  <2>2. /\ upload'[a] \in {"none", "written", "checked", "refused"} => att'[a] = "NONE"
        /\ upload'[a] \in {"written", "checked"} => a \in file'
        /\ att'[a] = att[a] \/ (att[a] = "NONE" /\ att'[a] = "ACTIVE")
    <3>1. att \in [Attachments -> Lifecycle]
      BY DEF Typed, TypeOK
    <3>2. CASE UploadFile(a)
      BY <3>1, <3>2, StepIs DEF UploadFile
    <3>3. CASE UploadCheck(a)
      BY <3>1, <3>3, StepIs DEF UploadCheck
    <3>4. CASE UploadStore(a)
      BY <3>1, <3>4, StepIs DEF UploadStore
    <3>5. CASE UploadFails(a)
      BY <3>1, <3>5, StepIs DEF UploadFails
    <3>6. CASE UploadUndo(a)
      BY <3>1, <3>6, StepIs DEF UploadUndo
    <3>7. QED
      BY <1>1, <3>2, <3>3, <3>4, <3>5, <3>6 DEF Upload
  <2>3. UNCHANGED <<op, request>>
    BY <1>1 DEF Upload, UploadFile, UploadCheck, UploadStore, UploadFails, UploadUndo, api
  <2>4. \A o \in Operations : op[o].of \subseteq Attachments /\ request[o] \subseteq Attachments
    BY OpIsRecord DEF Typed, TypeOK
  <2>5. QED
    BY <2>1, <2>2, <2>3, <2>4
<1>2. ASSUME NEW o \in Operations, NEW a \in Unwanted, RequestRead(o, a) PROVE RowInv'
  BY <1>2 DEF RequestRead, Typed, TypeOK
<1>3. ASSUME NEW o \in Operations, RequestStore(o) PROVE RowInv'
  <2>1. \A p \in Operations : op[p].of \subseteq Attachments /\ request[p] \subseteq Attachments
    BY OpIsRecord DEF Typed, TypeOK
  <2>2. QED
    BY <1>3, <2>1, RequestStoreIs
<1>4. ASSUME NEW o \in Operations, RetryStore(o) PROVE RowInv'
  <2>1. \A p \in Operations : op[p].of \subseteq Attachments /\ request[p] \subseteq Attachments
    BY OpIsRecord DEF Typed, TypeOK
  <2>2. QED
    BY <1>4, <2>1, RetryStoreIs DEF OpsKept
<1>5. CASE Work
  <2>1. \A o \in Operations : op[o].of \subseteq Attachments /\ request[o] \subseteq Attachments
    BY OpIsRecord DEF Typed, TypeOK
  <2>2. worker.pc # "idle" => Mine \in Operations
    BY MineIsOperation
  <2>3. OpsKept /\ UNCHANGED <<upload, request>>
    BY <1>5, WorkKeeps DEF api
  <2>4. QED
    BY <1>5, <2>1, <2>2, <2>3, WorkChanges DEF OpsKept
<1>6. CASE /\ UNCHANGED <<att, file, op>>
           /\ \A o \in Operations : request'[o] \in {request[o], {}}
           /\ \A a \in Attachments : upload'[a] = upload[a] \/ upload'[a] = "left"
  BY <1>6
<1>7. QED
  BY <1>1, <1>2, <1>3, <1>4, <1>5, <1>6, OtherSteps
\* What is active has its file, but for an upload whose answer was lost.
LEMMA NextServed == Typed /\ Asked /\ RowInv /\ ServedHasFile /\ [Next]_vars => ServedHasFile'
<1> SUFFICES ASSUME Typed, Asked, RowInv, ServedHasFile, [Next]_vars PROVE ServedHasFile'
  OBVIOUS
<1>1. ASSUME NEW a \in Attachments, Upload(a) PROVE ServedHasFile'
  <2>1. \A b \in Attachments \ {a} : upload'[b] = upload[b] /\ att'[b] = att[b]
                                     /\ (b \in file' <=> b \in file)
    BY <1>1 DEF Upload, UploadFile, UploadCheck, UploadStore, UploadFails, UploadUndo, Step,
                Typed, TypeOK
  <2>2. att'[a] = "ACTIVE" => a \in file' \/ upload'[a] = "torn"
    <3>1. att \in [Attachments -> Lifecycle]
      BY DEF Typed, TypeOK
    <3>2. CASE UploadFile(a)
      BY <3>1, <3>2 DEF UploadFile
    <3>3. CASE UploadCheck(a)
      BY <3>1, <3>3, StepIs DEF UploadCheck, RowInv, Uploads
    <3>4. CASE UploadStore(a)
      BY <3>1, <3>4, StepIs DEF UploadStore, RowInv, Uploads
    <3>5. CASE UploadFails(a)
      BY <3>1, <3>5, StepIs DEF UploadFails, RowInv, Uploads
    <3>6. CASE UploadUndo(a)
      BY <3>1, <3>6, StepIs DEF UploadUndo, RowInv, Uploads, ServedHasFile
    <3>7. QED
      BY <1>1, <3>2, <3>3, <3>4, <3>5, <3>6 DEF Upload
  <2>3. QED
    BY <2>1, <2>2 DEF ServedHasFile
<1>2. ASSUME NEW o \in Operations, NEW a \in Unwanted, RequestRead(o, a) PROVE ServedHasFile'
  BY <1>2 DEF RequestRead, ServedHasFile
<1>3. ASSUME NEW o \in Operations, RequestStore(o) PROVE ServedHasFile'
  BY <1>3, RequestStoreIs DEF ServedHasFile
<1>4. ASSUME NEW o \in Operations, RetryStore(o) PROVE ServedHasFile'
  BY <1>4, RetryStoreIs DEF ServedHasFile
<1>5. CASE Work
  <2>1. worker.pc # "idle" => Mine \in Operations
    BY MineIsOperation
  <2>2. UNCHANGED upload
    BY <1>5, WorkKeeps DEF api
  <2>3. QED
    BY <1>5, <2>1, <2>2, WorkChanges DEF ServedHasFile, RowInv, Withdrawn
<1>6. QED
  BY <1>1, <1>2, <1>3, <1>4, <1>5, OtherSteps DEF ServedHasFile

\* What was deleted stays off the disk: the file of an attachment is written before anybody can
\* ask for its deletion, and the commit comes after the removal.
GoneInv == Removed /\ CompletedIsGone

LEMMA NextGone == Typed /\ Asked /\ RowInv /\ GoneInv /\ [Next]_vars => GoneInv'
<1> SUFFICES ASSUME Typed, Asked, RowInv, GoneInv, [Next]_vars PROVE GoneInv'
  OBVIOUS
<1> USE DEF GoneInv, Removed, CompletedIsGone
<1>1. worker.pc # "idle" => Mine \in Operations /\ op[Mine].status # "NONE"
  BY MineIsOperation DEF Asked
<1>2. \A o \in Operations : op[o].of \subseteq Attachments
  BY OpIsRecord
<1>3. ASSUME NEW a \in Attachments, Upload(a) PROVE GoneInv'
  <2>1. UNCHANGED <<op, worker>>
    BY <1>3 DEF Upload, UploadFile, UploadCheck, UploadStore, UploadFails, UploadUndo
  <2>2. \A b \in Attachments : att'[b] = "DELETED" => att[b] = "DELETED"
    BY <1>3 DEF Upload, UploadFile, UploadCheck, UploadStore, UploadFails, UploadUndo,
                Typed, TypeOK
  <2>3. file' \subseteq file \/ (file' = file \cup {a} /\ upload[a] = "none")
    BY <1>3 DEF Upload, UploadFile, UploadCheck, UploadStore, UploadFails, UploadUndo, Step
  <2>4. CASE file' \subseteq file
    BY <2>1, <2>2, <2>4 DEF Mine
  <2>5. CASE file' = file \cup {a} /\ upload[a] = "none"
    <3>1. att[a] = "NONE" /\ \A o \in Operations : a \notin op[o].of
      BY <2>5 DEF RowInv, Uploads, Withdrawn
    <3>2. QED
      BY <1>1, <2>1, <2>2, <2>5, <3>1 DEF Mine
  <2>6. QED
    BY <2>3, <2>4, <2>5
<1>4. ASSUME NEW o \in Operations, NEW a \in Unwanted, RequestRead(o, a) PROVE GoneInv'
  BY <1>4 DEF RequestRead, Mine
<1>5. ASSUME NEW o \in Operations, RequestStore(o) PROVE GoneInv'
  BY <1>1, <1>5, RequestStoreIs DEF Mine
<1>6. ASSUME NEW o \in Operations, RetryStore(o) PROVE GoneInv'
  BY <1>1, <1>6, RetryStoreIs DEF Mine, OpsKept
<1>7. CASE Work
  <2>1. OpsKept
    BY <1>7, WorkKeeps
  <2>2. file' \subseteq file
    BY <1>7, WorkChanges
  <2>3. Removed'
    <3>1. SUFFICES ASSUME worker'.pc \in {"read", "commit"} PROVE op'[Mine'].of \cap file' = {}
      OBVIOUS
    <3>2. worker.pc \in {"unlink", "read"} /\ Mine' = Mine
          /\ (worker.pc = "unlink" => file' = file \ op[Mine].of)
      BY <1>7, <3>1, WorkChanges DEF Mine
    <3>3. QED
      BY <1>1, <2>1, <2>2, <3>2 DEF OpsKept
  <2>4. \A o \in Operations : op'[o].status = "COMPLETED" => op'[o].of \cap file' = {}
    BY <1>7, <2>1, <2>2, WorkChanges DEF OpsKept
  <2>5. \A a \in Attachments : att'[a] = "DELETED" => a \notin file'
    BY <1>7, <2>2, WorkChanges
  <2>6. QED
    BY <2>3, <2>4, <2>5
<1>8. CASE UNCHANGED <<att, file, op>> /\ (worker' = worker \/ worker'.pc = "idle")
  BY <1>8 DEF Mine
<1>9. QED
  BY <1>3, <1>4, <1>5, <1>6, <1>7, <1>8, OtherSteps

\* Only the worker that has read the row and the counter commits, with what it found there.
LEMMA WorkCommits ==
  ASSUME Typed, Asked, Work, worker'.pc = "commit"
  PROVE  /\ worker.pc = "read" /\ worker'.key = worker.key /\ UNCHANGED <<op, att>>
         /\ worker'.gone <=> \E a \in op[Mine].of : att[a] = "DELETED"
<1> USE DEF At
<1>1. Finish(TRUE) \/ Finish(FALSE) => worker'.pc = "idle"
  BY IdleWorker DEF Finish
<1>2. \A j \in queue : ~Take(j)
  <2>1. \A j \in queue : [Idle EXCEPT !.pc = "load", !.key = j.key].pc = "load"
    BY DEF Idle
  <2>2. QED
    BY <2>1 DEF Take
<1>3. ~Load
  <2>1. [worker EXCEPT !.pc = "claim", !.seen = op[Mine].status].pc = "claim"
    BY DEF Typed, WorkerRecord
  <2>2. QED
    BY <1>1, <2>1 DEF Load
<1>4. /\ ~Claim /\ ~MarkDeleting /\ ~Unlink /\ ~Commit /\ ~Throws /\ ~Catch /\ ~Uncaught
  BY <1>1, GotoIsWorker DEF Claim, MarkDeleting, Unlink, Commit, Throws, Catch, Uncaught, Handler
<1>5. ReadUsage
  BY <1>2, <1>3, <1>4 DEF Work
<1> DEFINE found == \E a \in op[Mine].of : Done(att[a])
<1>6. worker' = [worker EXCEPT !.pc = "commit", !.used = used, !.gone = found]
  BY <1>5 DEF ReadUsage
<1>7. worker'.gone = found /\ worker'.key = worker.key
  <2> HIDE DEF found
  <2> QED
    BY <1>6 DEF Typed, WorkerRecord
<1>8. QED
  BY <1>5, <1>7 DEF ReadUsage, Done

\* Two deletions of one attachment, or a deletion and its retry, leave one of them open.
OpenInv == GoneStays /\ WithdrawnIsOpen

LEMMA NextOpen == Typed /\ Asked /\ RowInv /\ OpenInv /\ [Next]_vars => OpenInv'
<1> SUFFICES ASSUME Typed, Asked, RowInv, OpenInv, [Next]_vars PROVE OpenInv'
  OBVIOUS
<1> DEFINE Open(o, a) == a \in op[o].of /\ op[o].status # "COMPLETED"
<1> USE DEF OpenInv, GoneStays, WithdrawnIsOpen
<1>1. worker.pc # "idle" => Mine \in Operations /\ op[Mine].status # "NONE"
  BY MineIsOperation DEF Asked
<1>2. \A o \in Operations : op[o].of \subseteq Attachments
  BY OpIsRecord
<1>3. ASSUME NEW a \in Attachments, Upload(a) PROVE OpenInv'
  <2>1. UNCHANGED <<op, worker>>
    BY <1>3 DEF Upload, UploadFile, UploadCheck, UploadStore, UploadFails, UploadUndo
  <2>2. \A b \in Attachments : att'[b] = att[b] \/ (att[b] = "NONE" /\ att'[b] = "ACTIVE")
    <3>1. UploadStore(a) => att[a] = "NONE"
      BY StepIs DEF UploadStore, RowInv, Uploads
    <3>2. QED
      BY <1>3, <3>1 DEF Upload, UploadFile, UploadCheck, UploadStore, UploadFails, UploadUndo,
                Typed, TypeOK
  <2>3. QED
    BY <1>1, <1>2, <2>1, <2>2 DEF Mine, RowInv, Withdrawn
<1>4. ASSUME NEW o \in Operations, NEW a \in Unwanted, RequestRead(o, a) PROVE OpenInv'
  BY <1>4 DEF RequestRead, Mine
<1>5. ASSUME NEW o \in Operations, RequestStore(o) PROVE OpenInv'
  <2>1. WithdrawnIsOpen'
    <3>1. SUFFICES ASSUME NEW a \in Attachments,
                          att'[a] \in {"PENDING_DELETION", "DELETING", "DELETE_FAILED"}
                   PROVE  \E p \in Operations : a \in op'[p].of /\ op'[p].status # "COMPLETED"
      OBVIOUS
    <3>2. CASE a \in request[o]
      BY <1>5, <3>2, RequestStoreIs
    <3>3. CASE a \notin request[o]
      <4>1. att'[a] = att[a]
        BY <1>5, <3>3, RequestStoreIs
      <4>2. PICK p \in Operations : a \in op[p].of /\ op[p].status # "COMPLETED"
        BY <3>1, <4>1
      <4>3. p # o
        BY <1>5, <4>2, RequestStoreIs
      <4>4. op'[p] = op[p]
        BY <1>5, <4>3, RequestStoreIs
      <4>5. QED
        BY <4>2, <4>4
    <3>4. QED
      BY <3>2, <3>3
  <2>2. GoneStays'
    <3>1. SUFFICES ASSUME worker'.pc = "commit" /\ worker'.gone, NEW a \in op'[Mine'].of
                   PROVE  \/ att'[a] = "DELETED"
                          \/ \E p \in Operations \ {Mine'} :
                               a \in op'[p].of /\ op'[p].status # "COMPLETED"
      OBVIOUS
    <3>2. UNCHANGED worker /\ Mine' = Mine /\ Mine # o /\ op'[Mine] = op[Mine]
      BY <1>1, <1>5, <3>1, RequestStoreIs DEF Mine
    <3>3. a \in Attachments
      BY <1>1, <1>2, <3>1, <3>2
    <3>4. CASE a \in request[o]
      BY <1>5, <3>2, <3>4, RequestStoreIs
    <3>5. CASE a \notin request[o]
      <4>1. att'[a] = att[a]
        BY <1>5, <3>3, <3>5, RequestStoreIs
      <4>2. CASE \E p \in Operations \ {Mine} : a \in op[p].of /\ op[p].status # "COMPLETED"
        <5>1. PICK p \in Operations \ {Mine} : a \in op[p].of /\ op[p].status # "COMPLETED"
          BY <4>2
        <5>2. p # o
          BY <1>5, <5>1, RequestStoreIs
        <5>3. op'[p] = op[p]
          BY <1>5, <5>2, RequestStoreIs
        <5>4. QED
          BY <3>2, <5>1, <5>3
      <4>3. QED
        BY <3>1, <3>2, <4>1, <4>2
    <3>6. QED
      BY <3>4, <3>5
  <2>3. QED
    BY <2>1, <2>2
<1>6. ASSUME NEW o \in Operations, RetryStore(o) PROVE OpenInv'
  <2>1. /\ \A p \in Operations : /\ op'[p].of = op[p].of
                                 /\ op[p].status # "COMPLETED" => op'[p].status # "COMPLETED"
        /\ op'[o].status # "COMPLETED"
        /\ UNCHANGED worker /\ Mine' = Mine
    BY <1>6, RetryStoreIs DEF OpsKept, Mine
  <2>2. \A a \in Attachments : /\ att[a] = "DELETED" => att'[a] = "DELETED"
                               /\ att'[a] = att[a] \/ a \in op'[o].of
    BY <1>6, <2>1, RetryStoreIs
  <2>3. WithdrawnIsOpen'
    BY <2>1, <2>2
  <2>4. GoneStays'
    BY <1>1, <1>2, <2>1, <2>2
  <2>5. QED
    BY <2>3, <2>4
<1>7. CASE Work
  <2>1. OpsKept
    BY <1>7, WorkKeeps
  <2>2. GoneStays'
    <3>1. SUFFICES ASSUME worker'.pc = "commit", worker'.gone, NEW a \in op'[Mine'].of
                   PROVE  att'[a] = "DELETED"
      OBVIOUS
    <3>2. worker.pc = "read" /\ Mine' = Mine /\ UNCHANGED <<op, att>>
          /\ \E b \in op[Mine].of : att[b] = "DELETED"
      BY <1>7, <3>1, WorkCommits DEF Mine
    <3>3. \A b, c \in op[Mine].of : b = c
      BY <1>1, <3>2 DEF Asked
    <3>4. QED
      BY <3>1, <3>2, <3>3
  <2>3. ASSUME worker.pc # "commit"
        PROVE  WithdrawnIsOpen'
    <3>1. \A o \in Operations : op'[o].of = op[o].of
                                /\ (op[o].status # "COMPLETED" => op'[o].status # "COMPLETED")
      BY <1>7, <2>1, <2>3, WorkChanges DEF OpsKept
    <3>2. ASSUME NEW a \in Attachments,
                 att'[a] \in {"PENDING_DELETION", "DELETING", "DELETE_FAILED"}
          PROVE  \E o \in Operations : a \in op'[o].of /\ op'[o].status # "COMPLETED"
      <4>1. CASE att'[a] = att[a]
        BY <3>1, <3>2, <4>1
      <4>2. CASE worker.pc # "idle" /\ a \in op[Mine].of /\ att[a] # "DELETED"
        <5>1. att[a] \notin {"NONE", "ACTIVE"} /\ att[a] \in Lifecycle
          BY <1>1, <4>2 DEF RowInv, Withdrawn, Typed, TypeOK
        <5>2. QED
          BY <3>1, <4>2, <5>1 DEF Lifecycle
      <4>3. CASE worker.pc # "idle" /\ a \in op[Mine].of /\ op'[Mine].status = "FAILED"
        BY <1>1, <3>1, <4>3
      <4>4. QED
        BY <1>7, <2>3, <4>1, <4>2, <4>3, WorkChanges
    <3>3. QED
      BY <3>2
  <2>4. ASSUME worker.pc = "commit"
        PROVE  WithdrawnIsOpen'
    <3>1. \A o \in Operations : o # Mine => op'[o] = op[o]
      BY <1>7, <2>4, WorkKeeps
    <3>2. CASE UNCHANGED <<att, op>>
      BY <3>2
    <3>3. CASE Commit /\ worker.gone
      <4>1. UNCHANGED att
        BY <3>3 DEF Commit
      <4>2. QED
        BY <2>4, <3>1, <3>3, <4>1
    <3>4. CASE Commit /\ ~worker.gone
      <4>1. \A a \in Attachments : att'[a] = IF a \in op[Mine].of THEN "DELETED" ELSE att[a]
        BY <3>4 DEF Commit, Become
      <4>2. QED
        BY <3>1, <4>1
    <3>5. Commit \/ UNCHANGED <<att, op>>
      BY <1>7, <2>4 DEF Work, Take, Load, Claim, MarkDeleting, Unlink, ReadUsage, Throws, Catch,
                        Uncaught, At
    <3>6. QED
      BY <3>2, <3>3, <3>4, <3>5
  <2>5. QED
    BY <2>2, <2>3, <2>4
<1>8. CASE UNCHANGED <<att, op>> /\ (worker' = worker \/ worker'.pc = "idle")
  BY <1>8 DEF Mine
<1>9. QED
  BY <1>3, <1>4, <1>5, <1>6, <1>7, <1>8, OtherSteps
-----------------------------------------------------------------------------
(***************************************************************************)
(* The quota.                                                              *)
(***************************************************************************)
LEMMA InitCounted == Init => Counted
<1> SUFFICES ASSUME Init PROVE Counted
  OBVIOUS
<1>1. Active = {} /\ Checked = {}
  BY DEF Init, Active, Checked
<1>2. Cardinality(Active) = 0
  BY <1>1, FS_EmptySet
<1>3. QED
  BY <1>1, <1>2, MediaAssumption DEF Init, Counted

\* Steps that neither store nor check an upload, and reconcile nothing.
LEMMA QuietCounted ==
  ASSUME Counted, Untouched' => Untouched /\ UNCHANGED used,
         Untouched' => Active' = Active, Checked' \subseteq Checked,
         bounds'.reconciles = bounds.reconciles, reconciling' \in {reconciling, NoTotal}
  PROVE  Counted'
BY DEF Counted

LEMMA UploadCounted ==
  ASSUME Typed, RowInv, Counted, NEW a \in Attachments, Upload(a)
  PROVE  Counted'
<1>1. UNCHANGED <<op, reconciling>> /\ bounds'.reconciles = bounds.reconciles
  <2>1. Spend("faults") => bounds'.reconciles = bounds.reconciles
    BY SpendIsBounds
  <2>2. QED
    BY <2>1 DEF Upload, UploadFile, UploadCheck, UploadStore, UploadFails, UploadUndo, api
<1>2. Untouched' <=> Untouched
  BY <1>1 DEF Untouched
<1>3. Checked \subseteq Attachments /\ upload \in [Attachments -> {"none", "written", "checked",
                                "refused", "stored", "left", "unanswered", "torn"}]
  BY DEF Checked, Typed, TypeOK
<1>4. att \in [Attachments -> Lifecycle]
  BY DEF Typed, TypeOK
<1>5. ASSUME UNCHANGED <<att, used>>, Checked' \subseteq Checked
      PROVE  Counted'
  <2>1. Active' = Active
    BY <1>5 DEF Active
  <2>2. QED
    BY <1>1, <1>2, <1>5, <2>1, QuietCounted
<1>6. CASE UploadFile(a)
  <2>1. Checked' \subseteq Checked
    BY <1>3, <1>6 DEF UploadFile, Step, Checked
  <2>2. QED
    BY <1>5, <1>6, <2>1 DEF UploadFile
<1>7. CASE UploadCheck(a)
  <2>1. Checked = {} /\ Checked' \subseteq {a}
    BY <1>3, <1>7 DEF UploadCheck, LockFree, Step, Checked
  <2>2. UNCHANGED <<att, used>> /\ (used + 1 > Quota => Checked' = {})
    BY <1>3, <1>7 DEF UploadCheck, LockFree, Step, Checked
  <2>3. Active' = Active
    BY <2>2 DEF Active
  <2>4. used \in Nat /\ Quota \in Nat
    BY MediaAssumption DEF Typed, TypeOK
  <2>5. Untouched' => (Checked' # {} => used' + 1 <= Quota)
    BY <2>2, <2>4
  <2>6. QED
    BY <1>1, <1>2, <2>1, <2>2, <2>3, <2>5 DEF Counted
<1>8. CASE UploadStore(a)
  <2>1. upload[a] = "checked" /\ upload'[a] # "checked" /\ att[a] = "NONE"
        /\ \A b \in Attachments \ {a} : upload'[b] = upload[b]
    BY <1>3, <1>8, StepIs DEF UploadStore, Step, RowInv, Uploads
  <2>2. a \in Checked /\ Checked' = {}
    BY <2>1 DEF Checked, Counted
  <2>3. a \notin Active /\ Active' = Active \cup {a}
    BY <1>4, <1>8, <2>1 DEF UploadStore, Active
  <2>4. Cardinality(Active') = Cardinality(Active) + 1
    BY <2>3, ActiveIsCounted, FS_AddElement
  <2>5. used' = used + 1 /\ used \in Nat /\ Quota \in Nat
    BY <1>8, MediaAssumption DEF UploadStore, Typed, TypeOK
  <2>6. Untouched' => used' = Cardinality(Active') /\ used' <= Quota
    BY <1>2, <2>2, <2>4, <2>5 DEF Counted
  <2>7. QED
    BY <1>1, <2>2, <2>6 DEF Counted
<1>9. CASE UploadFails(a)
  <2>1. Checked' \subseteq Checked
    BY <1>3, <1>9 DEF UploadFails, Step, Checked
  <2>2. QED
    BY <1>5, <1>9, <2>1 DEF UploadFails
<1>10. CASE UploadUndo(a)
  <2>1. Checked' \subseteq Checked
    BY <1>3, <1>10 DEF UploadUndo, Step, Checked
  <2>2. QED
    BY <1>5, <1>10, <2>1 DEF UploadUndo
<1>11. QED
  BY <1>6, <1>7, <1>8, <1>9, <1>10 DEF Upload

\* Before the first request there are no jobs, so that the worker is idle.
LEMMA NoWork ==
  ASSUME Typed, Asked, Work
  PROVE  \E o \in Operations : op'[o].status # "NONE"
<1>1. CASE worker.pc # "idle"
  BY <1>1, WorkKeeps, MineIsOperation DEF Asked, OpsKept
<1>2. CASE worker.pc = "idle"
  <2>1. PICK j \in queue : Take(j)
    BY <1>2 DEF Work, Load, Claim, MarkDeleting, Unlink, ReadUsage, Commit, Throws, Catch,
                Uncaught, At
  <2>2. op[j.key[1]].status # "NONE" /\ j.key[1] \in Operations
    BY DEF Asked, Typed, TypeOK, JobKey
  <2>3. QED
    BY <2>2, WorkKeeps DEF OpsKept
<1>3. QED
  BY <1>1, <1>2

LEMMA NextCounted == Typed /\ Asked /\ RowInv /\ Counted /\ [Next]_vars => Counted'
<1> SUFFICES ASSUME Typed, Asked, RowInv, Counted, [Next]_vars PROVE Counted'
  OBVIOUS
<1>1. ASSUME NEW b \in {"retries", "crashes", "faults"}, Spend(b)
      PROVE  bounds'.reconciles = bounds.reconciles
  BY <1>1, SpendIsBounds
<1>2. ASSUME ~Untouched', UNCHANGED <<upload, reconciling>>,
             bounds'.reconciles = bounds.reconciles
      PROVE  Counted'
  BY <1>2, QuietCounted DEF Checked
<1>3. ASSUME UNCHANGED <<op, upload, att, used>>, bounds'.reconciles = bounds.reconciles,
             reconciling' \in {reconciling, NoTotal}
      PROVE  Counted'
  BY <1>3, QuietCounted DEF Checked, Active, Untouched
<1>4. ASSUME NEW a \in Attachments, Upload(a) PROVE Counted'
  BY <1>4, UploadCounted
<1>5. ASSUME NEW o \in Operations, NEW a \in Unwanted, RequestRead(o, a) PROVE Counted'
  BY <1>3, <1>5 DEF RequestRead
<1>6. ASSUME NEW o \in Operations, RequestStore(o) PROVE Counted'
  <2>1. ~Untouched'
    BY <1>6, RequestStoreIs DEF Untouched
  <2>2. QED
    BY <1>2, <1>6, <2>1, RequestStoreIs
<1>7. ASSUME NEW o \in Operations, RetryStore(o) PROVE Counted'
  <2>1. ~Untouched'
    BY <1>7, RetryStoreIs DEF Untouched
  <2>2. QED
    BY <1>2, <1>7, <2>1, RetryStoreIs
<1>8. ASSUME NEW o \in Operations, RequestAgain(o) \/ RetryRead(o) PROVE Counted'
  BY <1>1, <1>3, <1>8 DEF RequestAgain, RetryRead
<1>9. CASE (\E k \in adding : AddJob(k)) \/ (\E j \in queue : Evict(j))
  BY <1>3, <1>9 DEF AddJob, Evict, api
<1>10. CASE Work
  <2>1. ~Untouched'
    BY <1>10, NoWork DEF Untouched
  <2>2. UNCHANGED <<upload, reconciling>>
    BY <1>10, WorkKeeps DEF api
  <2>3. bounds'.reconciles = bounds.reconciles
    BY <1>1, <1>10 DEF Work, Take, Load, Claim, MarkDeleting, Unlink, ReadUsage, Commit, Throws,
                       Catch, Uncaught
  <2>4. QED
    BY <1>2, <2>1, <2>2, <2>3
<1>11. CASE ReconcileRead
  <2>1. bounds'.reconciles = bounds.reconciles - 1 /\ bounds.reconciles > 0
    BY <1>11, SpendIsBounds DEF ReconcileRead
  <2>2. bounds'.reconciles \in 0..MaxReconciles /\ bounds'.reconciles < MaxReconciles
    BY <2>1, MediaAssumption DEF Counted
  <2>3. ~Untouched' /\ Checked' = Checked
    BY <1>11, <2>2 DEF Untouched, Checked, ReconcileRead
  <2>4. QED
    BY <2>2, <2>3 DEF Counted
<1>12. CASE ReconcileStore
  <2>1. ~Untouched' /\ Checked' = Checked /\ UNCHANGED bounds /\ reconciling' = NoTotal
    BY <1>12, MediaAssumption DEF ReconcileStore, Counted, Untouched, Checked
  <2>2. QED
    BY <2>1 DEF Counted
<1>13. CASE ApiCrash
  <2>1. Checked' \subseteq Checked
    BY <1>13 DEF ApiCrash, Checked
  <2>2. bounds'.reconciles = bounds.reconciles /\ reconciling' = NoTotal
        /\ UNCHANGED <<op, att, used>>
    BY <1>1, <1>13 DEF ApiCrash
  <2>3. QED
    BY <2>1, <2>2, QuietCounted DEF Active, Untouched
<1>14. CASE WorkerCrash
  BY <1>1, <1>3, <1>14 DEF WorkerCrash, api
<1>15. CASE UNCHANGED vars
  BY <1>3, <1>15 DEF vars, api
<1>16. QED
  BY <1>4, <1>5, <1>6, <1>7, <1>8, <1>9, <1>10, <1>11, <1>12, <1>13, <1>14, <1>15 DEF Next

-----------------------------------------------------------------------------
(***************************************************************************)
(* The theorems.                                                           *)
(***************************************************************************)
MediaInv == Typed /\ Asked /\ RowInv /\ ServedHasFile /\ GoneInv /\ OpenInv /\ Counted

LEMMA InitMediaInv == Init => MediaInv
<1> SUFFICES ASSUME Init PROVE MediaInv
  OBVIOUS
<1>1. ServedHasFile /\ GoneInv /\ OpenInv
  BY IdleWorker DEF Init, ServedHasFile, GoneInv, Removed, CompletedIsGone, OpenInv, GoneStays,
                    WithdrawnIsOpen
<1>2. QED
  BY <1>1, InitTyped, InitAsked, InitRowInv, InitCounted DEF MediaInv

LEMMA MediaInvAlways == Spec => []MediaInv
<1>1. MediaInv /\ [Next]_vars => MediaInv'
  BY NextTyped, NextAsked, NextRowInv, NextServed, NextGone, NextOpen, NextCounted DEF MediaInv
<1>2. QED
  BY <1>1, InitMediaInv, PTL DEF Spec

\* What downloadAttachment serves is on the disk: neither a failing upload or deletion nor a
\* retry leaves an active row without its file, whatever else runs at the same time.
THEOREM ServedAlways == Spec => []ServedHasFile
<1>1. MediaInv => ServedHasFile
  BY DEF MediaInv
<1>2. QED
  BY <1>1, MediaInvAlways, PTL

\* A deletion is reported only when its file is gone, and the file does not come back.
THEOREM CompletedForGood == Spec => []CompletedIsGone
<1>1. MediaInv => CompletedIsGone
  BY DEF MediaInv, GoneInv
<1>2. QED
  BY <1>1, MediaInvAlways, PTL

\* Deletions and retries of one attachment in any number and order do not strand it: while it
\* is withdrawn and not deleted, one of them can be retried.
THEOREM NeverStranded == Spec => []WithdrawnIsOpen
<1>1. MediaInv => WithdrawnIsOpen
  BY DEF MediaInv, OpenInv
<1>2. QED
  BY <1>1, MediaInvAlways, PTL

\* Concurrent uploads stay within the quota as long as nothing was deleted or reconciled: the
\* counter is exact then, and the storage lock keeps a second upload from the same room.
THEOREM QuotaHolds == Spec => []UploadsFit
<1>1. MediaInv => UploadsFit
  BY DEF MediaInv, Counted, UploadsFit, Untouched
<1>2. QED
  BY <1>1, MediaInvAlways, PTL
=============================================================================
