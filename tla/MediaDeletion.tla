--------------------------- MODULE MediaDeletion ---------------------------
(***************************************************************************)
(* Encrypted chat media from upload to deletion. Members upload files that *)
(* count against a quota; an administrator requests the deletion of one,   *)
(* retries it and reconciles the usage counter; the worker's jobs remove   *)
(* the file and then change the record. A transaction is one step, except  *)
(* where it writes what an earlier read made of unlocked rows.             *)
(***************************************************************************)
EXTENDS Integers, FiniteSets

CONSTANTS
  Attachments,  \* the files members may upload, each of size one
  Unwanted,     \* bound: those somebody may ask to delete
  Operations,   \* deletion requests; an operation's id stands for its idempotency key too
  Quota,        \* chatMediaQuotaBytes
  MaxTries,     \* the queue's attempts per job (5 in the code)
  MaxRetries,   \* bound: retries by an administrator and repeated requests
  MaxReconciles,\* bound: reconciliations
  MaxCrashes,   \* bound: crashes of the API or of the worker
  MaxFaults     \* bound: failing statements and file removals

ASSUME MediaAssumption ==
  /\ IsFiniteSet(Attachments) /\ Unwanted \subseteq Attachments
  /\ Quota \in Nat /\ MaxTries \in Nat \ {0}
  /\ MaxRetries \in Nat /\ MaxReconciles \in Nat /\ MaxCrashes \in Nat /\ MaxFaults \in Nat

VARIABLES
  upload,       \* how far the upload of each attachment is
  att,          \* lifecycleStatus of each attachment's row
  file,         \* the attachments whose file is in the upload directory
  used,         \* the community's usage counter
  op,           \* the deletion operations
  request,      \* requestMediaDeletion: the attachment a request has read
  retrying,     \* retryMediaDeletion: operations read, and not yet stored as pending
  adding,       \* jobs the API has still to put on the queue
  queue,        \* the jobs, keyed by operation and number of attempts
  worker,       \* what the worker is doing
  reconciling,  \* reconcileStorage: the total it has read
  lost,         \* operations that may be pending without a job that ends them
  bounds        \* what is left of the bounds

api == <<request, retrying, adding, reconciling>>
vars == <<upload, att, file, used, op, request, retrying, adding, queue, worker, reconciling,
          lost, bounds>>

Lifecycle == {"NONE", "ACTIVE", "PENDING_DELETION", "DELETING", "DELETED", "DELETE_FAILED"}
Statuses == {"NONE", "PENDING", "PROCESSING", "COMPLETED", "FAILED"}
NoTotal == -1
Idle == [pc |-> "idle", key |-> <<>>, seen |-> "NONE", used |-> 0, gone |-> FALSE]

Init ==
  /\ upload = [a \in Attachments |-> "none"] /\ att = [a \in Attachments |-> "NONE"]
  /\ file = {} /\ used = 0
  /\ op = [o \in Operations |-> [status |-> "NONE", of |-> {}, attempts |-> 0]]
  /\ request = [o \in Operations |-> {}] /\ retrying = {} /\ adding = {} /\ queue = {}
  /\ worker = Idle /\ reconciling = NoTotal /\ lost = {}
  /\ bounds = [retries |-> MaxRetries, reconciles |-> MaxReconciles,
               crashes |-> MaxCrashes, faults |-> MaxFaults]

Spend(b) == bounds[b] > 0 /\ bounds' = [bounds EXCEPT ![b] = @ - 1]

-----------------------------------------------------------------------------
(***************************************************************************)
(* uploadAttachment: the file first, then the row, under the storage lock. *)
(***************************************************************************)
Step(a, from, to) == upload[a] = from /\ upload' = [upload EXCEPT ![a] = to]

UploadFile(a) ==
  /\ Step(a, "none", "written") /\ file' = file \cup {a}
  /\ UNCHANGED <<att, used, op, api, queue, worker, lost, bounds>>

\* Mutant: uploads that do not wait for each other.
LockIgnored == TRUE
LockFree == \A b \in Attachments : upload[b] # "checked"
UploadCheck(a) ==
  /\ LockFree /\ Step(a, "written", IF used + 1 > Quota THEN "refused" ELSE "checked")
  /\ UNCHANGED <<att, file, used, op, api, queue, worker, lost, bounds>>

\* The transaction commits, and its answer arrives or is lost.
UploadStore(a) ==
  /\ \/ Step(a, "checked", "stored") /\ UNCHANGED bounds
     \/ Step(a, "checked", "unanswered") /\ Spend("faults")
  /\ att' = [att EXCEPT ![a] = "ACTIVE"] /\ used' = used + 1
  /\ UNCHANGED <<file, op, api, queue, worker, lost>>

UploadFails(a) ==
  /\ \E from \in {"written", "checked"} : Step(a, from, "refused")
  /\ Spend("faults")
  /\ UNCHANGED <<att, file, used, op, api, queue, worker, lost>>

\* The file is removed again, or it stays: an error here is ignored.
UploadUndo(a) ==
  /\ \/ Step(a, "refused", "none") /\ file' = file \ {a} /\ UNCHANGED bounds
     \/ Step(a, "unanswered", "torn") /\ file' = file \ {a} /\ UNCHANGED bounds
     \/ \E from \in {"refused", "unanswered"} : Step(a, from, "left")
        /\ Spend("faults") /\ UNCHANGED file
  /\ UNCHANGED <<att, used, op, api, queue, worker, lost>>

Upload(a) ==
  UploadFile(a) \/ UploadCheck(a) \/ UploadStore(a) \/ UploadFails(a) \/ UploadUndo(a)

-----------------------------------------------------------------------------
(***************************************************************************)
(* requestMediaDeletion, retryMediaDeletion. A job is put on the queue     *)
(* after the transaction, under a key the queue takes only once.           *)
(***************************************************************************)
RequestRead(o, a) ==
  /\ op[o].status = "NONE" /\ request[o] = {} /\ att[a] \notin {"NONE", "DELETED"}
  /\ request' = [request EXCEPT ![o] = {a}]
  /\ UNCHANGED <<upload, att, file, used, op, retrying, adding, queue, worker, reconciling,
                 lost, bounds>>

RequestStore(o) ==
  /\ request[o] # {} /\ request' = [request EXCEPT ![o] = {}]
  /\ op' = [op EXCEPT ![o] = [@ EXCEPT !.status = "PENDING", !.of = request[o]]]
  /\ att' = [a \in Attachments |-> IF a \in request[o] THEN "PENDING_DELETION" ELSE att[a]]
  /\ adding' = adding \cup {<<o, 0>>}
  /\ UNCHANGED <<upload, file, used, retrying, queue, worker, reconciling, lost, bounds>>

\* Mutant: the same job key for every retry.
KeyFixed(o) == <<o, 0>>
Key(o) == <<o, op[o].attempts>>

\* The same idempotency key again: only the job is added once more.
RequestAgain(o) ==
  /\ op[o].status \in {"PENDING", "FAILED"} /\ Spend("retries")
  /\ adding' = adding \cup {Key(o)}
  /\ UNCHANGED <<upload, att, file, used, op, request, retrying, queue, worker, reconciling,
                 lost>>

RetryRead(o) ==
  /\ op[o].status \notin {"NONE", "COMPLETED", "PROCESSING"} /\ o \notin retrying
  /\ Spend("retries") /\ retrying' = retrying \cup {o}
  /\ UNCHANGED <<upload, att, file, used, op, request, adding, queue, worker, reconciling,
                 lost>>

RetryStore(o) ==
  /\ o \in retrying /\ retrying' = retrying \ {o}
  /\ op' = [op EXCEPT ![o].status = "PENDING"]
  /\ att' = [a \in Attachments |->
       IF a \in op[o].of /\ att[a] # "DELETED" THEN "PENDING_DELETION" ELSE att[a]]
  /\ adding' = adding \cup {Key(o)}
  /\ lost' = IF op[o].status = "COMPLETED" THEN lost \cup {o}
             ELSE IF \E j \in queue : j.key = Key(o) THEN lost ELSE lost \ {o}
  /\ UNCHANGED <<upload, file, used, request, queue, worker, reconciling, bounds>>

AddJob(k) ==
  /\ k \in adding /\ adding' = adding \ {k}
  /\ queue' = IF \E j \in queue : j.key = k THEN queue
              ELSE queue \cup {[key |-> k, state |-> "waiting", tries |-> 0]}
  /\ UNCHANGED <<upload, att, file, used, op, request, retrying, worker, reconciling, lost,
                 bounds>>

\* The queue forgets an ended job when enough others have ended after it.
Evict(j) ==
  /\ j \in queue /\ j.state = "ended" /\ queue' = queue \ {j}
  /\ UNCHANGED <<upload, att, file, used, op, api, worker, lost, bounds>>

-----------------------------------------------------------------------------
(***************************************************************************)
(* deleteEncryptedChatMedia, run by the worker for one job at a time.      *)
(***************************************************************************)
At(step) == worker.pc = step
Goto(step) == worker' = [worker EXCEPT !.pc = step]
Mine == worker.key[1]
Finish(ok) ==
  /\ worker' = Idle
  /\ queue' = {IF j.key # worker.key THEN j
               ELSE IF ok \/ j.tries + 1 >= MaxTries THEN [j EXCEPT !.state = "ended"]
               ELSE [j EXCEPT !.state = "waiting", !.tries = @ + 1] : j \in queue}

Take(j) ==
  /\ At("idle") /\ j \in queue /\ j.state = "waiting"
  /\ queue' = (queue \ {j}) \cup {[j EXCEPT !.state = "active"]}
  /\ worker' = [Idle EXCEPT !.pc = "load", !.key = j.key]
  /\ UNCHANGED <<upload, att, file, used, op, api, lost, bounds>>

Load ==
  /\ At("load")
  /\ IF op[Mine].status = "COMPLETED" THEN Finish(TRUE)
     ELSE worker' = [worker EXCEPT !.pc = "claim", !.seen = op[Mine].status] /\ UNCHANGED queue
  /\ UNCHANGED <<upload, att, file, used, op, api, lost, bounds>>

Claimable(status) == status \in {"PENDING", "FAILED"}
Claim ==
  /\ At("claim")
  /\ IF Claimable(op[Mine].status)
     THEN /\ op' = [op EXCEPT ![Mine].status = "PROCESSING", ![Mine].attempts = @ + 1]
          /\ Goto("mark") /\ UNCHANGED queue
     ELSE /\ UNCHANGED op
          /\ IF worker.seen = "PROCESSING" THEN Finish(TRUE)
             ELSE Goto("mark") /\ UNCHANGED queue
  /\ UNCHANGED <<upload, att, file, used, api, lost, bounds>>

Become(status) ==
  att' = [a \in Attachments |-> IF a \in op[Mine].of THEN status ELSE att[a]]

MarkDeleting ==
  /\ At("mark") /\ Goto("unlink")
  /\ att' = [a \in Attachments |->
       IF a \in op[Mine].of /\ att[a] # "DELETED" THEN "DELETING" ELSE att[a]]
  /\ UNCHANGED <<upload, file, used, op, api, queue, lost, bounds>>

\* A missing file is as good as a removed one; any other error is caught.
Unlink ==
  /\ At("unlink") /\ Goto("read") /\ file' = file \ op[Mine].of
  /\ UNCHANGED <<upload, att, used, op, api, queue, lost, bounds>>

\* Mutant: only rows still marked as being deleted are.
DoneUnlessDeleting(status) == status # "DELETING"
Done(status) == status = "DELETED"

\* The transaction reads the row and the counter, and writes them back.
ReadUsage ==
  /\ At("read")
  /\ worker' = [worker EXCEPT !.pc = "commit", !.used = used,
                 !.gone = \E a \in op[Mine].of : Done(att[a])]
  /\ UNCHANGED <<upload, att, file, used, op, api, queue, lost, bounds>>

Lowered(total) == IF total > 0 THEN total - 1 ELSE 0
Commit ==
  /\ At("commit") /\ op' = [op EXCEPT ![Mine].status = "COMPLETED"]
  /\ \/ Finish(TRUE) /\ UNCHANGED bounds
     \/ Goto("catch") /\ Spend("faults") /\ UNCHANGED queue
  /\ IF worker.gone THEN UNCHANGED <<att, used>>
     ELSE Become("DELETED") /\ used' = Lowered(worker.used)
  /\ UNCHANGED <<upload, file, api, lost>>

\* Mutant: errors of the file removal are ignored, like a missing file.
HandlerLenient(step) == IF step = "unlink" THEN "read" ELSE "catch"
Handler(step) == "catch"
Throws ==
  /\ worker.pc \in {"unlink", "read", "commit"} /\ Goto(Handler(worker.pc)) /\ Spend("faults")
  /\ UNCHANGED <<upload, att, file, used, op, api, queue, lost>>

\* Mutant: a failed deletion makes the attachment available again.
FailedActive == "ACTIVE"
FailedStatus == "DELETE_FAILED"
Catch ==
  /\ At("catch") /\ op' = [op EXCEPT ![Mine].status = "FAILED"] /\ Become(FailedStatus)
  /\ Finish(FALSE)
  /\ UNCHANGED <<upload, file, used, api, lost, bounds>>

\* An error outside the try block goes to the queue, and what was claimed stays claimed.
Exhausted ==
  IF \E j \in queue : j.key = worker.key /\ j.tries + 1 >= MaxTries THEN {Mine} ELSE {}
Uncaught ==
  /\ worker.pc \in {"load", "claim", "mark", "catch"} /\ Finish(FALSE) /\ Spend("faults")
  /\ lost' = IF worker.pc \in {"load", "claim"} THEN lost \cup Exhausted ELSE lost
  /\ UNCHANGED <<upload, att, file, used, op, api>>

Work ==
  \/ \E j \in queue : Take(j)
  \/ Load \/ Claim \/ MarkDeleting \/ Unlink \/ ReadUsage \/ Commit
  \/ Throws \/ Catch \/ Uncaught

-----------------------------------------------------------------------------
(***************************************************************************)
(* reconcileStorage counts the active attachments, then stores the total.  *)
(***************************************************************************)
ReconcileRead ==
  /\ reconciling = NoTotal /\ Spend("reconciles")
  /\ reconciling' = Cardinality({a \in Attachments : att[a] = "ACTIVE"})
  /\ UNCHANGED <<upload, att, file, used, op, request, retrying, adding, queue, worker, lost>>

ReconcileStore ==
  /\ reconciling # NoTotal /\ used' = reconciling /\ reconciling' = NoTotal
  /\ UNCHANGED <<upload, att, file, op, request, retrying, adding, queue, worker, lost, bounds>>

-----------------------------------------------------------------------------
\* A process dies. A transaction under way is rolled back, a file stays, a stalled job is
\* run again.
ApiCrash ==
  /\ Spend("crashes") /\ request' = [o \in Operations |-> {}] /\ retrying' = {} /\ adding' = {}
  /\ reconciling' = NoTotal /\ lost' = lost \cup {k[1] : k \in adding}
  /\ upload' = [a \in Attachments |->
       IF upload[a] \in {"written", "checked", "refused", "unanswered"} THEN "left" ELSE upload[a]]
  /\ UNCHANGED <<att, file, used, op, queue, worker>>

WorkerCrash ==
  /\ ~At("idle") /\ Spend("crashes") /\ worker' = Idle
  /\ queue' = {IF j.key = worker.key THEN [j EXCEPT !.state = "waiting"] ELSE j : j \in queue}
  /\ UNCHANGED <<upload, att, file, used, op, api, lost>>

Next ==
  \/ \E a \in Attachments : Upload(a)
  \/ \E o \in Operations, a \in Unwanted : RequestRead(o, a)
  \/ \E o \in Operations : RequestStore(o) \/ RequestAgain(o) \/ RetryRead(o) \/ RetryStore(o)
  \/ \E k \in adding : AddJob(k)
  \/ \E j \in queue : Evict(j)
  \/ Work
  \/ ReconcileRead \/ ReconcileStore
  \/ ApiCrash \/ WorkerCrash

\* A request under way runs on, and the queue hands out its jobs.
Fairness ==
  /\ WF_vars(Work)
  /\ WF_vars(\E k \in adding : AddJob(k))
  /\ WF_vars(\E o \in Operations : RequestStore(o) \/ RetryStore(o))

Spec == Init /\ [][Next]_vars
FairSpec == Spec /\ Fairness

-----------------------------------------------------------------------------
(***************************************************************************)
(* What the deletion of media promises.                                    *)
(***************************************************************************)
JobKey == Operations \X Nat
TypeOK ==
  /\ upload \in [Attachments -> {"none", "written", "checked", "refused", "stored", "left",
                              "unanswered", "torn"}]
  /\ att \in [Attachments -> Lifecycle] /\ file \subseteq Attachments /\ used \in Nat
  /\ op \in [Operations -> [status: Statuses, of: SUBSET Attachments, attempts: Nat]]
  /\ request \in [Operations -> SUBSET Attachments] /\ retrying \subseteq Operations
  /\ adding \subseteq JobKey
  /\ queue \subseteq [key: JobKey, tries: 0..(MaxTries - 1),
                        state: {"waiting", "active", "ended"}]
  /\ worker.pc \in {"idle", "load", "claim", "mark", "unlink", "read", "commit", "catch"}
  /\ worker.key \in JobKey \cup {<<>>} /\ worker.used \in Nat /\ worker.gone \in BOOLEAN
  /\ reconciling \in Nat \cup {NoTotal} /\ lost \subseteq Operations

\* What downloadAttachment and openAttachment serve is in the upload directory: an upload
\* that fails, and a deletion that fails or is retried, never leaves an active row without it.
\* But for one case: an upload that was stored and whose answer was lost is taken for one that
\* failed, and its file is removed.
ServedHasFile == \A a \in Attachments : att[a] = "ACTIVE" => a \in file \/ upload[a] = "torn"

\* A deletion reported as completed, and an attachment shown as deleted, has left the disk,
\* through failing removals, retries and requests for the same attachment.
CompletedIsGone ==
  /\ \A o \in Operations : op[o].status = "COMPLETED" => op[o].of \cap file = {}
  /\ \A a \in Attachments : att[a] = "DELETED" => a \notin file

\* An attachment withdrawn and not yet deleted has a deletion that is not completed, so that
\* it cannot be stranded by two deletions, or a deletion and its retry, at once.
WithdrawnIsOpen ==
  \A a \in Attachments : att[a] \in {"PENDING_DELETION", "DELETING", "DELETE_FAILED"} =>
    \E o \in Operations : a \in op[o].of /\ op[o].status # "COMPLETED"

\* "Chat media quota": members upload no more than the quota, whatever they do at once.
\* For as long as nothing was deleted and the counter never reconciled: reconcileStorage counts
\* the rows before its transaction and without the storage lock, and so erases an upload that
\* commits in between; a deletion of an attachment it left out is subtracted a second time.
Active == {a \in Attachments : att[a] = "ACTIVE"}
UploadsFit ==
  (\A o \in Operations : op[o].status = "NONE") /\ bounds.reconciles = MaxReconciles
    => Cardinality(Active) <= Quota

\* A requested or retried deletion is carried out or reported as failed. Beyond it are one
\* that a worker claimed and could not report on (a later job finds it PROCESSING and leaves
\* it), one whose job an API crash kept from the queue, one whose job ran out of tries before
\* it claimed it, and one that a retry decided on earlier reopens after its completion: the
\* queue may still hold an ended job of their key, and then takes no other.
Orphaned(o) ==
  op[o].status = "PROCESSING" /\ (At("idle") \/ Mine # o \/ worker.seen = "PROCESSING")
DeletionsEnd ==
  \A o \in Operations : op[o].status \in {"PENDING", "PROCESSING"} ~>
    (op[o].status \in {"COMPLETED", "FAILED"} \/ Orphaned(o) \/ o \in lost)
=============================================================================
