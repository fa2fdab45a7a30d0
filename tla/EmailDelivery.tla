--------------------------- MODULE EmailDelivery ---------------------------
(***************************************************************************)
(* Delivery of one email campaign. The API stores the campaign and its     *)
(* recipients, and only then puts a job on the queue for each of them; the  *)
(* worker's jobs claim a recipient, hand the mail to SMTP and record what   *)
(* came of it; once a minute the worker looks for recipients whose job got *)
(* lost; meanwhile an administrator retries the failed recipients or       *)
(* cancels the campaign. Every step below is one statement the database,   *)
(* the queue or the mail server executes, so all of these interleave.      *)
(***************************************************************************)
EXTENDS Integers, FiniteSets, TLC

CONSTANTS
  Recipients,   \* the recipients of the campaign
  Extras,       \* bound: jobs without an id of their own, one per retried recipient
  Workers,      \* job processors (one worker process with concurrency 1 in production)
  MaxTries,     \* the queue's attempts per job (3 in the code)
  MaxRows,      \* delivery rows after which recovery gives up (3 in the code)
  Batch,        \* recipients one recovery looks at (100 in the code)
  MaxCrashes,   \* bound: crashes of the API or of the worker
  MaxFaults     \* bound: failing statements and lost SMTP answers

ASSUME EmailAssumption ==
  /\ Recipients \subseteq Nat /\ IsFiniteSet(Recipients)
  /\ Recipients \cap Extras = {}
  /\ MaxTries \in Nat \ {0} /\ MaxRows \in Nat \ {0} /\ Batch \in Nat \ {0}
  /\ MaxCrashes \in Nat /\ MaxFaults \in Nat

VARIABLES
  campaign,    \* the campaign's status
  rcpt,        \* each recipient's status
  rows,        \* delivery attempts recorded for each recipient
  job,         \* the queue: job r is the one keyed by recipient r
  worker,      \* what each worker is doing
  enqueueing,  \* recipients for which queueCampaign has still to add a job
  outbox,      \* recipients for which the recovery under way has still to add a job
  retrying,    \* retryFailedRecipients: how far it is, and for whom
  cancelling,  \* cancelCampaign: what it has read
  delivered,   \* mails the SMTP server accepted for each recipient
  doubts,      \* those of them that the record does not know of
  cut,         \* recipients whose retry was stored and never put on the queue
  crashes,
  faults

api == <<enqueueing, retrying, cancelling>>
ghosts == <<delivered, doubts, cut>>
mishaps == <<crashes, faults>>
vars == <<campaign, rcpt, rows, job, worker, enqueueing, outbox, retrying, cancelling,
          delivered, doubts, cut, crashes, faults>>

Jobs == Recipients \cup Extras
CampaignStatus == {"NONE", "QUEUED", "SENDING", "SENT", "PARTIAL", "FAILED", "CANCELED"}
RecipientStatus == {"NONE", "QUEUED", "SENDING", "SENT", "FAILED", "CANCELED"}
Settled == {"SENT", "FAILED", "CANCELED"}

(***************************************************************************)
(* The queue. A job is waiting, active, or kept after its end: while it is *)
(* there, adding a job with the same id does nothing. A job whose worker   *)
(* died has stalled: the queue runs it once more, and no more than once.   *)
(***************************************************************************)
Absent == [to |-> 0, state |-> "absent", tries |-> 0, stalled |-> FALSE]
Job(r) == [Absent EXCEPT !.to = r, !.state = "waiting"]
Waiting(j) == job[j].state = "waiting"
AddKeyed(r) == job' = IF job[r] = Absent THEN [job EXCEPT ![r] = Job(r)] ELSE job
Over(j) == [job[j] EXCEPT !.state = "ended", !.tries = 0, !.stalled = FALSE]
\* Mutant: one attempt too many.
EndedLate(j, ok) ==
  IF ok \/ job[j].tries >= MaxTries THEN Over(j)
  ELSE [job[j] EXCEPT !.state = "waiting", !.tries = @ + 1]
\* A job ends: with success, or to be tried again, or for good.
Ended(j, ok) ==
  IF ok \/ job[j].tries + 1 >= MaxTries THEN Over(j)
  ELSE [job[j] EXCEPT !.state = "waiting", !.tries = @ + 1]
\* A job's worker is gone: the second time the job ends as one that stalled.
Stalled(j) ==
  IF job[j].stalled THEN [job[j] EXCEPT !.state = "ended", !.tries = 0]
  ELSE [job[j] EXCEPT !.state = "waiting", !.stalled = TRUE]
StalledOut(r) == \E j \in Jobs : job[j].to = r /\ job[j].state = "ended" /\ job[j].stalled

Idle == [pc |-> "idle", job |-> 0, ok |-> TRUE, tally |-> "NONE"]
Steps == {"idle", "load", "claim", "mark", "send", "sent", "row", "failed", "failrow", "count",
          "write"}

Init ==
  /\ campaign = "NONE" /\ rcpt = [r \in Recipients |-> "NONE"]
  /\ rows = [r \in Recipients |-> 0] /\ job = [j \in Jobs |-> Absent]
  /\ worker = [w \in Workers |-> Idle]
  /\ enqueueing = {} /\ outbox = {}
  /\ retrying = [stage |-> "idle", who |-> {}]
  /\ cancelling = [stage |-> "idle", who |-> {}, sent |-> FALSE]
  /\ delivered = [r \in Recipients |-> 0] /\ doubts = [r \in Recipients |-> 0]
  /\ cut = {} /\ crashes = 0 /\ faults = 0

-----------------------------------------------------------------------------
(***************************************************************************)
(* queueCampaign: one transaction, then one job after the other.           *)
(***************************************************************************)
QueueCampaign ==
  /\ campaign = "NONE" /\ campaign' = "QUEUED"
  /\ rcpt' = [r \in Recipients |-> "QUEUED"] /\ enqueueing' = Recipients
  /\ UNCHANGED <<rows, job, worker, outbox, retrying, cancelling, ghosts, mishaps>>

Enqueue(r) ==
  /\ r \in enqueueing /\ enqueueing' = enqueueing \ {r} /\ AddKeyed(r)
  /\ UNCHANGED <<campaign, rcpt, rows, worker, outbox, retrying, cancelling, ghosts, mishaps>>

-----------------------------------------------------------------------------
(***************************************************************************)
(* sendCampaignRecipient, run by worker w for its job.                     *)
(***************************************************************************)
At(w, step) == worker[w].pc = step
To(w) == job[worker[w].job].to
Goto(w, step) == worker' = [worker EXCEPT ![w].pc = step]

Take(w, j) ==
  /\ At(w, "idle") /\ Waiting(j)
  /\ job' = [job EXCEPT ![j].state = "active"]
  /\ worker' = [worker EXCEPT ![w] = [Idle EXCEPT !.pc = "load", !.job = j]]
  /\ UNCHANGED <<campaign, rcpt, rows, outbox, api, ghosts, mishaps>>

\* Mutant: a check that lets a sent recipient through.
SendableTwice(status) == status \in {"QUEUED", "FAILED", "SENT"}
Sendable(status) == status \in {"QUEUED", "FAILED"}

Load(w) ==
  /\ At(w, "load")
  /\ Goto(w, IF campaign # "CANCELED" /\ Sendable(rcpt[To(w)]) THEN "claim" ELSE "count")
  /\ UNCHANGED <<campaign, rcpt, rows, job, outbox, api, ghosts, mishaps>>

Finish(w, ok) ==
  /\ job' = [job EXCEPT ![worker[w].job] = Ended(worker[w].job, ok)]
  /\ worker' = [worker EXCEPT ![w] = Idle]

\* Mutant: the claim as a plain update.
ClaimableAlways(status) == TRUE
Claimable(status) == Sendable(status)

Claim(w) ==
  /\ At(w, "claim")
  /\ IF Claimable(rcpt[To(w)])
     THEN rcpt' = [rcpt EXCEPT ![To(w)] = "SENDING"] /\ Goto(w, "mark") /\ UNCHANGED job
     ELSE Finish(w, TRUE) /\ UNCHANGED rcpt
  /\ UNCHANGED <<campaign, rows, outbox, api, ghosts, mishaps>>

Mark(w) ==
  /\ At(w, "mark") /\ campaign' = "SENDING" /\ Goto(w, "send")
  /\ UNCHANGED <<rcpt, rows, job, outbox, api, ghosts, mishaps>>

Fault == faults < MaxFaults /\ faults' = faults + 1

\* The server accepts or rejects the mail, or it accepts it and the answer is lost.
Send(w) ==
  /\ At(w, "send")
  /\ \/ /\ Goto(w, "sent") /\ delivered' = [delivered EXCEPT ![To(w)] = @ + 1]
        /\ UNCHANGED <<doubts, faults>>
     \/ Goto(w, "failed") /\ UNCHANGED <<delivered, doubts, faults>>
     \/ /\ Fault /\ Goto(w, "failed") /\ delivered' = [delivered EXCEPT ![To(w)] = @ + 1]
        /\ doubts' = [doubts EXCEPT ![To(w)] = @ + 1]
  /\ UNCHANGED <<campaign, rcpt, rows, job, outbox, api, cut, crashes>>

Record(w, step, status, next) ==
  /\ At(w, step) /\ rcpt' = [rcpt EXCEPT ![To(w)] = status] /\ Goto(w, next)
  /\ UNCHANGED <<campaign, rows, job, outbox, api, ghosts, mishaps>>

\* A row per try. Past MaxRows only the fact counts.
AddRow(r) == rows' = [rows EXCEPT ![r] = IF @ < MaxRows THEN @ + 1 ELSE @]
RecordRow(w, step, ok) ==
  /\ At(w, step) /\ AddRow(To(w))
  /\ worker' = [worker EXCEPT ![w].pc = "count", ![w].ok = ok]
  /\ UNCHANGED <<campaign, rcpt, job, outbox, api, ghosts, mishaps>>

(***************************************************************************)
(* updateCampaignStatus reads every recipient, then writes what it makes   *)
(* of them; the finally clause runs it whatever happened.                  *)
(***************************************************************************)
Some(status) == \E r \in Recipients : rcpt[r] = status
\* Mutant: failed recipients are taken for ones still to come.
TallyOfRest ==
  IF Some("QUEUED") \/ Some("SENDING") \/ Some("FAILED") THEN "SENDING"
  ELSE IF Some("CANCELED") THEN "CANCELED" ELSE "SENT"
Tally ==
  IF Some("QUEUED") \/ Some("SENDING") THEN "SENDING"
  ELSE IF Some("SENT") /\ (Some("FAILED") \/ Some("CANCELED")) THEN "PARTIAL"
  ELSE IF Some("FAILED") THEN "FAILED"
  ELSE IF Some("CANCELED") THEN "CANCELED"
  ELSE "SENT"

Count(w) ==
  /\ At(w, "count")
  /\ worker' = [worker EXCEPT ![w].pc = "write", ![w].tally = Tally]
  /\ UNCHANGED <<campaign, rcpt, rows, job, outbox, api, ghosts, mishaps>>

Write(w) ==
  /\ At(w, "write") /\ campaign' = worker[w].tally /\ Finish(w, worker[w].ok)
  /\ UNCHANGED <<rcpt, rows, outbox, api, ghosts, mishaps>>

\* A statement of the database fails. Up to the claim's end, and in the finally clause, the
\* error goes to the queue; after the mail was handed over it is taken for a failure to
\* send; in the catch block it cuts the record short.
ErrorToQueue(w) ==
  /\ worker[w].pc \in {"load", "claim", "mark", "count", "write"} /\ Finish(w, FALSE)
  /\ UNCHANGED doubts
ErrorAfterMail(w) ==
  /\ worker[w].pc \in {"sent", "row"} /\ Goto(w, "failed")
  /\ doubts' = [doubts EXCEPT ![To(w)] = @ + 1] /\ UNCHANGED job
ErrorInCatch(w) ==
  /\ worker[w].pc \in {"failed", "failrow"}
  /\ worker' = [worker EXCEPT ![w].pc = "count", ![w].ok = FALSE]
  /\ UNCHANGED <<job, doubts>>
StatementFails(w) ==
  /\ Fault
  /\ ErrorToQueue(w) \/ ErrorAfterMail(w) \/ ErrorInCatch(w)
  /\ UNCHANGED <<campaign, rcpt, rows, outbox, api, delivered, cut, crashes>>

Work(w) ==
  \/ \E j \in Jobs : Take(w, j)
  \/ Load(w) \/ Claim(w) \/ Mark(w) \/ Send(w)
  \/ Record(w, "sent", "SENT", "row") \/ RecordRow(w, "row", TRUE)
  \/ Record(w, "failed", "FAILED", "failrow") \/ RecordRow(w, "failrow", FALSE)
  \/ Count(w) \/ Write(w)
  \/ StatementFails(w)

-----------------------------------------------------------------------------
(***************************************************************************)
(* recoverQueuedEmailRecipients: the oldest unsettled recipients are read, *)
(* those with too many rows dropped, a keyed job added for each.           *)
(***************************************************************************)
Oldest(set) == {r \in set : Cardinality({q \in set : q < r}) < Batch}
Unsent == {r \in Recipients : rcpt[r] \in {"QUEUED", "FAILED"}}

\* Mutant: a recovery that never finds anybody.
RecoverableNone == {}
Recoverable == {r \in Oldest(Unsent) : rows[r] < MaxRows}

ReadOutbox ==
  /\ campaign \notin {"NONE", "CANCELED"} /\ outbox = {} /\ outbox' = Recoverable
  /\ UNCHANGED <<campaign, rcpt, rows, job, worker, api, ghosts, mishaps>>

RecoverJob(r) ==
  /\ r \in outbox /\ outbox' = outbox \ {r} /\ AddKeyed(r)
  /\ UNCHANGED <<campaign, rcpt, rows, worker, api, ghosts, mishaps>>

\* The queue keeps the last hundred or so ended jobs: others push them out.
Evict(r) ==
  /\ job[r].state = "ended" /\ job' = [job EXCEPT ![r] = Absent]
  /\ UNCHANGED <<campaign, rcpt, rows, worker, outbox, api, ghosts, mishaps>>

-----------------------------------------------------------------------------
(***************************************************************************)
(* retryFailedRecipients: the failed ones are read, stored as queued in one *)
(* transaction, then get a row and a job each.                             *)
(***************************************************************************)
RetryRead ==
  /\ retrying.stage = "idle" /\ Some("FAILED")
  /\ Cardinality({r \in Recipients : rcpt[r] = "FAILED"})
       <= Cardinality({x \in Extras : job[x] = Absent})
  /\ retrying' = [stage |-> "read", who |-> {r \in Recipients : rcpt[r] = "FAILED"}]
  /\ UNCHANGED <<campaign, rcpt, rows, job, worker, outbox, enqueueing, cancelling, ghosts, mishaps>>

\* Mutant: the update without its condition on the status.
RequeuedAll(who) == who
Requeued(who) == {r \in who : rcpt[r] = "FAILED"}

RetryStore ==
  /\ retrying.stage = "read" /\ retrying' = [retrying EXCEPT !.stage = "add"]
  /\ rcpt' = [r \in Recipients |-> IF r \in Requeued(retrying.who) THEN "QUEUED" ELSE rcpt[r]]
  /\ campaign' = "QUEUED"
  /\ UNCHANGED <<rows, job, worker, outbox, enqueueing, cancelling, ghosts, mishaps>>

Retried(r) ==
  retrying' = IF retrying.who = {r} THEN [stage |-> "idle", who |-> {}]
              ELSE [retrying EXCEPT !.who = @ \ {r}]
RetryAdd(r, x) ==
  /\ retrying.stage = "add" /\ r \in retrying.who /\ job[x] = Absent
  /\ AddRow(r) /\ job' = [job EXCEPT ![x] = Job(r)] /\ Retried(r)
  /\ UNCHANGED <<campaign, rcpt, worker, outbox, enqueueing, cancelling, ghosts, mishaps>>

-----------------------------------------------------------------------------
(***************************************************************************)
(* cancelCampaign: reads the campaign, then cancels in one transaction who  *)
(* is still queued.                                                        *)
(***************************************************************************)
CancelRead ==
  /\ cancelling.stage = "idle" /\ campaign \in {"QUEUED", "SENDING"} /\ Some("QUEUED")
  /\ cancelling' = [stage |-> "read", who |-> {r \in Recipients : rcpt[r] = "QUEUED"},
                    sent |-> Some("SENT")]
  /\ UNCHANGED <<campaign, rcpt, rows, job, worker, outbox, enqueueing, retrying, ghosts, mishaps>>

CancelStore ==
  /\ cancelling.stage = "read" /\ cancelling' = [stage |-> "idle", who |-> {}, sent |-> FALSE]
  /\ rcpt' = [r \in Recipients |->
       IF r \in cancelling.who /\ rcpt[r] = "QUEUED" THEN "CANCELED" ELSE rcpt[r]]
  /\ campaign' = IF cancelling.sent THEN "PARTIAL" ELSE "CANCELED"
  /\ UNCHANGED <<rows, job, worker, outbox, enqueueing, retrying, ghosts, mishaps>>

-----------------------------------------------------------------------------
\* A process dies: the API forgets what it was adding; the job a worker held stalls.
ApiCrash ==
  /\ crashes < MaxCrashes /\ crashes' = crashes + 1
  /\ enqueueing' = {} /\ retrying' = [stage |-> "idle", who |-> {}]
  /\ cancelling' = [stage |-> "idle", who |-> {}, sent |-> FALSE]
  /\ cut' = IF retrying.stage = "add" THEN cut \cup retrying.who ELSE cut
  /\ UNCHANGED <<campaign, rcpt, rows, job, worker, outbox, delivered, doubts, faults>>

WorkerCrash(w) ==
  /\ crashes < MaxCrashes /\ crashes' = crashes + 1
  /\ worker' = [worker EXCEPT ![w] = Idle]
  /\ job' = [j \in Jobs |-> IF ~At(w, "idle") /\ j = worker[w].job
                             THEN Stalled(j) ELSE job[j]]
  /\ outbox' = {}
  /\ UNCHANGED <<campaign, rcpt, rows, api, ghosts, faults>>

Next ==
  \/ QueueCampaign \/ \E r \in Recipients : Enqueue(r)
  \/ \E w \in Workers : Work(w)
  \/ ReadOutbox \/ \E r \in Recipients : RecoverJob(r) \/ Evict(r)
  \/ RetryRead \/ RetryStore \/ \E r \in Recipients, x \in Extras : RetryAdd(r, x)
  \/ CancelRead \/ CancelStore
  \/ ApiCrash \/ \E w \in Workers : WorkerCrash(w)

\* A queue hands out its jobs, requests under way run on, and recovery is a repeated job.
Fairness ==
  /\ \A w \in Workers : WF_vars(Work(w))
  /\ WF_vars(\E r \in Recipients : Enqueue(r))
  /\ WF_vars(ReadOutbox \/ \E r \in Recipients : RecoverJob(r))
  /\ WF_vars(RetryStore \/ \E r \in Recipients, x \in Extras : RetryAdd(r, x))
  /\ WF_vars(CancelStore)

Spec == Init /\ [][Next]_vars
FairSpec == Spec /\ Fairness

\* Workers are interchangeable.
Symmetry == Permutations(Workers)

-----------------------------------------------------------------------------
(***************************************************************************)
(* What the delivery promises.                                             *)
(***************************************************************************)
JobRecord == [to: Recipients \cup {0}, tries: 0..(MaxTries - 1),
              state: {"absent", "waiting", "active", "ended"}, stalled: BOOLEAN]
WorkerRecord == [pc: Steps, job: Jobs \cup {0}, ok: BOOLEAN, tally: CampaignStatus]
TypeOK ==
  /\ campaign \in CampaignStatus
  /\ rcpt \in [Recipients -> RecipientStatus]
  /\ rows \in [Recipients -> 0..MaxRows]
  /\ job \in [Jobs -> JobRecord] /\ worker \in [Workers -> WorkerRecord]
  /\ enqueueing \subseteq Recipients /\ outbox \subseteq Recipients /\ cut \subseteq Recipients
  /\ retrying \in [stage: {"idle", "read", "add"}, who: SUBSET Recipients]
  /\ cancelling \in [stage: {"idle", "read"}, who: SUBSET Recipients, sent: BOOLEAN]
  /\ delivered \in [Recipients -> Nat] /\ doubts \in [Recipients -> Nat]
  /\ crashes \in 0..MaxCrashes /\ faults \in 0..MaxFaults

\* Nobody gets the mail twice, however many jobs there are for a recipient, unless the
\* record lost an accepted one: the claim in sendCampaignRecipient is exclusive.
AtMostOnce == \A r \in Recipients : delivered[r] <= 1 + doubts[r]

\* "Queued recipients will be skipped by the worker": once cancelled, a recipient is never
\* sent to, whatever job, retry or recovery is still under way for it.
CanceledStays ==
  [][\A r \in Recipients : rcpt[r] = "CANCELED" =>
       rcpt'[r] = "CANCELED" /\ delivered'[r] = delivered[r]]_vars

\* "Sent recipients will not be touched": retryFailedRecipients and the recovery leave a
\* recipient the record knows to be sent, though they read it as failed.
SentIsFinal ==
  [][\A r \in Recipients : rcpt[r] = "SENT" /\ doubts[r] = 0 =>
       rcpt'[r] = "SENT" /\ delivered'[r] = delivered[r]]_vars

\* A recipient left queued is dealt with in the end, even if the API dies while it adds
\* the jobs: this is what recoverQueuedEmailRecipients is for. Three are beyond it: one whose
\* retry was cut off (the queue may keep the ended job of its key), one with a job that ended
\* because it stalled twice, and one that was retried between the two halves of a
\* cancellation and has too many rows for the recovery.
QueuedIsPickedUp ==
  \A r \in Recipients : rcpt[r] = "QUEUED" ~>
    (rcpt[r] # "QUEUED" \/ r \in cut \/ StalledOut(r) \/ (rows[r] = MaxRows /\ Some("CANCELED")))

\* When every recipient is settled the campaign comes to say so, through whatever stale
\* status jobs and retries wrote. A cancellation (its status may be overwritten by a job
\* that counted before it) and a crash of the API can leave it at SENDING or QUEUED.
AllSettled == \A r \in Recipients : rcpt[r] \in Settled
CampaignSettles ==
  AllSettled ~> (campaign \in Settled \cup {"PARTIAL"} \/ ~AllSettled
                 \/ Some("CANCELED") \/ crashes > 0)
=============================================================================
