------------------------ MODULE EmailDeliveryProofs ------------------------
(***************************************************************************)
(* Proofs about EmailDelivery, for any number of recipients, jobs, workers, *)
(* attempts and failures: the types, and that nobody is mailed twice, nor   *)
(* once cancelled or sent.                                                 *)
(***************************************************************************)
EXTENDS EmailDelivery, TLAPS

(***************************************************************************)
(* The inductive invariant. A worker at one of the Busy steps holds the     *)
(* claim of its recipient; Charged counts the mails with and without it.    *)
(***************************************************************************)
Busy == {"mark", "send", "sent", "row", "failed"}

JobsHeld ==
  /\ \A j \in Jobs : job[j].state # "absent" => job[j].to \in Recipients
  /\ \A w \in Workers : ~At(w, "idle") =>
       worker[w].job \in Jobs /\ job[worker[w].job].state = "active"
  /\ \A w, v \in Workers : w # v /\ ~At(w, "idle") /\ ~At(v, "idle") =>
       worker[w].job # worker[v].job

Claims ==
  /\ \A w \in Workers : worker[w].pc \in {"mark", "send", "sent"} => rcpt[To(w)] = "SENDING"
  /\ \A w \in Workers : At(w, "row") => rcpt[To(w)] = "SENT"
  /\ \A w \in Workers : At(w, "failed") =>
       rcpt[To(w)] = "SENDING" \/ (rcpt[To(w)] = "SENT" /\ doubts[To(w)] > 0)
  /\ \A w, v \in Workers : w # v /\ worker[w].pc \in Busy /\ worker[v].pc \in Busy =>
       To(w) # To(v)

Begun ==
  /\ campaign = "NONE" => \A r \in Recipients : rcpt[r] = "NONE"
  /\ \A w \in Workers : At(w, "write") => worker[w].tally # "NONE"

Charged ==
  /\ \A r \in Recipients : delivered[r] <= doubts[r] + 1
  /\ \A r \in Recipients : rcpt[r] \notin {"SENDING", "SENT"} => delivered[r] <= doubts[r]
  /\ \A w \in Workers : worker[w].pc \in {"mark", "send", "failed"} =>
       delivered[To(w)] <= doubts[To(w)]

IInv == TypeOK /\ JobsHeld /\ Claims /\ Begun /\ Charged

-----------------------------------------------------------------------------
(***************************************************************************)
(* Types.                                                                  *)
(***************************************************************************)
LEMMA JobRecords ==
  /\ Absent \in JobRecord
  /\ \A r \in Recipients : Job(r) \in JobRecord
  /\ \A a \in JobRecord : [a EXCEPT !.state = "waiting"] \in JobRecord
                        /\ [a EXCEPT !.state = "active"] \in JobRecord
                        /\ [a EXCEPT !.state = "ended", !.tries = 0, !.stalled = FALSE] \in JobRecord
                        /\ [a EXCEPT !.state = "ended", !.tries = 0] \in JobRecord
                        /\ [a EXCEPT !.state = "waiting", !.stalled = TRUE] \in JobRecord
<1>1. 0 \in 0..(MaxTries - 1)
    BY EmailAssumption
<1>2. Absent \in JobRecord
    BY <1>1 DEF Absent, JobRecord
<1>3. \A r \in Recipients : Job(r) \in JobRecord
    BY <1>2 DEF Job, JobRecord
<1>4. ASSUME NEW a \in JobRecord
      PROVE  /\ [a EXCEPT !.state = "waiting"] \in JobRecord
             /\ [a EXCEPT !.state = "active"] \in JobRecord
             /\ [a EXCEPT !.state = "ended", !.tries = 0, !.stalled = FALSE] \in JobRecord
             /\ [a EXCEPT !.state = "ended", !.tries = 0] \in JobRecord
             /\ [a EXCEPT !.state = "waiting", !.stalled = TRUE] \in JobRecord
    BY <1>1 DEF JobRecord
<1> QED
    BY <1>2, <1>3, <1>4

LEMMA StalledTypes ==
  ASSUME job \in [Jobs -> JobRecord], NEW j \in Jobs
  PROVE  Stalled(j) \in JobRecord /\ Stalled(j).to = job[j].to
<1>1. job[j] \in JobRecord
    OBVIOUS
<1>2. Stalled(j) \in JobRecord
    BY <1>1, JobRecords DEF Stalled
<1>3. Stalled(j).to = job[j].to
    BY <1>1 DEF Stalled, JobRecord
<1> QED
    BY <1>2, <1>3

LEMMA JobEdits ==
  ASSUME job \in [Jobs -> JobRecord]
  PROVE  /\ \A x \in Jobs : [job EXCEPT ![x] = Absent] \in [Jobs -> JobRecord]
         /\ \A x \in Jobs, r \in Recipients : [job EXCEPT ![x] = Job(r)] \in [Jobs -> JobRecord]
         /\ \A x \in Jobs : [job EXCEPT ![x].state = "active"] \in [Jobs -> JobRecord]
BY JobRecords

LEMMA AddKeyedTypes ==
  ASSUME job \in [Jobs -> JobRecord], NEW r \in Recipients, AddKeyed(r)
  PROVE  job' \in [Jobs -> JobRecord]
BY JobEdits DEF AddKeyed, Jobs

LEMMA EndedTypes ==
  ASSUME job \in [Jobs -> JobRecord], NEW j \in Jobs, NEW ok \in BOOLEAN
  PROVE  Ended(j, ok) \in JobRecord
<1>1. job[j] \in JobRecord /\ job[j].tries \in 0..(MaxTries - 1)
    BY DEF JobRecord
<1>2. CASE ok \/ job[j].tries + 1 >= MaxTries
    BY <1>1, <1>2, JobRecords DEF Ended, Over
<1>3. CASE ~(ok \/ job[j].tries + 1 >= MaxTries)
  <2>1. job[j].tries + 1 \in 0..(MaxTries - 1)
      BY <1>1, <1>3, EmailAssumption
  <2> QED
      BY <1>1, <1>3, <2>1 DEF Ended, JobRecord
<1> QED
    BY <1>2, <1>3

LEMMA WorkerRecords ==
  ASSUME NEW a \in WorkerRecord, NEW s \in Steps, NEW ok \in BOOLEAN, NEW t \in CampaignStatus
  PROVE  /\ Idle \in WorkerRecord
         /\ [a EXCEPT !.pc = s] \in WorkerRecord
         /\ [a EXCEPT !.pc = "count", !.ok = ok] \in WorkerRecord
         /\ [a EXCEPT !.pc = "write", !.tally = t] \in WorkerRecord
<1>1. Idle \in WorkerRecord
    BY DEF Idle, WorkerRecord, Steps, CampaignStatus
<1>2. {"count", "write"} \subseteq Steps
    BY DEF Steps
<1> QED
    BY <1>1, <1>2 DEF WorkerRecord

LEMMA WorkerEdits ==
  ASSUME worker \in [Workers -> WorkerRecord], NEW w \in Workers
  PROVE  /\ \A s \in Steps : [worker EXCEPT ![w].pc = s] \in [Workers -> WorkerRecord]
         /\ [worker EXCEPT ![w] = Idle] \in [Workers -> WorkerRecord]
         /\ \A ok \in BOOLEAN :
              [worker EXCEPT ![w].pc = "count", ![w].ok = ok] \in [Workers -> WorkerRecord]
         /\ \A t \in CampaignStatus :
              [worker EXCEPT ![w].pc = "write", ![w].tally = t] \in [Workers -> WorkerRecord]
<1>1. "idle" \in Steps /\ TRUE \in BOOLEAN /\ "NONE" \in CampaignStatus
    BY DEF Steps, CampaignStatus
<1> QED
    BY <1>1, WorkerRecords

LEMMA GotoTypes ==
  ASSUME worker \in [Workers -> WorkerRecord], NEW w \in Workers, NEW s \in Steps, Goto(w, s)
  PROVE  worker' \in [Workers -> WorkerRecord]
BY WorkerEdits DEF Goto

LEMMA TakeTypes ==
  ASSUME TypeOK, NEW w \in Workers, NEW j \in Jobs, Take(w, j)
  PROVE  worker' \in [Workers -> WorkerRecord] /\ job' \in [Jobs -> JobRecord]
<1>1. [Idle EXCEPT !.pc = "load", !.job = j] \in WorkerRecord
    BY DEF Idle, WorkerRecord, Steps, CampaignStatus
<1> QED
    BY <1>1, JobEdits DEF Take, TypeOK

LEMMA FinishTypes ==
  ASSUME TypeOK, NEW w \in Workers, NEW ok \in BOOLEAN, Finish(w, ok)
  PROVE  worker' \in [Workers -> WorkerRecord] /\ job' \in [Jobs -> JobRecord]
<1>1. worker' \in [Workers -> WorkerRecord]
    BY WorkerEdits DEF Finish, TypeOK
<1>2. job' \in [Jobs -> JobRecord]
    BY EndedTypes DEF Finish, TypeOK
<1> QED
    BY <1>1, <1>2

LEMMA AddRowTypes ==
  ASSUME TypeOK, NEW r, AddRow(r)
  PROVE  rows' \in [Recipients -> 0..MaxRows]
<1>1. \A n \in 0..MaxRows : (IF n < MaxRows THEN n + 1 ELSE n) \in 0..MaxRows
    BY EmailAssumption
<1> QED
    BY <1>1 DEF AddRow, TypeOK

LEMMA Increments ==
  ASSUME NEW f \in [Recipients -> Nat], NEW r
  PROVE  [f EXCEPT ![r] = @ + 1] \in [Recipients -> Nat]
<1>1. \A n \in Nat : n + 1 \in Nat
    OBVIOUS
<1> QED
    BY <1>1

LEMMA StepTypes == TypeOK /\ [Next]_vars => TypeOK'
<1> SUFFICES ASSUME TypeOK, [Next]_vars PROVE TypeOK'
    OBVIOUS
<1> USE EmailAssumption DEF TypeOK
<1>1. ASSUME QueueCampaign PROVE TypeOK'
    BY <1>1 DEF QueueCampaign, CampaignStatus, RecipientStatus, Jobs, api, ghosts, mishaps
<1>2. ASSUME NEW r \in Recipients, Enqueue(r) PROVE TypeOK'
    BY <1>2, AddKeyedTypes DEF Enqueue, CampaignStatus, RecipientStatus, Jobs, api, ghosts, mishaps
<1>3. ASSUME NEW w \in Workers, NEW j \in Jobs, Take(w, j) PROVE TypeOK'
    BY <1>3, TakeTypes DEF Take, At, CampaignStatus, RecipientStatus, Jobs, api, ghosts, mishaps
<1>4. ASSUME NEW w \in Workers, Load(w) PROVE TypeOK'
    BY <1>4, GotoTypes DEF Load, Steps, CampaignStatus, RecipientStatus, Jobs, api, ghosts, mishaps
<1>5. ASSUME NEW w \in Workers, Claim(w) PROVE TypeOK'
    BY <1>5, GotoTypes, FinishTypes DEF Claim, Steps, CampaignStatus, RecipientStatus, Jobs, api, ghosts, mishaps
<1>6. ASSUME NEW w \in Workers, Mark(w) PROVE TypeOK'
    BY <1>6, GotoTypes DEF Mark, Steps, CampaignStatus, RecipientStatus, Jobs, api, ghosts, mishaps
<1>7. ASSUME NEW w \in Workers, Send(w) PROVE TypeOK'
    BY <1>7, GotoTypes DEF Send, Fault, To, Steps, CampaignStatus, RecipientStatus, Jobs, api, ghosts, mishaps
<1>8. ASSUME NEW w \in Workers, Record(w, "sent", "SENT", "row") PROVE TypeOK'
    BY <1>8, GotoTypes DEF Record, Steps, CampaignStatus, RecipientStatus, Jobs, api, ghosts, mishaps
<1>9. ASSUME NEW w \in Workers, RecordRow(w, "row", TRUE) PROVE TypeOK'
    BY <1>9, WorkerEdits, AddRowTypes DEF RecordRow, CampaignStatus, RecipientStatus, Jobs, api, ghosts, mishaps
<1>10. ASSUME NEW w \in Workers, Record(w, "failed", "FAILED", "failrow") PROVE TypeOK'
    BY <1>10, GotoTypes DEF Record, Steps, CampaignStatus, RecipientStatus, Jobs, api, ghosts, mishaps
<1>11. ASSUME NEW w \in Workers, RecordRow(w, "failrow", FALSE) PROVE TypeOK'
    BY <1>11, WorkerEdits, AddRowTypes DEF RecordRow, CampaignStatus, RecipientStatus, Jobs, api, ghosts, mishaps
<1>12. ASSUME NEW w \in Workers, Count(w) PROVE TypeOK'
    BY <1>12, WorkerEdits DEF Count, Tally, CampaignStatus, RecipientStatus, Jobs, api, ghosts, mishaps
<1>13. ASSUME NEW w \in Workers, Write(w) PROVE TypeOK'
    BY <1>13, FinishTypes DEF Write, WorkerRecord, CampaignStatus, RecipientStatus, Jobs, api, ghosts, mishaps
<1>14. ASSUME NEW w \in Workers, StatementFails(w) PROVE TypeOK'
  <2>1. faults' \in 0..MaxFaults
    <3>1. Fault
        BY <1>14 DEF StatementFails
    <3> QED
        BY <3>1 DEF Fault
  <2>2. CASE ErrorToQueue(w)
    <3>1. worker' \in [Workers -> WorkerRecord] /\ job' \in [Jobs -> JobRecord]
        BY <2>2, FinishTypes DEF ErrorToQueue
    <3> QED
        BY <1>14, <2>1, <2>2, <3>1 DEF StatementFails, ErrorToQueue, api
  <2>3. CASE ErrorAfterMail(w)
    <3>1. worker' \in [Workers -> WorkerRecord]
        BY <2>3, GotoTypes DEF ErrorAfterMail, Steps
    <3>2. doubts' \in [Recipients -> Nat]
        BY <2>3, Increments DEF ErrorAfterMail
    <3> QED
        BY <1>14, <2>1, <2>3, <3>1, <3>2 DEF StatementFails, ErrorAfterMail, api
  <2>4. CASE ErrorInCatch(w)
    <3>1. worker' \in [Workers -> WorkerRecord]
        BY <2>4, WorkerEdits DEF ErrorInCatch
    <3> QED
        BY <1>14, <2>1, <2>4, <3>1 DEF StatementFails, ErrorInCatch, api
  <2> QED
      BY <1>14, <2>2, <2>3, <2>4 DEF StatementFails
<1>15. ASSUME ReadOutbox PROVE TypeOK'
    BY <1>15 DEF ReadOutbox, Recoverable, Oldest, Unsent, CampaignStatus, RecipientStatus, Jobs, api, ghosts, mishaps
<1>16. ASSUME NEW r \in Recipients, RecoverJob(r) PROVE TypeOK'
    BY <1>16, AddKeyedTypes DEF RecoverJob, CampaignStatus, RecipientStatus, Jobs, api, ghosts, mishaps
<1>17. ASSUME NEW r \in Recipients, Evict(r) PROVE TypeOK'
    BY <1>17, JobEdits DEF Evict, CampaignStatus, RecipientStatus, Jobs, api, ghosts, mishaps
<1>18. ASSUME RetryRead PROVE TypeOK'
    BY <1>18 DEF RetryRead, CampaignStatus, RecipientStatus, Jobs, api, ghosts, mishaps
<1>19. ASSUME RetryStore PROVE TypeOK'
    BY <1>19 DEF RetryStore, Requeued, CampaignStatus, RecipientStatus, Jobs, api, ghosts, mishaps
<1>20. ASSUME NEW r \in Recipients, NEW x \in Extras, RetryAdd(r, x) PROVE TypeOK'
    BY <1>20, JobEdits, AddRowTypes DEF RetryAdd, Retried, CampaignStatus, RecipientStatus, Jobs, api, ghosts, mishaps
<1>21. ASSUME CancelRead PROVE TypeOK'
    BY <1>21 DEF CancelRead, Some, CampaignStatus, RecipientStatus, Jobs, api, ghosts, mishaps
<1>22. ASSUME CancelStore PROVE TypeOK'
    BY <1>22 DEF CancelStore, CampaignStatus, RecipientStatus, Jobs, api, ghosts, mishaps
<1>23. ASSUME ApiCrash PROVE TypeOK'
  <2>1. crashes' \in 0..MaxCrashes
      BY <1>23 DEF ApiCrash
  <2>2. cut' \subseteq Recipients
      BY <1>23 DEF ApiCrash
  <2> QED
      BY <1>23, <2>1, <2>2 DEF ApiCrash
<1>24. ASSUME NEW w \in Workers, WorkerCrash(w) PROVE TypeOK'
  <2>1. worker' \in [Workers -> WorkerRecord]
      BY <1>24, WorkerEdits DEF WorkerCrash
  <2>2. job' \in [Jobs -> JobRecord]
      BY <1>24, StalledTypes DEF WorkerCrash
  <2>3. crashes' \in 0..MaxCrashes
      BY <1>24 DEF WorkerCrash
  <2> QED
      BY <1>24, <2>1, <2>2, <2>3 DEF WorkerCrash, api, ghosts
<1>25. CASE UNCHANGED vars
    BY <1>25 DEF vars
<1>26. QED
    BY <1>1, <1>2, <1>3, <1>4, <1>5, <1>6, <1>7, <1>8, <1>9, <1>10, <1>11, <1>12, <1>13, <1>14, <1>15, <1>16, <1>17, <1>18, <1>19, <1>20, <1>21, <1>22, <1>23, <1>24, <1>25 DEF Next, Work

-----------------------------------------------------------------------------
(***************************************************************************)
(* Jobs. While a worker is at work its job stays its own, and the job's    *)
(* recipient the same.                                                     *)
(***************************************************************************)
Kept == \A v \in Workers : ~At(v, "idle") /\ worker'[v].pc # "idle" => To(v)' = To(v)

\* Nothing is said of the workers' jobs.
LEMMA JobsUntouched ==
  ASSUME TypeOK, JobsHeld, UNCHANGED <<job, worker>>
  PROVE  JobsHeld' /\ Kept
BY DEF JobsHeld, Kept, At, To

\* Jobs nobody holds are added or forgotten.
LEMMA IdleJobsChange ==
  ASSUME TypeOK, JobsHeld, UNCHANGED worker, job' \in [Jobs -> JobRecord],
         \A j \in Jobs : job[j].state = "active" => job'[j] = job[j],
         \A j \in Jobs : job'[j].state # "absent" => job'[j].to \in Recipients
  PROVE  JobsHeld' /\ Kept
BY DEF JobsHeld, Kept, At, To

\* A worker at work goes on.
LEMMA WorkGoesOn ==
  ASSUME TypeOK, JobsHeld, NEW w \in Workers, ~At(w, "idle"), UNCHANGED job,
         worker'[w].job = worker[w].job,
         \A v \in Workers \ {w} : worker'[v] = worker[v]
  PROVE  JobsHeld' /\ Kept
BY DEF JobsHeld, Kept, At, To

\* A worker lets its job go.
LEMMA WorkEnds ==
  ASSUME TypeOK, JobsHeld, NEW w \in Workers,
         worker' = [worker EXCEPT ![w] = Idle],
         \A j \in Jobs : job'[j].to = job[j].to,
         \A j \in Jobs : (~At(w, "idle") /\ j = worker[w].job) \/ job'[j] = job[j]
  PROVE  JobsHeld' /\ Kept
<1>1. worker'[w].pc = "idle" /\ \A v \in Workers \ {w} : worker'[v] = worker[v]
    BY DEF TypeOK, Idle
<1>2. \A j \in Jobs : job'[j].state # "absent" => job'[j].to \in Recipients
    BY DEF JobsHeld
<1>3. \A v \in Workers : worker'[v].pc # "idle" =>
        v # w /\ worker[v].pc # "idle" /\ worker'[v].job \in Jobs
        /\ job'[worker'[v].job] = job[worker[v].job]
    BY <1>1 DEF JobsHeld, At
<1> QED
    BY <1>1, <1>2, <1>3 DEF JobsHeld, Kept, At, To

LEMMA JobTaken ==
  ASSUME TypeOK, JobsHeld, NEW w \in Workers, NEW j \in Jobs, Take(w, j)
  PROVE  JobsHeld' /\ Kept
<1>1. /\ worker'[w].pc = "load" /\ worker'[w].job = j
      /\ \A v \in Workers \ {w} : worker'[v] = worker[v]
    BY DEF Take, TypeOK, Idle
<1>2. /\ job[j].state = "waiting" /\ job'[j].state = "active" /\ job'[j].to = job[j].to
      /\ \A i \in Jobs \ {j} : job'[i] = job[i]
    BY DEF Take, TypeOK, JobRecord, Waiting
<1>3. At(w, "idle")
    BY DEF Take
<1>4. \A v \in Workers \ {w} : worker'[v].pc # "idle" => worker[v].job # j
    BY <1>1, <1>2 DEF JobsHeld, At
<1> QED
    BY <1>1, <1>2, <1>3, <1>4 DEF JobsHeld, Kept, At, To

LEMMA AddedJob ==
  ASSUME TypeOK, JobsHeld, UNCHANGED worker, NEW r \in Recipients, NEW j \in Jobs,
         job[j] = Absent, job' = [job EXCEPT ![j] = Job(r)]
  PROVE  JobsHeld' /\ Kept
<1>1. job' \in [Jobs -> JobRecord]
    BY JobEdits DEF TypeOK
<1>2. job'[j].to = r /\ \A i \in Jobs \ {j} : job'[i] = job[i]
    BY DEF TypeOK, Job
<1>3. job[j].state # "active"
    BY DEF Absent
<1> QED
    BY <1>1, <1>2, <1>3, IdleJobsChange DEF JobsHeld

LEMMA KeyedJob ==
  ASSUME TypeOK, JobsHeld, UNCHANGED worker, NEW r \in Recipients, AddKeyed(r)
  PROVE  JobsHeld' /\ Kept
<1>1. CASE job[r] = Absent
    BY <1>1, AddedJob DEF AddKeyed, Jobs
<1>2. CASE job[r] # Absent
    BY <1>2, JobsUntouched DEF AddKeyed
<1> QED
    BY <1>1, <1>2

LEMMA Finished ==
  ASSUME TypeOK, JobsHeld, NEW w \in Workers, ~At(w, "idle"), NEW ok \in BOOLEAN, Finish(w, ok)
  PROVE  JobsHeld' /\ Kept
<1>1. worker[w].job \in Jobs
    BY DEF JobsHeld
<1>2. \A j \in Jobs : Ended(j, ok).to = job[j].to
    BY DEF Ended, Over, TypeOK, JobRecord
<1>3. \A j \in Jobs : job'[j].to = job[j].to /\ (j = worker[w].job \/ job'[j] = job[j])
    BY <1>1, <1>2 DEF Finish, TypeOK
<1> QED
    BY <1>3, WorkEnds DEF Finish

LEMMA StepJobs == TypeOK /\ JobsHeld /\ [Next]_vars => JobsHeld' /\ Kept
<1> SUFFICES ASSUME TypeOK, JobsHeld, [Next]_vars PROVE JobsHeld' /\ Kept
    OBVIOUS
<1>1. ASSUME QueueCampaign PROVE JobsHeld' /\ Kept
    BY <1>1, JobsUntouched DEF QueueCampaign
<1>2. ASSUME NEW r \in Recipients, Enqueue(r) PROVE JobsHeld' /\ Kept
    BY <1>2, KeyedJob DEF Enqueue
<1>3. ASSUME NEW w \in Workers, NEW j \in Jobs, Take(w, j) PROVE JobsHeld' /\ Kept
    BY <1>3, JobTaken
<1>4. ASSUME NEW w \in Workers, Load(w) PROVE JobsHeld' /\ Kept
    BY <1>4, WorkGoesOn DEF Load, Goto, At, TypeOK, WorkerRecord
<1>5. ASSUME NEW w \in Workers, Claim(w) PROVE JobsHeld' /\ Kept
  <2>1. ~At(w, "idle")
      BY <1>5 DEF Claim, At
  <2>2. CASE Claimable(rcpt[To(w)])
      BY <1>5, <2>1, <2>2, WorkGoesOn DEF Claim, Goto, TypeOK, WorkerRecord
  <2>3. CASE ~Claimable(rcpt[To(w)])
      BY <1>5, <2>1, <2>3, Finished DEF Claim
  <2> QED
      BY <2>2, <2>3
<1>6. ASSUME NEW w \in Workers, Mark(w) PROVE JobsHeld' /\ Kept
    BY <1>6, WorkGoesOn DEF Mark, Goto, At, TypeOK, WorkerRecord
<1>7. ASSUME NEW w \in Workers, Send(w) PROVE JobsHeld' /\ Kept
    BY <1>7, WorkGoesOn DEF Send, Goto, At, TypeOK, WorkerRecord
<1>8. ASSUME NEW w \in Workers, Record(w, "sent", "SENT", "row") PROVE JobsHeld' /\ Kept
    BY <1>8, WorkGoesOn DEF Record, Goto, At, TypeOK, WorkerRecord
<1>9. ASSUME NEW w \in Workers, RecordRow(w, "row", TRUE) PROVE JobsHeld' /\ Kept
    BY <1>9, WorkGoesOn DEF RecordRow, At, TypeOK, WorkerRecord
<1>10. ASSUME NEW w \in Workers, Record(w, "failed", "FAILED", "failrow") PROVE JobsHeld' /\ Kept
    BY <1>10, WorkGoesOn DEF Record, Goto, At, TypeOK, WorkerRecord
<1>11. ASSUME NEW w \in Workers, RecordRow(w, "failrow", FALSE) PROVE JobsHeld' /\ Kept
    BY <1>11, WorkGoesOn DEF RecordRow, At, TypeOK, WorkerRecord
<1>12. ASSUME NEW w \in Workers, Count(w) PROVE JobsHeld' /\ Kept
    BY <1>12, WorkGoesOn DEF Count, At, TypeOK, WorkerRecord
<1>13. ASSUME NEW w \in Workers, Write(w) PROVE JobsHeld' /\ Kept
    BY <1>13, Finished DEF Write, At, TypeOK, WorkerRecord
<1>14. ASSUME NEW w \in Workers, StatementFails(w) PROVE JobsHeld' /\ Kept
  <2>1. CASE ErrorToQueue(w)
      BY <2>1, Finished DEF ErrorToQueue, At
  <2>2. CASE ErrorAfterMail(w)
      BY <2>2, WorkGoesOn DEF ErrorAfterMail, Goto, At, TypeOK, WorkerRecord
  <2>3. CASE ErrorInCatch(w)
      BY <2>3, WorkGoesOn DEF ErrorInCatch, At, TypeOK, WorkerRecord
  <2> QED
      BY <1>14, <2>1, <2>2, <2>3 DEF StatementFails
<1>15. ASSUME ReadOutbox PROVE JobsHeld' /\ Kept
    BY <1>15, JobsUntouched DEF ReadOutbox
<1>16. ASSUME NEW r \in Recipients, RecoverJob(r) PROVE JobsHeld' /\ Kept
    BY <1>16, KeyedJob DEF RecoverJob
<1>17. ASSUME NEW r \in Recipients, Evict(r) PROVE JobsHeld' /\ Kept
  <2>1. job' \in [Jobs -> JobRecord]
      BY <1>17, JobEdits DEF Evict, TypeOK, Jobs
  <2>2. /\ \A j \in Jobs : job[j].state = "active" => job'[j] = job[j]
        /\ \A j \in Jobs : job'[j].state # "absent" => job'[j].to \in Recipients
      BY <1>17 DEF Evict, TypeOK, Absent, JobsHeld
  <2> QED
      BY <1>17, <2>1, <2>2, IdleJobsChange DEF Evict
<1>18. ASSUME RetryRead PROVE JobsHeld' /\ Kept
    BY <1>18, JobsUntouched DEF RetryRead
<1>19. ASSUME RetryStore PROVE JobsHeld' /\ Kept
    BY <1>19, JobsUntouched DEF RetryStore
<1>20. ASSUME NEW r \in Recipients, NEW x \in Extras, RetryAdd(r, x) PROVE JobsHeld' /\ Kept
    BY <1>20, AddedJob DEF RetryAdd, Jobs
<1>21. ASSUME CancelRead PROVE JobsHeld' /\ Kept
    BY <1>21, JobsUntouched DEF CancelRead
<1>22. ASSUME CancelStore PROVE JobsHeld' /\ Kept
    BY <1>22, JobsUntouched DEF CancelStore
<1>23. ASSUME ApiCrash PROVE JobsHeld' /\ Kept
    BY <1>23, JobsUntouched DEF ApiCrash
<1>24. ASSUME NEW w \in Workers, WorkerCrash(w) PROVE JobsHeld' /\ Kept
  <2>1. \A j \in Jobs : /\ job'[j].to = job[j].to
                        /\ (~At(w, "idle") /\ j = worker[w].job) \/ job'[j] = job[j]
      BY <1>24, StalledTypes DEF WorkerCrash, TypeOK
  <2> QED
      BY <1>24, <2>1, WorkEnds DEF WorkerCrash
<1>25. CASE UNCHANGED vars
    BY <1>25, JobsUntouched DEF vars
<1>26. QED
    BY <1>1, <1>2, <1>3, <1>4, <1>5, <1>6, <1>7, <1>8, <1>9, <1>10, <1>11, <1>12, <1>13, <1>14, <1>15, <1>16, <1>17, <1>18, <1>19, <1>20, <1>21, <1>22, <1>23, <1>24, <1>25 DEF Next, Work

-----------------------------------------------------------------------------
(***************************************************************************)
(* Claims. Most steps are quiet: no worker enters or changes a Busy step,  *)
(* no mail is accepted, and a recipient that is being sent to, was sent to *)
(* or was cancelled stays so. The others are told apart below.             *)
(***************************************************************************)
Quiet ==
  /\ \A v \in Workers : worker'[v].pc \in Busy => worker[v].pc = worker'[v].pc
  /\ \A r \in Recipients : rcpt[r] \in {"SENDING", "SENT", "CANCELED"} => rcpt'[r] = rcpt[r]
  /\ delivered' = delivered
  /\ doubts' = doubts

Moves(w, from, to) ==
  /\ worker[w].pc = from /\ worker'[w].pc = to /\ To(w)' = To(w) /\ To(w) \in Recipients
  /\ \A v \in Workers \ {w} : worker'[v] = worker[v]

Becomes(r, status) ==
  rcpt'[r] = status /\ \A q \in Recipients \ {r} : rcpt'[q] = rcpt[q]

\* Claim won, Mark, Send, Record and ErrorAfterMail, by what they do.
ClaimWon(w) ==
  /\ Moves(w, "claim", "mark") /\ rcpt[To(w)] \in {"QUEUED", "FAILED"}
  /\ Becomes(To(w), "SENDING") /\ UNCHANGED <<delivered, doubts>>
Marked(w) == Moves(w, "mark", "send") /\ UNCHANGED <<rcpt, delivered, doubts>>
Sent(w) ==
  /\ UNCHANGED rcpt /\ \A r \in Recipients \ {To(w)} : delivered'[r] = delivered[r]
  /\ \A r \in Recipients \ {To(w)} : doubts'[r] = doubts[r]
  /\ \/ /\ Moves(w, "send", "sent") /\ delivered'[To(w)] = delivered[To(w)] + 1
        /\ doubts' = doubts
     \/ Moves(w, "send", "failed") /\ UNCHANGED <<delivered, doubts>>
     \/ /\ Moves(w, "send", "failed") /\ delivered'[To(w)] = delivered[To(w)] + 1
        /\ doubts'[To(w)] = doubts[To(w)] + 1
Recorded(w) ==
  /\ \/ Moves(w, "sent", "row") /\ Becomes(To(w), "SENT")
     \/ Moves(w, "failed", "failrow") /\ Becomes(To(w), "FAILED")
  /\ UNCHANGED <<delivered, doubts>>
Doubted(w) ==
  /\ Moves(w, "sent", "failed") \/ Moves(w, "row", "failed")
  /\ UNCHANGED <<rcpt, delivered>>
  /\ doubts'[To(w)] = doubts[To(w)] + 1
  /\ \A r \in Recipients \ {To(w)} : doubts'[r] = doubts[r]
Loud(w) == ClaimWon(w) \/ Marked(w) \/ Sent(w) \/ Recorded(w) \/ Doubted(w)

\* A worker at work that changes its step alone.
LEMMA Moving ==
  ASSUME TypeOK, JobsHeld, Kept, NEW w \in Workers, ~At(w, "idle"),
         NEW s \in Steps \ {"idle"}, Goto(w, s)
  PROVE  Moves(w, worker[w].pc, s)
<1>1. worker'[w].pc = s /\ \A v \in Workers \ {w} : worker'[v] = worker[v]
    BY DEF Goto, TypeOK, WorkerRecord
<1>2. To(w) \in Recipients
    BY DEF JobsHeld, To
<1>3. To(w)' = To(w)
    BY <1>1 DEF Kept
<1> QED
    BY <1>1, <1>2, <1>3 DEF Moves

LEMMA StepKinds ==
  TypeOK /\ JobsHeld /\ Kept /\ Begun /\ [Next]_vars => Quiet \/ \E w \in Workers : Loud(w)
<1> DEFINE Kind == Quiet \/ \E w \in Workers : Loud(w)
<1> SUFFICES ASSUME TypeOK, JobsHeld, Kept, Begun, [Next]_vars PROVE Kind
    OBVIOUS
<1>1. ASSUME QueueCampaign PROVE Kind
    BY <1>1 DEF QueueCampaign, Begun, ghosts, Quiet, Busy, TypeOK, WorkerRecord
<1>2. ASSUME NEW r \in Recipients, Enqueue(r) PROVE Kind
    BY <1>2 DEF Enqueue, ghosts, Quiet, Busy, TypeOK, WorkerRecord
<1>3. ASSUME NEW w \in Workers, NEW j \in Jobs, Take(w, j) PROVE Kind
    BY <1>3 DEF Take, Idle, ghosts, Quiet, Busy, TypeOK, WorkerRecord
<1>4. ASSUME NEW w \in Workers, Load(w) PROVE Kind
    BY <1>4 DEF Load, Goto, ghosts, Quiet, Busy, TypeOK, WorkerRecord
<1>5. ASSUME NEW w \in Workers, Claim(w) PROVE Kind
  <2>1. CASE Claimable(rcpt[To(w)])
    <3>1. Moves(w, "claim", "mark")
        BY <1>5, <2>1, Moving DEF Claim, At, Steps
    <3>2. ClaimWon(w)
        BY <1>5, <2>1, <3>1 DEF Claim, ClaimWon, Moves, Becomes, Claimable, Sendable, TypeOK, ghosts
    <3> QED
        BY <3>2 DEF Loud
  <2>2. CASE ~Claimable(rcpt[To(w)])
      BY <1>5, <2>2 DEF Claim, Finish, Idle, Quiet, Busy, TypeOK, WorkerRecord, ghosts
  <2> QED
      BY <2>1, <2>2
<1>6. ASSUME NEW w \in Workers, Mark(w) PROVE Kind
  <2>1. Moves(w, "mark", "send")
      BY <1>6, Moving DEF Mark, At, Steps
  <2>2. Marked(w)
      BY <1>6, <2>1 DEF Mark, Marked, ghosts
  <2> QED
      BY <2>2 DEF Loud
<1>7. ASSUME NEW w \in Workers, Send(w) PROVE Kind
  <2>1. To(w) \in Recipients /\ ~At(w, "idle") /\ At(w, "send")
      BY <1>7 DEF Send, JobsHeld, At, To
  <2>2. Goto(w, "sent") => Moves(w, "send", "sent")
      BY <2>1, Moving DEF At, Steps
  <2>3. Goto(w, "failed") => Moves(w, "send", "failed")
      BY <2>1, Moving DEF At, Steps
  <2>4. Sent(w)
      BY <1>7, <2>1, <2>2, <2>3 DEF Send, Sent, TypeOK
  <2> QED
      BY <2>4 DEF Loud
<1>8. ASSUME NEW w \in Workers, Record(w, "sent", "SENT", "row") PROVE Kind
  <2>1. Moves(w, "sent", "row")
      BY <1>8, Moving DEF Record, At, Steps
  <2>2. Recorded(w)
      BY <1>8, <2>1 DEF Record, Recorded, Becomes, Moves, TypeOK, ghosts
  <2> QED
      BY <2>2 DEF Loud
<1>9. ASSUME NEW w \in Workers, RecordRow(w, "row", TRUE) PROVE Kind
    BY <1>9 DEF RecordRow, ghosts, Quiet, Busy, TypeOK, WorkerRecord
<1>10. ASSUME NEW w \in Workers, Record(w, "failed", "FAILED", "failrow") PROVE Kind
  <2>1. Moves(w, "failed", "failrow")
      BY <1>10, Moving DEF Record, At, Steps
  <2>2. Recorded(w)
      BY <1>10, <2>1 DEF Record, Recorded, Becomes, Moves, TypeOK, ghosts
  <2> QED
      BY <2>2 DEF Loud
<1>11. ASSUME NEW w \in Workers, RecordRow(w, "failrow", FALSE) PROVE Kind
    BY <1>11 DEF RecordRow, ghosts, Quiet, Busy, TypeOK, WorkerRecord
<1>12. ASSUME NEW w \in Workers, Count(w) PROVE Kind
    BY <1>12 DEF Count, ghosts, Quiet, Busy, TypeOK, WorkerRecord
<1>13. ASSUME NEW w \in Workers, Write(w) PROVE Kind
    BY <1>13 DEF Write, Finish, Idle, ghosts, Quiet, Busy, TypeOK, WorkerRecord
<1>14. ASSUME NEW w \in Workers, StatementFails(w) PROVE Kind
  <2>1. CASE ErrorToQueue(w)
      BY <1>14, <2>1 DEF StatementFails, ErrorToQueue, Finish, Idle, Quiet, Busy, TypeOK, WorkerRecord
  <2>2. CASE ErrorAfterMail(w)
    <3>1. Moves(w, worker[w].pc, "failed")
        BY <2>2, Moving DEF ErrorAfterMail, At, Steps
    <3>2. Doubted(w)
        BY <1>14, <2>2, <3>1 DEF StatementFails, ErrorAfterMail, Doubted, Moves, TypeOK
    <3> QED
        BY <3>2 DEF Loud
  <2>3. CASE ErrorInCatch(w)
      BY <1>14, <2>3 DEF StatementFails, ErrorInCatch, Quiet, Busy, TypeOK, WorkerRecord
  <2> QED
      BY <1>14, <2>1, <2>2, <2>3 DEF StatementFails
<1>15. ASSUME ReadOutbox PROVE Kind
    BY <1>15 DEF ReadOutbox, ghosts, Quiet, Busy, TypeOK, WorkerRecord
<1>16. ASSUME NEW r \in Recipients, RecoverJob(r) PROVE Kind
    BY <1>16 DEF RecoverJob, ghosts, Quiet, Busy, TypeOK, WorkerRecord
<1>17. ASSUME NEW r \in Recipients, Evict(r) PROVE Kind
    BY <1>17 DEF Evict, ghosts, Quiet, Busy, TypeOK, WorkerRecord
<1>18. ASSUME RetryRead PROVE Kind
    BY <1>18 DEF RetryRead, ghosts, Quiet, Busy, TypeOK, WorkerRecord
<1>19. ASSUME RetryStore PROVE Kind
    BY <1>19 DEF RetryStore, Requeued, ghosts, Quiet, Busy, TypeOK, WorkerRecord
<1>20. ASSUME NEW r \in Recipients, NEW x \in Extras, RetryAdd(r, x) PROVE Kind
    BY <1>20 DEF RetryAdd, ghosts, Quiet, Busy, TypeOK, WorkerRecord
<1>21. ASSUME CancelRead PROVE Kind
    BY <1>21 DEF CancelRead, ghosts, Quiet, Busy, TypeOK, WorkerRecord
<1>22. ASSUME CancelStore PROVE Kind
    BY <1>22 DEF CancelStore, ghosts, Quiet, Busy, TypeOK, WorkerRecord
<1>23. ASSUME ApiCrash PROVE Kind
    BY <1>23 DEF ApiCrash, Quiet, Busy, TypeOK, WorkerRecord
<1>24. ASSUME NEW w \in Workers, WorkerCrash(w) PROVE Kind
    BY <1>24 DEF WorkerCrash, Idle, ghosts, Quiet, Busy, TypeOK, WorkerRecord
<1>25. CASE UNCHANGED vars
    BY <1>25 DEF vars, Quiet
<1>26. QED
    BY <1>1, <1>2, <1>3, <1>4, <1>5, <1>6, <1>7, <1>8, <1>9, <1>10, <1>11, <1>12, <1>13, <1>14, <1>15, <1>16, <1>17, <1>18, <1>19, <1>20, <1>21, <1>22, <1>23, <1>24, <1>25 DEF Next, Work

\* Only a queued campaign has recipients; a job never writes the campaign back to nothing.
LEMMA StepBegun == TypeOK /\ JobsHeld /\ Claims /\ Begun /\ [Next]_vars => Begun'
<1> SUFFICES ASSUME TypeOK, JobsHeld, Claims, Begun, [Next]_vars PROVE Begun'
    OBVIOUS
<1>1. ASSUME QueueCampaign PROVE Begun'
    BY <1>1 DEF QueueCampaign, Begun, At, TypeOK, WorkerRecord
<1>2. ASSUME NEW r \in Recipients, Enqueue(r) PROVE Begun'
    BY <1>2 DEF Enqueue, Begun, At, TypeOK, WorkerRecord
<1>3. ASSUME NEW w \in Workers, NEW j \in Jobs, Take(w, j) PROVE Begun'
    BY <1>3 DEF Take, Idle, Begun, At, TypeOK, WorkerRecord
<1>4. ASSUME NEW w \in Workers, Load(w) PROVE Begun'
    BY <1>4 DEF Load, Goto, Begun, At, TypeOK, WorkerRecord
<1>5. ASSUME NEW w \in Workers, Claim(w) PROVE Begun'
  <2>1. To(w) \in Recipients
      BY <1>5 DEF Claim, JobsHeld, At, To
  <2>2. campaign = "NONE" => rcpt' = rcpt
      BY <1>5, <2>1 DEF Claim, Claimable, Sendable, Begun
  <2>3. campaign' = campaign
      BY <1>5 DEF Claim
  <2>4. \A v \in Workers : worker'[v].pc = "write" => worker'[v] = worker[v]
    <3>1. CASE Claimable(rcpt[To(w)])
      <4>1. Goto(w, "mark")
          BY <1>5, <3>1 DEF Claim
      <4> QED
          BY <4>1 DEF Goto, TypeOK, WorkerRecord
    <3>2. CASE ~Claimable(rcpt[To(w)])
      <4>1. Finish(w, TRUE)
          BY <1>5, <3>2 DEF Claim
      <4>2. worker' = [worker EXCEPT ![w] = Idle]
          BY <4>1 DEF Finish
      <4> QED
          BY <4>2 DEF Idle, TypeOK
    <3> QED
        BY <3>1, <3>2
  <2> QED
      BY <2>2, <2>3, <2>4 DEF Begun, At
<1>6. ASSUME NEW w \in Workers, Mark(w) PROVE Begun'
    BY <1>6 DEF Mark, Goto, Begun, At, TypeOK, WorkerRecord
<1>7. ASSUME NEW w \in Workers, Send(w) PROVE Begun'
    BY <1>7 DEF Send, Goto, Begun, At, TypeOK, WorkerRecord
<1>8. ASSUME NEW w \in Workers, Record(w, "sent", "SENT", "row") PROVE Begun'
  <2>1. To(w) \in Recipients /\ rcpt[To(w)] # "NONE"
      BY <1>8 DEF Record, At, JobsHeld, Claims, To
  <2>2. campaign # "NONE"
      BY <2>1 DEF Begun
  <2> QED
      BY <1>8, <2>2 DEF Begun, Record, Goto, At, TypeOK, WorkerRecord
<1>9. ASSUME NEW w \in Workers, RecordRow(w, "row", TRUE) PROVE Begun'
    BY <1>9 DEF RecordRow, Begun, At, TypeOK, WorkerRecord
<1>10. ASSUME NEW w \in Workers, Record(w, "failed", "FAILED", "failrow") PROVE Begun'
  <2>1. To(w) \in Recipients /\ rcpt[To(w)] # "NONE"
      BY <1>10 DEF Record, At, JobsHeld, Claims, To
  <2>2. campaign # "NONE"
      BY <2>1 DEF Begun
  <2> QED
      BY <1>10, <2>2 DEF Begun, Record, Goto, At, TypeOK, WorkerRecord
<1>11. ASSUME NEW w \in Workers, RecordRow(w, "failrow", FALSE) PROVE Begun'
    BY <1>11 DEF RecordRow, Begun, At, TypeOK, WorkerRecord
<1>12. ASSUME NEW w \in Workers, Count(w) PROVE Begun'
    BY <1>12 DEF Count, Tally, Begun, At, TypeOK, WorkerRecord
<1>13. ASSUME NEW w \in Workers, Write(w) PROVE Begun'
    BY <1>13 DEF Write, Finish, Idle, Begun, At, TypeOK, WorkerRecord
<1>14. ASSUME NEW w \in Workers, StatementFails(w) PROVE Begun'
  <2>1. \A v \in Workers : worker'[v].pc = "write" => worker[v].pc = "write" /\ worker'[v] = worker[v]
    <3>1. CASE ErrorToQueue(w)
      <4>1. worker' = [worker EXCEPT ![w] = Idle]
          BY <3>1 DEF ErrorToQueue, Finish
      <4> QED
          BY <4>1 DEF Idle, TypeOK
    <3>2. CASE ErrorAfterMail(w)
        BY <3>2 DEF ErrorAfterMail, Goto, TypeOK, WorkerRecord
    <3>3. CASE ErrorInCatch(w)
        BY <3>3 DEF ErrorInCatch, TypeOK, WorkerRecord
    <3> QED
        BY <1>14, <3>1, <3>2, <3>3 DEF StatementFails
  <2>2. campaign' = campaign /\ rcpt' = rcpt
      BY <1>14 DEF StatementFails
  <2> QED
      BY <2>1, <2>2 DEF Begun, At
<1>15. ASSUME ReadOutbox PROVE Begun'
    BY <1>15 DEF ReadOutbox, Begun, At, TypeOK, WorkerRecord
<1>16. ASSUME NEW r \in Recipients, RecoverJob(r) PROVE Begun'
    BY <1>16 DEF RecoverJob, Begun, At, TypeOK, WorkerRecord
<1>17. ASSUME NEW r \in Recipients, Evict(r) PROVE Begun'
    BY <1>17 DEF Evict, Begun, At, TypeOK, WorkerRecord
<1>18. ASSUME RetryRead PROVE Begun'
    BY <1>18 DEF RetryRead, Begun, At, TypeOK, WorkerRecord
<1>19. ASSUME RetryStore PROVE Begun'
    BY <1>19 DEF RetryStore, Begun, At, TypeOK, WorkerRecord
<1>20. ASSUME NEW r \in Recipients, NEW x \in Extras, RetryAdd(r, x) PROVE Begun'
    BY <1>20 DEF RetryAdd, Begun, At, TypeOK, WorkerRecord
<1>21. ASSUME CancelRead PROVE Begun'
    BY <1>21 DEF CancelRead, Begun, At, TypeOK, WorkerRecord
<1>22. ASSUME CancelStore PROVE Begun'
    BY <1>22 DEF CancelStore, Begun, At, TypeOK, WorkerRecord
<1>23. ASSUME ApiCrash PROVE Begun'
    BY <1>23 DEF ApiCrash, Begun, At, TypeOK, WorkerRecord
<1>24. ASSUME NEW w \in Workers, WorkerCrash(w) PROVE Begun'
    BY <1>24 DEF WorkerCrash, Idle, Begun, At, TypeOK, WorkerRecord
<1>25. CASE UNCHANGED vars
    BY <1>25 DEF vars, Begun, At
<1>26. QED
    BY <1>1, <1>2, <1>3, <1>4, <1>5, <1>6, <1>7, <1>8, <1>9, <1>10, <1>11, <1>12, <1>13, <1>14, <1>15, <1>16, <1>17, <1>18, <1>19, <1>20, <1>21, <1>22, <1>23, <1>24, <1>25 DEF Next, Work

LEMMA QuietClaims == ASSUME JobsHeld, Kept, Claims, Quiet PROVE Claims'
<1>1. \A v \in Workers : worker'[v].pc \in Busy =>
        worker[v].pc = worker'[v].pc /\ To(v)' = To(v) /\ To(v) \in Recipients
    BY DEF Quiet, Kept, JobsHeld, Busy, At, To
<1>2. \A r \in Recipients : /\ rcpt[r] \in {"SENDING", "SENT"} => rcpt'[r] = rcpt[r]
                           /\ doubts'[r] = doubts[r]
    BY DEF Quiet
<1> QED
    BY <1>1, <1>2 DEF Claims, Busy, At

LEMMA StepClaims ==
  ASSUME TypeOK, JobsHeld, Kept, Claims, Quiet \/ \E w \in Workers : Loud(w)
  PROVE  Claims'
<1> SUFFICES ASSUME NEW w \in Workers, Loud(w) PROVE Claims'
    BY QuietClaims
<1>1. \A v \in Workers \ {w} : worker'[v].pc \in Busy =>
        worker[v].pc = worker'[v].pc /\ To(v)' = To(v) /\ To(v) \in Recipients
    BY DEF Loud, ClaimWon, Marked, Sent, Recorded, Doubted, Moves, Kept, JobsHeld, Busy, At, To
<1>2. CASE ClaimWon(w)
    BY <1>1, <1>2 DEF ClaimWon, Moves, Becomes, Claims, Busy, At
<1>3. CASE Marked(w)
    BY <1>1, <1>3 DEF Marked, Moves, Claims, Busy, At
<1>4. CASE Sent(w)
    BY <1>1, <1>4 DEF Sent, Moves, Claims, Busy, At, TypeOK
<1>5. CASE Recorded(w)
    BY <1>1, <1>5 DEF Recorded, Moves, Becomes, Claims, Busy, At
<1>6. CASE Doubted(w)
    BY <1>1, <1>6 DEF Doubted, Moves, Claims, Busy, At, TypeOK
<1> QED
    BY <1>2, <1>3, <1>4, <1>5, <1>6 DEF Loud

LEMMA StepCharged ==
  ASSUME TypeOK, TypeOK', JobsHeld, Kept, Claims, Charged, Quiet \/ \E w \in Workers : Loud(w)
  PROVE  Charged'
<1>1. CASE Quiet
  <2>1. \A v \in Workers : worker'[v].pc \in Busy =>
          worker[v].pc = worker'[v].pc /\ To(v)' = To(v)
      BY <1>1 DEF Quiet, Kept, Busy, At
  <2> QED
      BY <1>1, <2>1 DEF Quiet, Charged, Busy
<1>2. ASSUME NEW w \in Workers, Loud(w) PROVE Charged'
  <2>1. \A v \in Workers \ {w} : worker'[v].pc \in Busy =>
          /\ worker[v].pc = worker'[v].pc /\ To(v)' = To(v) /\ To(v) \in Recipients
          /\ worker[w].pc \in Busy => To(v) # To(w)
      BY <1>2 DEF Loud, ClaimWon, Marked, Sent, Recorded, Doubted, Moves, Kept, JobsHeld, Claims,
           Busy, At, To
  <2>2. CASE ClaimWon(w)
      BY <2>1, <2>2 DEF ClaimWon, Moves, Becomes, Charged, Busy
  <2>3. CASE Marked(w)
      BY <2>1, <2>3 DEF Marked, Moves, Charged, Busy
  <2>4. CASE Sent(w)
      BY <2>1, <2>4 DEF Sent, Moves, Charged, Claims, Busy, TypeOK
  <2>5. CASE Recorded(w)
      BY <2>1, <2>5 DEF Recorded, Moves, Becomes, Charged, Busy
  <2>6. CASE Doubted(w)
      BY <2>1, <2>6 DEF Doubted, Moves, Charged, Claims, Busy, TypeOK
  <2> QED
      BY <1>2, <2>2, <2>3, <2>4, <2>5, <2>6 DEF Loud
<1> QED
    BY <1>1, <1>2

-----------------------------------------------------------------------------
(***************************************************************************)
(* The theorems.                                                           *)
(***************************************************************************)
LEMMA InitInv == Init => IInv
<1> SUFFICES ASSUME Init PROVE IInv
    OBVIOUS
<1> USE EmailAssumption DEF Init
<1>1. TypeOK
  <2>1. Absent \in JobRecord /\ Idle \in WorkerRecord
      BY JobRecords DEF Idle, WorkerRecord, Steps, CampaignStatus
  <2> QED
      BY <2>1 DEF TypeOK, CampaignStatus, RecipientStatus
<1>2. JobsHeld /\ Claims /\ Begun /\ Charged
    BY DEF JobsHeld, Claims, Begun, Charged, Busy, At, To, Absent, Idle
<1> QED
    BY <1>1, <1>2 DEF IInv

LEMMA StepInv == IInv /\ [Next]_vars => IInv'
<1> SUFFICES ASSUME IInv, [Next]_vars PROVE IInv'
    OBVIOUS
<1>1. TypeOK'
    BY StepTypes DEF IInv
<1>2. JobsHeld' /\ Kept
    BY StepJobs DEF IInv
<1>3. Quiet \/ \E w \in Workers : Loud(w)
    BY <1>2, StepKinds DEF IInv
<1> QED
    BY <1>1, <1>2, <1>3, StepBegun, StepClaims, StepCharged DEF IInv

LEMMA Invariance == Spec => []IInv
BY InitInv, StepInv, PTL DEF Spec

\* The queue, the workers and the rows keep their types, for any number of attempts, rows,
\* crashes and failures.
THEOREM TypeCorrect == Spec => []TypeOK
<1>1. IInv => TypeOK
    BY DEF IInv
<1> QED
    BY <1>1, Invariance, PTL

\* Nobody is mailed twice, unless the record lost an accepted mail: for any number of jobs,
\* workers, retries and recoveries at once.
THEOREM MailedAtMostOnce == Spec => []AtMostOnce
<1>1. IInv => AtMostOnce
  <2> SUFFICES ASSUME IInv, NEW r \in Recipients PROVE delivered[r] <= 1 + doubts[r]
      BY DEF AtMostOnce
  <2>1. delivered[r] \in Nat /\ doubts[r] \in Nat /\ delivered[r] <= doubts[r] + 1
      BY DEF IInv, TypeOK, Charged
  <2> QED
      BY <2>1
<1> QED
    BY <1>1, Invariance, PTL

\* What a step may never do to a recipient that is settled in the record.
LEMMA StepSettled ==
  ASSUME IInv, [Next]_vars, NEW r \in Recipients,
         rcpt[r] = "CANCELED" \/ (rcpt[r] = "SENT" /\ doubts[r] = 0)
  PROVE  rcpt'[r] = rcpt[r] /\ delivered'[r] = delivered[r]
<1>1. Quiet \/ \E w \in Workers : Loud(w)
    BY StepJobs, StepKinds DEF IInv
<1>2. CASE Quiet
    BY <1>2 DEF Quiet
<1>3. ASSUME NEW w \in Workers, Loud(w) PROVE rcpt'[r] = rcpt[r] /\ delivered'[r] = delivered[r]
    BY <1>3 DEF Loud, ClaimWon, Marked, Sent, Recorded, Doubted, Moves, Becomes, IInv, Claims, At,
         TypeOK
<1> QED
    BY <1>1, <1>2, <1>3

\* A cancelled recipient is never sent to.
THEOREM CancelledForGood == Spec => CanceledStays
<1>1. IInv /\ [Next]_vars =>
        [\A r \in Recipients : rcpt[r] = "CANCELED" =>
           rcpt'[r] = "CANCELED" /\ delivered'[r] = delivered[r]]_vars
    BY StepSettled
<1> QED
    BY <1>1, Invariance, PTL DEF Spec, CanceledStays

\* A recipient the record knows to be sent is never queued or sent to again.
THEOREM SentForGood == Spec => SentIsFinal
<1>1. IInv /\ [Next]_vars =>
        [\A r \in Recipients : rcpt[r] = "SENT" /\ doubts[r] = 0 =>
           rcpt'[r] = "SENT" /\ delivered'[r] = delivered[r]]_vars
    BY StepSettled
<1> QED
    BY <1>1, Invariance, PTL DEF Spec, SentIsFinal
=============================================================================
