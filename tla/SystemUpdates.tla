---------------------------- MODULE SystemUpdates ----------------------------
(***************************************************************************)
(* The API's copy of the updater's runs:                                   *)
(* apps/api/src/system-updates/system-updates.service.ts.  The updater is  *)
(* taken as HostUpdate, which Updater implements.  The API asks it to      *)
(* install, and then asks for the state of every run it has a row of: with *)
(* each request, and every five seconds from a timer that does not wait    *)
(* for its previous round.  An answer is as old as the time since it was   *)
(* given; it is stored whatever the row says by then.  A cancellation the  *)
(* updater accepts may lose the run's record on the host at any later time *)
(* (HostUpdate.Lose): what is told of the run then may be anything.        *)
(***************************************************************************)
EXTENDS Naturals

CONSTANTS
    Runs, NoRun,   \* installations, one per idempotency key
    Timers,        \* rounds of the timer at a time
    Clients,       \* requests and sockets at a time
    MaxFailures    \* bound: answers lost, failed statements and crashes

VARIABLES
    owner, stage, changed,   \* the host
    mirror,                  \* SystemUpdateRun.status, "none" without a row
    audited,                 \* audit records of a run's outcome; 2 stands for more
    job,                     \* what each timer round and request is doing
    cancelled,               \* runs whose cancellation the updater has accepted
    failures,                \* failures so far
    missed,                  \* runs whose outcome was not to be audited: its
                             \* record was cut off, or an install found it over
    raced                    \* runs two answers of which were under way at once

Host == INSTANCE HostUpdate

hostVars == <<owner, stage, changed>>
mirrorVars == <<owner, stage, changed, mirror, audited, job, cancelled, failures, missed, raced>>

NoJob == [pc |-> "idle", run |-> NoRun, got |-> "none", prev |-> "none", todo |-> {}]
Jobs == Timers \cup Clients
Terminal == Host!Ends
Active == {r \in Runs : mirror[r] \notin Terminal \cup {"none"}}

UpdatesInit ==
    /\ Host!Init
    /\ mirror = [r \in Runs |-> "none"] /\ audited = [r \in Runs |-> 0]
    /\ job = [j \in Jobs |-> NoJob]
    /\ cancelled = {} /\ failures = 0 /\ missed = {} /\ raced = {}

Go(j, pc) == job' = [job EXCEPT ![j].pc = pc]
\* The next run of a round, or the end of the request or the round.
Over(j) == IF job[j].todo = {} THEN NoJob ELSE [NoJob EXCEPT !.pc = "round", !.todo = job[j].todo]
End(j) == job' = [job EXCEPT ![j] = Over(j)]

-------------------------------------------------------------------------------
\* install: the key is new and no run is active.
InstallCheck(j, r) ==
    /\ job[j] = NoJob
    /\ mirror[r] = "none" /\ Active = {}
    /\ job' = [job EXCEPT ![j] = [NoJob EXCEPT !.pc = "install", !.run = r]]
    /\ UNCHANGED <<hostVars, mirror, audited, cancelled, failures, missed, raced>>

\* The updater takes the host for it, or is busy; a known key is answered as it is.
InstallAsk(j) ==
    /\ job[j].pc = "install" /\ stage[job[j].run] = "none"
    /\ IF owner = NoRun THEN Host!Take(job[j].run) /\ Go(j, "ask")
                        ELSE UNCHANGED hostVars /\ End(j)
    /\ UNCHANGED <<mirror, audited, cancelled, failures, missed, raced>>

\* run, and the subscribed sockets: the row is there and not terminal.
Refresh(j, r) ==
    /\ job[j] = NoJob
    /\ r \in Active
    /\ job' = [job EXCEPT ![j] = [NoJob EXCEPT !.pc = "ask", !.run = r]]
    /\ UNCHANGED <<hostVars, mirror, audited, cancelled, failures, missed, raced>>

\* cancel: any row there is.  The updater refuses unless the record it loads may be
\* cancelled; what it saves, and when, is a step of the host.  Then run reads the row.
Cancel(j, r) ==
    /\ job[j] = NoJob
    /\ mirror[r] # "none"
    /\ job' = [job EXCEPT ![j] = [NoJob EXCEPT !.pc = "cancel", !.run = r]]
    /\ UNCHANGED <<hostVars, mirror, audited, cancelled, failures, missed, raced>>

CancelAsk(j) ==
    /\ job[j].pc = "cancel"
    /\ \/ /\ stage[job[j].run] \in {"preparing", "unknown"}
          /\ cancelled' = cancelled \cup {job[j].run} /\ Go(j, "cancelled")
       \/ End(j) /\ UNCHANGED cancelled
    /\ UNCHANGED <<hostVars, mirror, audited, failures, missed, raced>>

CancelRun(j) ==
    /\ job[j].pc = "cancelled"
    /\ IF job[j].run \in Active THEN Go(j, "ask") ELSE End(j)
    /\ UNCHANGED <<hostVars, mirror, audited, cancelled, failures, missed, raced>>

\* Followed that knows one status only.
FollowedChanging == {r \in Active : mirror[r] = "changing"}
\* Every run that may still change.
Followed == Active
\* reconcileActiveRuns
Round(j) ==
    /\ job[j] = NoJob /\ Followed # {}
    /\ job' = [job EXCEPT ![j] = [NoJob EXCEPT !.pc = "round", !.todo = Followed]]
    /\ UNCHANGED <<hostVars, mirror, audited, cancelled, failures, missed, raced>>

RoundNext(j, r) ==
    /\ job[j].pc = "round" /\ r \in job[j].todo
    /\ job' = [job EXCEPT ![j] = [job[j] EXCEPT !.pc = "ask", !.run = r, !.todo = @ \ {r}]]
    /\ UNCHANGED <<hostVars, mirror, audited, cancelled, failures, missed, raced>>

\* What the updater may say of a run: of one whose record was lost, anything.
Told(r) == IF stage[r] = "unknown" THEN {"preparing", "changing"} \cup Terminal ELSE {stage[r]}

\* The updater answers; a run it never recorded is not found.
Answering(j) == job[j].pc \in {"answered", "read"}
Answer(j) ==
    /\ job[j].pc \in {"ask", "install"}
    /\ LET r == job[j].run IN
         \/ /\ stage[r] # "none"
            /\ \E got \in Told(r) : job' = [job EXCEPT ![j].pc = "answered", ![j].got = got]
            /\ raced' = raced \cup (IF \E i \in Jobs \ {j} : Answering(i) /\ job[i].run = r THEN {r} ELSE {})
         \/ /\ job[j].pc = "ask" /\ stage[r] = "none" /\ owner # r
            /\ End(j) /\ UNCHANGED raced
    /\ UNCHANGED <<hostVars, mirror, audited, cancelled, failures, missed>>

-------------------------------------------------------------------------------
\* upsertAgentRun: the status before is read ahead of the transaction.
ReadPrevious(j) ==
    /\ job[j].pc = "answered"
    /\ job' = [job EXCEPT ![j].pc = "read", ![j].prev = mirror[job[j].run]]
    /\ UNCHANGED <<hostVars, mirror, audited, cancelled, failures, missed, raced>>

\* NeedsAudit of the runs that succeed.
NeedsAuditInstalled(prev, got) == prev # "none" /\ prev # got /\ got = "installed"
NeedsAudit(prev, got) == prev # "none" /\ prev # got /\ got \in Terminal

Store(j) ==
    /\ job[j].pc = "read"
    /\ LET r == job[j].run IN
         /\ mirror' = [mirror EXCEPT ![r] = job[j].got]
         /\ IF NeedsAudit(job[j].prev, job[j].got) THEN Go(j, "audit") ELSE End(j)
         /\ missed' = missed \cup {q \in {r} : job[j].prev = "none" /\ job[j].got \in Terminal}
    /\ UNCHANGED <<hostVars, audited, cancelled, failures, raced>>

\* auditTerminal
Audit(j) ==
    /\ job[j].pc = "audit"
    /\ audited' = [audited EXCEPT ![job[j].run] = IF @ < 2 THEN @ + 1 ELSE 2]
    /\ End(j)
    /\ UNCHANGED <<hostVars, mirror, cancelled, failures, missed, raced>>

\* AfterFailure that takes an updater which does not answer for one that failed.
AfterFailureFailed(j) == [r \in Runs |-> IF job[j].pc = "ask" /\ r = job[j].run THEN "failed" ELSE mirror[r]]
\* What a failed call leaves in the rows.
AfterFailure(j) == mirror

Cut(js) == {r \in Runs : \E j \in js : job[j].pc = "audit" /\ job[j].run = r}

\* The updater does not answer in time, or a statement fails; a round goes on.
Fail(j) ==
    /\ job[j].pc \notin {"idle", "round"} /\ failures < MaxFailures
    /\ mirror' = AfterFailure(j)
    /\ End(j)
    /\ failures' = failures + 1 /\ missed' = missed \cup Cut({j})
    /\ UNCHANGED <<hostVars, audited, raced, cancelled>>

\* The API ends and starts again, as every update makes it.
ApiRestart ==
    /\ failures < MaxFailures /\ \E j \in Jobs : job[j] # NoJob
    /\ job' = [j \in Jobs |-> NoJob]
    /\ failures' = failures + 1 /\ missed' = missed \cup Cut(Jobs)
    /\ UNCHANGED <<hostVars, mirror, audited, raced, cancelled>>

\* The agent's steps.  No outcome vanishes: it keeps 200 records, far more than
\* there are runs here, and a key that was turned away may be asked for again.
HostStep ==
    /\ \E r \in Runs : \/ Host!Prepare(r) \/ Host!Commit(r) \/ Host!Change(r) \/ Host!GiveUp(r)
                       \/ \E end \in Terminal : Host!End(r, end)
                       \/ r \in cancelled /\ Host!Lose(r)
    /\ \A r \in Runs : stage'[r] # "gone"
    /\ UNCHANGED <<mirror, audited, job, cancelled, failures, missed, raced>>

Advance(j) ==
    \/ InstallAsk(j) \/ CancelAsk(j) \/ CancelRun(j) \/ Answer(j) \/ ReadPrevious(j) \/ Store(j) \/ Audit(j)
    \/ \E r \in Runs : RoundNext(j, r)

UpdatesNext ==
    \/ \E j \in Clients, r \in Runs : InstallCheck(j, r) \/ Refresh(j, r) \/ Cancel(j, r)
    \/ \E j \in Timers : Round(j)
    \/ \E j \in Jobs : Advance(j) \/ Fail(j)
    \/ ApiRestart \/ HostStep

\* The timer fires, and what is awaited arrives.  Nobody has to ask.
Fairness ==
    /\ \A j \in Timers : WF_mirrorVars(Round(j))
    /\ \A j \in Jobs : WF_mirrorVars(Advance(j))

UpdatesSpec == UpdatesInit /\ [][UpdatesNext]_mirrorVars /\ Fairness

-------------------------------------------------------------------------------
\* Whatever is lost or late, the API shows an outcome only if it is the host's, unless a
\* cancellation has lost the host's record.
Lost(r) == stage[r] = "unknown"
OutcomeIsTheHosts == \A r \in Runs : mirror[r] \in Terminal => mirror[r] = stage[r] \/ Lost(r)

\* An outcome that is shown has its audit record, or is about to, unless the
\* record was cut off or an install found the run over; and it has one only,
\* unless two answers about the run were under way at once or its record was lost.
OutcomeAudited ==
    \A r \in Runs :
        /\ mirror[r] \in Terminal =>
             \/ audited[r] > 0 \/ r \in missed
             \/ \E j \in Jobs : job[j].pc = "audit" /\ job[j].run = r
        /\ audited[r] > 1 => r \in raced \/ Lost(r)

\* Once the host has an outcome the API shows it in the end and from then on, also when
\* an older answer turned it back in between, unless the host's record is lost.
MirrorSettles ==
    \A r \in Runs :
        (mirror[r] # "none" /\ stage[r] \in Terminal) ~> [](mirror[r] = stage[r] \/ Lost(r))
==============================================================================
