------------------------------ MODULE Reminders ------------------------------
(***************************************************************************)
(* The reminders of one task under one rule that repeats daily: the hourly *)
(* job (apps/worker/src/main.ts, automation-lifecycle.ts) and the retry of *)
(* a failed run (apps/api/src/admin/admin.service.ts).  Both notify in the *)
(* application and queue an e-mail, and check again before each of the two *)
(* that the rule still applies; both carry a key made from the day, so     *)
(* that it happens once.  The job takes the day from the community's clock *)
(* and the retry from UTC.                                                 *)
(***************************************************************************)
EXTENDS Naturals

CONSTANTS
    RuleConfigs,   \* what the rule may be set to do
    Worker,        \* the hourly job
    Retries,       \* retries at a time
    LastHour       \* bound: hours, 0 .. LastHour

VARIABLES
    live,        \* what the rule does, "off" while it or its board is off
    run,         \* the executions under way: the rule as read, and the key
    notices,     \* Notification.dedupeKey: unique
    mails,       \* e-mail campaigns per key: not unique
    failed,      \* a FAILED live run is there to retry
    overlapped,  \* keys two executions looked up at once
    hour         \* the local day begins in odd hours, the UTC day in even ones

reminderVars == <<live, run, notices, mails, failed, overlapped, hour>>

Resting == [pc |-> "idle", config |-> "off", key |-> 0, told |-> FALSE]
Execs == {Worker} \cup Retries
LocalDay == (hour + 1) \div 2
UtcDay == hour \div 2
Days == 0 .. (LastHour + 1) \div 2

ReminderInit ==
    /\ live = "off"
    /\ run = [x \in Execs |-> Resting]
    /\ notices = {} /\ mails = [d \in Days |-> 0]
    /\ failed = FALSE /\ overlapped = {} /\ hour = 0

Exec(x, next) == run' = [run EXCEPT ![x] = next]
Goto(x, pc) == Exec(x, [run[x] EXCEPT !.pc = pc])

-------------------------------------------------------------------------------
\* createEventTaskReminders reads the tasks of the boards with their rules.
WorkerRead ==
    /\ run[Worker] = Resting /\ live # "off"
    /\ Exec(Worker, [Resting EXCEPT !.pc = "check", !.config = live, !.key = LocalDay])
    /\ UNCHANGED <<live, notices, mails, failed, overlapped, hour>>

\* retryTaskBoardAutomationRun, with the rule as it is by now
RetryRead(x) ==
    /\ run[x] = Resting /\ failed
    /\ Exec(x, [Resting EXCEPT !.pc = "retry", !.config = live, !.key = UtcDay])
    /\ UNCHANGED <<live, notices, mails, failed, overlapped, hour>>

\* loadAutomationExecutionDecision, automationExecutionDecision: the board and
\* the rule are on, and the rule is the one that was read.
Eligible(config) == live # "off" /\ live = config

AfterCheck(pc) == CASE pc = "retry" -> "check" [] pc = "check" -> "notify" [] pc = "checkMail" -> "lookup"

\* What is not eligible by now is not sent.
Check(x) ==
    /\ run[x].pc \in {"retry", "check", "checkMail"}
    /\ IF Eligible(run[x].config) THEN Goto(x, AfterCheck(run[x].pc)) ELSE Exec(x, Resting)
    /\ UNCHANGED <<live, notices, mails, failed, overlapped, hour>>

\* createMany skips a notification whose key is taken.
Notify(x) ==
    /\ run[x].pc = "notify"
    /\ notices' = notices \cup {run[x].key}
    /\ Exec(x, [run[x] EXCEPT !.pc = "checkMail", !.told = run[x].key \notin notices])
    /\ UNCHANGED <<live, mails, failed, overlapped, hour>>

\* HasMail of a retry that looks for its own campaign.
HasMailOfRun(x) == x = Worker /\ mails[run[x].key] > 0
\* A campaign with the key is there.
HasMail(x) == mails[run[x].key] > 0

Lookup(x) ==
    /\ run[x].pc = "lookup"
    /\ IF HasMail(x) THEN Exec(x, Resting) ELSE Goto(x, "mail")
    /\ overlapped' = overlapped \cup
         {k \in {run[x].key} : \E y \in Execs \ {x} : run[y].pc = "mail" /\ run[y].key = k}
    /\ UNCHANGED <<live, notices, mails, failed, hour>>

\* queueAutomationEmailCampaign, and queueCampaign for a retry.  After the commit
\* adding the jobs may fail, which counts if nobody was told in the application,
\* or storing the job's run.
Mail(x) ==
    /\ run[x].pc = "mail"
    /\ mails' = [mails EXCEPT ![run[x].key] = @ + 1]
    /\ failed' \in {failed, failed \/ ~run[x].told \/ x = Worker}
    /\ Exec(x, Resting)
    /\ UNCHANGED <<live, notices, overlapped, hour>>

\* The e-mail is not looked up or not created.
MailFails(x) ==
    /\ run[x].pc = "mail" \/ (x = Worker /\ run[x].pc = "lookup")
    /\ failed' = (failed \/ ~run[x].told)
    /\ Exec(x, Resting)
    /\ UNCHANGED <<live, notices, mails, overlapped, hour>>

\* Another statement fails, for which the job records a failed run once it has
\* begun to send; the process ends; or e-mail is not set up.
Fail(x) ==
    /\ run[x].pc # "idle"
    /\ Exec(x, Resting)
    /\ failed' \in {failed, failed \/ (x = Worker /\ run[x].pc \in {"notify", "checkMail"})}
    /\ UNCHANGED <<live, notices, mails, overlapped, hour>>

\* The rule is edited, paused or archived, or the board is.
Set ==
    /\ live' \in (RuleConfigs \cup {"off"}) \ {live}
    /\ UNCHANGED <<run, notices, mails, failed, overlapped, hour>>

Tick ==
    /\ hour < LastHour /\ hour' = hour + 1
    /\ UNCHANGED <<live, run, notices, mails, failed, overlapped>>

ReminderNext ==
    \/ WorkerRead \/ \E x \in Retries : RetryRead(x)
    \/ \E x \in Execs : Check(x) \/ Notify(x) \/ Lookup(x) \/ Mail(x) \/ MailFails(x) \/ Fail(x)
    \/ Set \/ Tick

ReminderSpec == ReminderInit /\ [][ReminderNext]_reminderVars

-------------------------------------------------------------------------------
\* Whatever fails, is cut off after the campaign is stored or is retried, a key
\* has one e-mail campaign, unless two executions looked for it at once.
OneMailPerKey == \A k \in Days : mails[k] > 1 => k \in overlapped
==============================================================================
