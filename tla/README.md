# PE Community: formal models, checks and proofs

PE Community is a self-hosted community platform: a pnpm monorepo with a NestJS API, a BullMQ
worker, an update agent that runs on the host, two Next.js applications, a Prisma schema over
PostgreSQL, and Redis. This directory holds TLA+ models of the parts whose correctness depends on
the *order* of things (crashes, retries, concurrent requests, jobs delivered again), the TLC
configurations that check them on small instances, and proofs checked by TLAPS.

| module | models | lines of code it stands for |
| --- | --- | --- |
| `Updater` | the host updater agent | `apps/updater/src/{updater,store,domain,executor,server}.ts` |
| `HostUpdate` | what the agent promises, with no lock file, record or phase in it | none: an abstract specification |
| `UpdaterProofs` | its types and its lock | |
| `UpdaterRecordProofs` | its records, and that it implements `HostUpdate` | |
| `EmailDelivery` | one email campaign between API, queue, worker and SMTP | `apps/worker/src/main.ts`, `apps/api/src/email/email.service.ts` |
| `EmailDeliveryProofs` | theorems about `EmailDelivery` | |
| `MediaDeletion` | chat media from upload to deletion, and its quota | `apps/api/src/chat/chat.service.ts`, `apps/worker/src/main.ts` |
| `MediaDeletionProofs` | theorems about `MediaDeletion` | |
| `ChatConversation` | one conversation: its members, its owner, a message and who can read it | `apps/api/src/chat/chat.service.ts` |
| `ChatDeparture` | what the documentation says of leaving a group, over `ChatConversation` | |
| `ChatConversationProofs` | theorems about `ChatConversation` | |
| `ChatDevices` | one member's chat devices and keys | `apps/api/src/chat/chat.service.ts` |
| `ChatDevicesProofs` | theorems about `ChatDevices` | |
| `Accounts` | memberships, sessions and sockets of one community | `apps/api/src/admin/admin.service.ts`, `auth/*.ts`, `registration/registration-submission.service.ts`, `owner-break-glass/*.ts`, `event-tasks-realtime/*.gateway.ts` |
| `AccountsProofs` | theorems about `Accounts` | |
| `EmailChange` | changes of a member's e-mail address | `apps/api/src/auth/email-change.service.ts` |
| `SystemUpdates` | the API's copy of the updater's runs, over `HostUpdate` | `apps/api/src/system-updates/*.ts` |
| `AutomationRules` | one automation rule and its versions | `apps/api/src/admin/admin.service.ts` |
| `Reminders` | the daily reminders of a task, by the hourly job and by retries | `apps/worker/src/{main,automation-lifecycle}.ts`, `apps/api/src/admin/admin.service.ts` |
| `RecordKeeping` | the last four side by side | |
| `RecordKeepingProofs` | theorems about those four | |

How to run them: `tlc -config EmailDelivery_safety.cfg EmailDelivery.tla`,
`tlapm UpdaterProofs.tla`. Every component, run, hazard, theorem and the source lines of every
definition are listed in `PROJECT.json`.

## 1. The system

### 1.1 Components, their state and their operations

**Host updater agent** (`apps/updater`). One systemd service on the host, outside the containers.
State: `update.lock`, one JSON record and one event log per run, `.env` (the deployed version), the
containers, database backups. Operations: `install`, `cancel`, `status`, and recovery at start; a
run goes PENDING, PREFLIGHT, BACKUP, PULLING, VERIFYING, MIGRATING, DEPLOYING, HEALTHCHECK,
COMPLETED, or to ROLLING_BACK, FAILED, CANCELLED, MANUAL_INTERVENTION_REQUIRED.
*Correct when* one installation at a time owns the host, its record never claims what is not true
of the host, and every interrupted run is settled.

**Updater IPC** (`http-server.ts`, `ipc-auth.ts`, `nonce-store.ts`). Signed requests from the API
over a Unix socket; a bounded store of nonces against repeated ones. *Correct when* a request is
executed once.

**System updates in the API** (`apps/api/src/system-updates`). Rows that mirror the agent's runs,
refreshed every five seconds and by requests; audit records; a socket gateway. *Correct when* the
mirror never shows an outcome the host does not have, ends with the host's, and audits it once.

**Email delivery** (`apps/worker/src/main.ts`, `apps/api/src/email`). State: campaigns, recipients,
delivery rows in PostgreSQL; jobs in Redis. The API queues, retries and cancels; the worker sends
and, every minute, recovers recipients whose job was lost. *Correct when* nobody is mailed twice or
after a cancellation and nobody is forgotten.

**Encrypted chat media** (`apps/api/src/chat`, `apps/worker/src/main.ts`). State: attachment rows
with a life cycle, files on disk, a usage counter, deletion operations, jobs. *Correct when* what is
served exists, what is reported deleted is gone, and the counter keeps uploads within the quota.

**Memberships, roles, registration** (`apps/api/src/admin`, `rbac`, `registration`). Memberships,
roles, applications and their review, notices through the queue. *Correct when* a community always
keeps an active owner, and an application is decided once.

**Sessions and authentication** (`apps/api/src/auth`, `owner-break-glass`, `setup`, the gateways).
Session rows, and in each API process a registry of the sockets opened with them. *Correct when* an
ended session, a suspension or a removal closes its sockets.

**Email change** (`apps/api/src/auth/email-change.service.ts`). One active request per user with the
hash of its newest token. *Correct when* only that token changes the address, the old address is
told, and a password reset ends what was pending.

**Task boards, event tasks and automation** (`apps/api/src/admin`, `event-tasks-realtime`,
`apps/worker/src/automation-lifecycle.ts`). Ordered tasks, presence and edit locks over sockets,
rules in versions that the worker evaluates hourly. *Correct when* what a rule does is in its recorded
versions, and a reminder is sent once.

**Chat conversations, devices and keys** (`apps/api/src/chat`). Groups with owners, messages in
envelopes with one key per reader, device enrolment and revocation, key versions. *Correct when* a
group has one owner, who sees a message can read it, and a member has one active key.

**Login streaks** (`auth/login-streak.service.ts`), **security retention**
(`apps/worker/src/security-retention.ts`), **communities, audit, profile links, uploads**, **release
verification** (`apps/updater/src/release*.ts`), **web and documentation sites** (`apps/web`,
`apps/site`), **deployment and release scripts** (`deploy`, `.github`). See section 10.

### 1.2 How they interact

- The API and the worker share PostgreSQL and the BullMQ queues in Redis. Nothing is atomic across
  the two: the API commits first and adds jobs afterwards. A job is keyed; while the queue still
  holds a job of that key, waiting, active or ended, adding another does nothing, silently.
- The API calls the agent over a Unix socket and polls it; an answer may be lost or late.
- The agent drives `docker compose` and the database migration with child processes, and logs their
  output while they run; logging saves the run's record.
- Browsers talk to the API by HTTP and sockets.

### 1.3 What is hard here

Crashes between two writes (the lock file and the record, the commit and the job); read-then-write
across transactions (cancellation, retry, campaign status, reconciliation); jobs delivered again and
keys that are still taken; errors raised inside an error handler or after the success was saved;
answers lost after the effect took place. `hazards` in `PROJECT.json` lists each at its line, with
the property that covers it or a note why none does.

## 2. `Updater` and `HostUpdate`

### 2.1 State and actions

What is on disk (`lock`, `env`, `stored`) is kept apart from what the executor holds in memory
(`mem`, `orig`), and both from what the commands did to the host (`running`, `effects`). A crash
loses the second, and a cancellation only ever sees the first. `pc[r]` is the progress of one
request, `agent` and `rcv` that of a starting agent.

| actions | code |
| --- | --- |
| `Request`, `AcquireLock`, `WriteLock`, `AwaitDuplicate`, `SaveFirst` | `install`, `acquireLock` |
| `EnterPhase`, `FetchRelease`, `Check`, `Poll`, `Backup`, `SwapVersion`, `Pull`, `VerifyImages`, `Migrate`, `ComposeUp`, `HealthPasses`, `StreamLog` | `execute` and the executor it calls |
| `Throw`, `Catch`, `RestoreVersion`, `RollbackThrows`, `SettleRun`, `Reject`, `CancelRun` | the error handling of `execute`, `rollback`, `cancelIfRequested` |
| `PruneBackups`, `ReleaseLock`, `PruneRuns` | the end of a run |
| `CancelLoad`, `CancelSave` | `cancel` |
| `TakeInterruptedRun`, `RecoverVersion`, `Recover`, `OutcomeUnlogged`, `OutcomeRevised`, `RecoveryFails` | `initialize` and the recovery |
| `Crash`, `StreamLogFails` | the process dies, or an unawaited log write rejects and ends it |

A command that is cut short leaves what such a command can leave: `.env` truncated, containers of
either version or both, a migration begun. A write of `.env` that fails does so too, in `SwapVersion`
and in `RestoreVersion`. A transition the table does not have goes where the code's exception goes:
to the handler of the run (`Thrown`), out of the handler (`Unsaved`), or, while a starting agent
settles a run, to the end of the process (`Recovered`). A failing save of the release leaves the
executor's copy as it was changed (`FetchRelease`).

`HostUpdate` is the promise: `owner`, `stage` and `changed`; an installation takes the host, prepares,
commits itself to changes, changes, ends with an outcome that is true of what it changed, and gives
the host up (`Take`, `Prepare`, `Commit`, `Change`, `End`, `GiveUp`). Requests that were turned away
and outcomes whose records are pruned vanish (`Forget`) and never come back. One way leads out of
the promise, `Lose`: a cancellation puts an old record over that of a run that has moved on, or its
outcome over the one just recorded, and from then on the record says nothing certain of that run.
`ImplementsHostUpdate` maps the agent onto it: the lock names the owner, or, once a starting agent
has taken the lock away, the run it is settling; the stage is read from the record, or is "gone"
without one for a run that can make none any more, or "unknown" for a run in `overwritten`, the
history variable to which the saves of a cancellation add a run when they put its record out of
order. What is lost is that run's record only: it still owns the host alone and gives it up.

Left out: the event log's contents and numbering, `state.json` (nothing reads it), the text of
failures, and two saves of one record interleaving inside the temporary file they share
(`store.ts:97`; a save is one step).

### 2.2 Runs

| run | instance | shows |
| --- | --- | --- |
| `updater_faults` | 2 runs, 2 keys, 2 versions, 2 crashes, failing saves, one record kept; 947 thousand states | `HostLock`, `RecordedFirst`, `FollowsTransitions`, `ImplementsHostUpdate` |
| `updater_cancel` | 2 runs, a cancellation of one, 1 crash, one record kept; 1.9 million | `TypeOK`, `EveryRunIsOwned`, `OutcomeIsHonest`, `VersionRestored`, `ImplementsHostUpdate` |
| `updater_live` | 2 runs with one key, 2 crashes, fair; 56 thousand | `InstallationsEnd`, `InterruptedRunsSettle`, `AgentReturns` |

*Bounds.* Two runs are one that owns the host and one that competes with it (by a key of its own, or
by the same key) or comes after it; a third adds no new pair. Two versions are one to leave and one to
install; a rollback needs no third. Two crashes are one that interrupts a run and one that
interrupts its recovery. The code keeps 200 records; `KeepRuns` 1 makes pruning happen. Cancellation
and failing saves are explored in separate runs because together they exceed what can be checked.
Runs in `overwritten`, of which a cancellation has written back an old record, are exempted from
`RecordedFirst`, `FollowsTransitions` and `EveryRunIsOwned`, and from one clause of
`OutcomeIsHonest`: of such a run the record may say "safe to retry" after it has migrated the
database (section 8). A run that may be cancelled, or was and in time, is not exempted.

*Fairness.* Weak fairness of each install request and of each execution: the event loop runs every
continuation that is ready, commands end within the executor's timeouts, polling is bounded. Weak
fairness of `Boot`: systemd restarts the agent. None for requests, cancellations or crashes.

### 2.3 Proofs (`UpdaterProofs`)

Both theorems hold for every set of runs, keys and versions and every bound, from
`UpdaterAssumption` alone (ids, keys and versions are positive numbers, there is a version, bounds
are natural numbers).

- `TypeCorrect == Spec => []TypeOK`. `TypeOK` is not inductive: settling reads `stored[rcv]`, so
  `RecoveryOK` (a starting agent has a run to settle exactly in the settling states) is needed;
  `TypeInv` is the conjunction.
- `MutualExclusion == Spec => []HostLock`. `HostInv == TypeInv /\ HostLock /\ Quiet`, where `Quiet`
  says that no run owns the host unless the agent is serving. Without it a start, which removes the
  lock, could remove that of a run in progress. The steps of a run are classified by whether they
  take the lock, go on under it or give it up (`WorkingStep`, `IdleStep`, `SameStep`, `StopHostLock`).

### 2.4 Proofs (`UpdaterRecordProofs`)

For every set of runs, keys and versions and every bound, failing saves included unless the property
itself excludes them:

- `RecordBeforeEffect == Spec => []RecordedFirst`, `HonestOutcomes == Spec => []OutcomeIsHonest`,
  `VersionIsRestored == Spec => []VersionRestored`, `NoRunIsLost == Spec => []EveryRunIsOwned`,
  `RecordsFollowTable == Spec => FollowsTransitions`;
- `AgentImplementsHost == Spec => ImplementsHostUpdate`, with cancellations, crashes and failing
  saves at once.

"safe to retry" is proved true of every run but those in `overwritten`, and it is false of these.

One invariant carries all of them. `RecordInv == HostInv /\ RecoveryAt /\ \A r : RunInv(r)` says of
each run, by the step it has reached, which phase the executor holds in memory (`PhaseAt`); by that
phase, what has been done to the host (`DoneAt`), and the same by the record on disk, whoever
wrote it last (`DiskAt`); that a cancellation under way holds a record from before the run touched
the host (`PendAt`); and, of a run not in `overwritten`, that its record is the executor's copy or one save
ahead of it (`OwnAt`) and that `.env` has the version the step needs (`EnvAt`). `RecoveryAt` says it
of a starting agent: nothing runs, the lock is gone, and the record it settles is in the phases
that step is for. `TypeInv` and `HostInv` alone are too weak: `RecordedFirst` compares the disk with the host, and
only the step connects the two.

The steps are grouped by what they change of one run (`Turns`, `Calm`, `SavedAs`, `FailedAs`) and
each group preserves the invariant once. `EveryRunIsOwned` needs a second invariant over it
(`OwnedInv`): an unfinished record has a run that is at work, a lock that names it, a starting agent
that settles it, or is abandoned by name. For the refinement, every action is a step of
`HostUpdate` or leaves `owner`, `stage` and `changed` alone. Working that out corrected the
abstract specification: an earlier `HostUpdate` kept every outcome for ever, which the agent
satisfies only until it prunes its 201st record, and had no `Lose`, which left cancellations out.

## 3. `EmailDelivery`

### 3.1 State and actions

Each step is one statement of the database, one call of the queue or one SMTP exchange, and all of
them interleave.

| variable or action | code |
| --- | --- |
| `campaign`, `rcpt`, `rows` | `EmailCampaign.status`, `EmailCampaignRecipient.status`, delivery rows |
| `job` | the queue: job `r` is keyed by its recipient, an extra one belongs to a retry, which gives no key |
| `QueueCampaign`, `Enqueue` | `queueCampaign`: one transaction, then one job after the other |
| `Load`, `Claim`, `Mark`, `Send`, `Record`, `RecordRow` | `sendCampaignRecipient` |
| `Count`, `Write` | `updateCampaignStatus`, in its finally clause |
| `StatementFails` | where an error goes: to the queue, to the catch block, out of the catch block |
| `ReadOutbox`, `RecoverJob` | `recoverQueuedEmailRecipients` |
| `RetryRead`, `RetryStore`, `RetryAdd` | `retryFailedRecipients` |
| `CancelRead`, `CancelStore` | `cancelCampaign` |
| `Take`, `Ended`, `AddKeyed`, `Evict`, `ApiCrash`, `WorkerCrash` | BullMQ and the processes, as the code uses them |

`delivered`, `doubts` and `cut` are history: mails the server accepted, those whose acceptance the
record does not know of, retries stored and then cut off by a crash.

Left out: locale mismatches and rows not found (early returns without effect); templates, SMTP
settings and the choice of recipients; statements that fail after they took effect. A job whose
worker died waits once more; one that stalls again fails and its id stays with the queue (`Stalled`;
BullMQ's default, per job). Queries of one read are one step; delayed and waiting jobs are one state;
recovery looks at one campaign.

### 3.2 Runs

| run | instance | shows |
| --- | --- | --- |
| `email_safety` | 1 recipient, 1 extra job, 2 workers, 2 tries, 2 faults, 2 crashes; 2.7 million states up to the order of the workers | `TypeOK`, `AtMostOnce`, `CanceledStays`, `SentIsFinal` |
| `email_live` | 1 recipient, 2 extra jobs, 1 worker, 2 tries, 2 crashes, fair; 581 thousand | `QueuedIsPickedUp`, `CampaignSettles` |

*Bounds.* The safety properties speak of one recipient at a time, and recipients share only the
campaign's status, so one recipient with two jobs and two workers has every race between jobs
(production runs one worker process with concurrency 1: two workers are more than it needs, and what
holds of two holds of one). Two crashes end one job that stalls twice, or interrupt the API
and the worker. The theorems below remove the bounds. The liveness run keeps the one worker, and has
two extra jobs so that a retry meets the job of an earlier one. With two recipients it has millions
of states and does not end in minutes; the campaign's status then only waits for the last of them,
and what the tally makes of several statuses is not checked. A batch that holds every recipient
excludes the starvation listed as a hazard (`main.ts:842`: the batch is taken before exhausted
recipients are dropped).

*Fairness.* Weak fairness of each worker (the queue hands out its jobs), of enqueueing and of
requests under way (they run on unless the API crashes), and of the recovery (a repeated job, every
minute). None for retries and cancellations by an administrator, for evictions or crashes.

The exemptions in `QueuedIsPickedUp` and `CampaignSettles` are behaviours of the code that checking
found: a retry cut off between its transaction and its job, whose key the queue may still hold as
ended; a recipient one of whose jobs stalled twice (`StalledOut`); a recipient retried between the two
halves of a cancellation; a cancelled status overwritten
by a job that had counted before it.

### 3.3 Proofs (`EmailDeliveryProofs`)

From `EmailAssumption` (recipients are a finite set of numbers, disjoint from the extra jobs; tries,
rows and the batch are positive, faults and crashes any number), for every number of recipients,
jobs, workers, tries, faults and crashes:

- `TypeCorrect`: `TypeOK`.
- `MailedAtMostOnce == Spec => []AtMostOnce`: nobody is mailed twice unless the record lost an
  accepted mail.
- `CancelledForGood == Spec => CanceledStays`, `SentForGood == Spec => SentIsFinal`.

`AtMostOnce` is far from inductive. `IInv == TypeOK /\ JobsHeld /\ Claims /\ Begun /\ Charged`:
a busy worker holds an active job, and no two workers the same one (`JobsHeld`); between the claim
and its record a recipient is SENDING, and at most one worker is there (`Claims`); before the
campaign is queued no recipient has a status, and no job writes the campaign back to that point, so
that it is queued once (`Begun`); and the mails accepted are counted against the doubts (`Charged`):
no more than those unless the recipient is SENDING or SENT, and no more than those while a worker
has still to send or has just doubted, at most one more otherwise.
Each step is classified once (`StepKinds`) as `Quiet`, one that touches no claim, status or delivery, or as one of
the few that do, so that `Claims` and `Charged` are argued for those few only.

## 4. `MediaDeletion`

### 4.1 State and actions

`uploadAttachment` is five steps (file, check and store under the storage lock, failure, undo);
`requestMediaDeletion` and `retryMediaDeletion` a read, a transaction and a job each;
`deleteEncryptedChatMedia` the worker's steps from `Load` to `Commit`, with `Throws` and `Catch` for
its try block and `Uncaught` outside it; `reconcileStorage` a read and a store. A transaction is one
step unless it writes what it made of rows it read without a lock. An operation stands for its
idempotency key too. `lost` is history: operations that may be pending with no job to end them.

A statement or a removal may fail, and the commit of an upload or of a deletion may take effect
while its answer is lost (the upload's handler then removes the file of an active row; the
deletion's handler then reports a failure). One worker, concurrency one, as deployed.

Left out: sizes other than one, the totals per category (they are changed together with the total),
audit records; failing statements of API requests other than the upload (like a crash, they leave
what was done).

### 4.2 Runs

| run | instance | shows |
| --- | --- | --- |
| `media_safety` | 2 attachments, quota 1, 2 operations on one of them, 2 tries, a retry, a reconciliation, a crash, a fault; 2.6 million states | `ServedHasFile`, `CompletedIsGone`, `WithdrawnIsOpen`, `UploadsFit` |
| `media_live` | 1 attachment, 1 operation, 2 tries, 2 retries, 2 faults, a crash; 601 thousand | `DeletionsEnd` |

*Bounds.* Quota 1 with two uploads is the quota at its limit. Two operations on one attachment are
two administrators, or one and a retry; operations on different attachments share only the counter
and the worker, which the second upload exercises. The code's five tries become two: one that is
tried again and one that is the last.

*Fairness.* Weak fairness of the worker, of adding jobs and of the stores of requests under way.
None for uploads, requests, retries, reconciliations, evictions, crashes.

### 4.3 Proofs (`MediaDeletionProofs`)

From `MediaAssumption` (finitely many attachments, bounds as the code has them), for every number of
attachments, operations, tries, retries, reconciliations, crashes and faults: `TypeCorrect`,
`ServedAlways == Spec => []ServedHasFile`, `CompletedForGood == Spec => []CompletedIsGone`,
`NeverStranded == Spec => []WithdrawnIsOpen`, `QuotaHolds == Spec => []UploadsFit`.

`MediaInv == Typed /\ Asked /\ RowInv /\ ServedHasFile /\ GoneInv /\ OpenInv /\ Counted`. `Asked`
ties operations, requests and jobs to one attachment each. `RowInv` has two halves: an upload that
may still be stored has its file (`Uploads`), and nothing that somebody asked to delete is active or
becomes it (`Withdrawn`). `GoneInv` is what `CompletedIsGone` rests on: past the removal of the file
it stays removed while the worker reads and commits (`Removed`). `OpenInv` is what `WithdrawnIsOpen`
rests on: a worker that found its attachment deleted ends alone, and if the row was withdrawn again
since then another operation did that and is open (`GoneStays`). `Counted` says that before the first
deletion and the first reconciliation the counter is exact and leaves room for the one upload under
the lock; it is about cardinalities, from `FiniteSetTheorems`.

## 5. `ChatConversation` and `ChatDevices`

### 5.1 Conversations

`ChatConversation` follows one conversation, a group or a direct one, and the first message in it.
A handler is a request that reads, decides and writes later by row id, so two of them interleave
between read and write; consecutive reads are one step, as the earlier ones only decide on a refusal.

| actions | code |
| --- | --- |
| `GroupConversation`, `DirectConversation`, `Reopen` | `groupConversation`, `createDirectConversation`, `directConversation` |
| `TransferRead`, `DemoteStart`, `DemoteLock`, `TransferCommit` | `transferGroupOwnership`, whose transaction is read committed: its `updateMany` takes a snapshot, waits for row locks and evaluates its condition again |
| `AddRead/Write`, `RemoveRead/Write`, `LeaveRead/Write` | `addGroupParticipants`, `removeGroupParticipant`, `leaveGroup` |
| `DeleteRead/Write` | `deleteConversationForMe` |
| `SendRead`, `SendCommit` | `createMessage`, which also restores deleted rows |
| `EditKeys`, `EditRead`, `EditWrite`, `EraseRead/Write` | `editMessage`, `deleteMessageForEveryone` |
| `Block`, `Unblock` | `blockUser`, `unblockUser` |

`late` (became active after the keys of a payload were checked), `raced` (a write acted on a row
changed since it was read) and `edited` (an edit was written after the message was erased) are
history: they name the races the properties exempt.

Left out: receipts, reactions, pins, view-once openings, archiving, the names of groups, and the
socket events that announce all of this.

### 5.2 Devices and keys

`ChatDevices` is one member's devices and keys. `registerMyDeviceKey` (in its three modes) and
`revokeDevice` are transactions of two or three steps: what they read, the update that locks a row,
and the commit. The member's own exclude one another by an advisory lock on the member; an
administrator's revocation locks the device's id and so runs beside them (`EnrollmentFree`,
`RevocationFree`, `RowFree`). `SetLimit` is the governance setting. `peak`, `overlapped` and
`readmitted` are history. Left out: encrypted key backups and the encryption, which runs in the
browser.

### 5.3 Runs

| run | instance | shows |
| --- | --- | --- |
| `chat_conversation` | 3 members, 2 requests; 669 thousand states | `OneOwner`, `MessageReaders` |
| `chat_departure` | a group of 3, 2 requests | `RemovalEndsAccess`, violated |
| `chat_devices` | 3 devices (one of the first version), 3 keys, limits 1 and 2, 2 transactions; 728 thousand | `OneActiveKey`, `KeysMatchDevices`, `DeviceLimitHolds` |

`chat_departure` checks what the documentation site says (`feature-content.ts:2290`): "Leaving or
removal ends future conversation, key, attachment, message, and realtime access". The code does not
keep that: `createMessage` clears `deletedAt` of every other row of the conversation
(`chat.service.ts:484`), so a member who was removed or left is an active participant again with the
next message. TLC finds it in five steps; it is the finding of `PROJECT.json`. `ChatDeparture` notes
who departed, because `ChatConversation` does not tell a departure from a deletion for oneself,
where the return is intended.

*Bounds.* Three members are an owner, the one to be owner and one who is removed, invited or
reading; in `chat_conversation` `MinOthers` is 1 instead of the code's 2 so that groups of two, which
departures leave anyway, are reached with a member outside them. Two requests make every pair of handlers overlap.
Three devices against a limit of 2 are one too many, three keys a rotation after a rotation; two
transactions are the member's and an administrator's, or two administrators'.
*Fairness.* None: there are only safety properties.

### 5.4 Proofs (`ChatConversationProofs`)

For any members and requests, with no assumption on the constants: `TypeCorrect`,
`OwnerIsUnique == Spec => []OneOwner`, `ReadersHaveKeys == Spec => []MessageReaders`,
`OnlyMessagesRestore == Spec => ReturnsByMessage`: the return that `chat_departure` finds is the only
one there is; no step but the storing of another member's message makes a deleted row of a group
active again.

`ConversationInv == Typed /\ Beginning /\ Asked /\ Locks /\ OneRow /\ Payloads /\ MessageReaders`.
`OneOwner` looks at the rows only, but a transfer under way has decided earlier: it keeps exactly one
owner because the rows it has demoted and not committed are owners' rows it alone has locked
(`Locks`), and because the member it promotes by row id had a row when it was asked for, and rows are
never removed (`Asked`). `OneRow` is `OneOwner` without `Cardinality`. `MessageReaders` looks at the
stored message only; `Payloads` says of each payload whose keys were checked, and which is not yet
stored, what `MessageReaders` says of the message: it covers everybody active, but for those who
became active since.

### 5.5 Proofs (`ChatDevicesProofs`)

For any number of devices, keys, transactions and limits, from `DevicesAssumption` (devices of the
first version are devices, limits are positive numbers):

- `OneKey == Spec => []OneActiveKey`. `KeyInv` adds why a registration cannot make a second active
  key: the member's own transactions exclude one another (`Alone`, from the advisory lock), so that
  an initial registration of a new key still finds a member without keys when it stores (`FirstKey`)
  and a restore one whose key has a row (`KnownKeys`); a rotation retires what is active then.
  Administrators' revocations run beside all this and only touch keys that have a row.
- `LimitIsKept == Spec => []DeviceLimitHolds`. `LimitInv` says of a registration that is to store
  (`Counted`) that it found no row and the count is still below the peak, or found a row that is
  still there: its own transactions exclude one another, revocations only lower the count, and a row
  is gone only when a registration takes it over.
- `DevicesAndKeysMatch == Spec => []KeysMatchDevices`. `MatchInv`: until `overlapped` is set one
  transaction runs at a time (`Single`), so that what it read still stands when it writes
  (`ReadStands`), the count of the key's other devices included.

## 6. `Accounts`

### 6.1 State and actions

Who is a member with which role, which sessions exist, which sockets were opened with them, and the
requests of administrators and members under way. A request reads and decides (`SuspendRead`,
`RemoveRead`, `RoleRead`, `LoginRead`), writes by row id in a transaction (`SuspendWrite`, ...,
`LoginCreate`), and only then tells the registry of its process whose sockets to close (`Revoke`).
`Reset`, `RevokeOthers` and `EndSession` delete session rows and then revoke. A connecting socket
reads its session (`Connect`) and is registered after the await (`Register`); each message asks for
the session and the membership again (`Message`). `BreakGlass` is the command-line recovery, whose
registry is another process's. `ApiCrash` ends all sockets and requests.

`Apply`, `Readdress`, `Drop` and `Approve` are an application that exists for an address. An
application is refused for an address with an account; `Readdress` is a member whose change of
e-mail takes an applicant's address, which the change does not look for.

History: `stale` in a request (the set of active owners changed after it was counted), `excused`
(such a write removed an owner, or an approval demoted the only one), `late` in a socket (its
connection overlapped the revocation, or its session ended without one).

Left out: `updateMember` (profile fields), the permission matrix, credentials, second factors, rate
limits, passkeys; one community, as deployed.

### 6.2 Run

| run | instance | shows |
| --- | --- | --- |
| `accounts` | 2 users, 1 application at a time, 2 requests, 2 sessions, 1 socket; 701 thousand states | `OwnerStays`, `SocketsAreLive` |

*Bounds.* Two users are two owners who act on each other, or an owner and a member; two requests
are the two writes that race. Two sessions distinguish `revokeOtherSessions` from a reset. A socket
never reads another one's state, so one stands for all. More than one pending application adds only
users who have none of the rest.

### 6.3 Proofs (`AccountsProofs`)

`OwnerAlwaysStays == Spec => []OwnerStays`, for any number of users, applications, requests,
sessions and sockets, with no assumption on the constants. `OwnerStays` says that somebody is an
active owner unless a write that acted on a stale count, or an approval, took the last one away
(`excused`). It is not inductive: between `SuspendRead` and `SuspendWrite` it has to be known that
the request still counts right. `OwnerInv == Typed /\ OwnerStays /\ CountsStand`, where `Typed` is
the part of the types it needs and `CountsStand` says: a request that is to take a role away and is
not `stale` is not about the only active owner. Whatever changes the set of owners makes the other
requests stale (`AfterCounts`); a write is then either excused or leaves the owner its request had
counted. Steps are lemmas by kind: those that leave memberships and requests alone (`QuietStep`),
reads, writes, approvals and crashes.

`SocketsStayLive == Spec => []SocketsAreLive`, equally without assumptions. `SocketInv` says it of
sockets that are still being connected too (`Served`): one that a revocation misses there is marked
late. It also needs that the sockets of a session are all its user's, because a session's id is
never used again while a socket has it (`Kept`): a message on a dead socket deletes the row of its session,
which would otherwise end another one's.

## 7. `RecordKeeping`: e-mail changes, updates, rules, reminders

Four modules that share no state. `RecordKeeping` instantiates them and lets one of them move in a
behaviour, so that one TLC run checks all four: the reachable states are those of each module while
the others stay as they begin. It is a way to run them, not a claim about a shared component.

**`EmailChange`**: two users, four addresses, two requests, two request rows, two tokens per row.
`RequestRead`/`Create`, `PrimaryRead`/`Create`, `Resend`, `Cancel`, `VerifyRead`/`VerifyStore`,
`VerifyRead`/`PrimaryStore`, `PasswordReset`; `Mail` follows the commit and may never come. A
transaction is one step: the unique columns `activeUserId` and `activeNewEmail` make the second of
two writers fail, and `Create` is refused while a row has the user or the address. Two rows are one
replaced by the other, two tokens one replaced by a resend.

**`SystemUpdates`**: the updater is `HostUpdate`, `Lose` included, which section 2 shows the agent to
implement with cancellations. An answer carries the stage the host had when it was given and is
stored later (`Answer`, `ReadPrevious`, `Store`, `Audit`). `Cancel` asks the updater to cancel and
then reads the row (`CancelAsk`, `CancelRun`); a cancellation the updater accepted may lose the
run's record on the host at any later time, and then the updater may tell anything of it (`Told`).
The properties promise nothing of such a run (`Lost`), and keep their promises for one whose
cancellation was accepted and not late. One client races one timer round (an install, a refresh or a
cancellation under way beside a reconciliation); up to three failures and restarts. With two clients
this part alone has four million states. One run: a second one only adds rows that stay terminal.
`audited` counts to two, which stands for more. Fairness: the timer fires, and what is awaited
arrives (timeouts end the rest); nobody has to ask. `Fail` and `ApiRestart` are bounded, not fair.

**`AutomationRules`**: two edits at once over one rule of four columns (type, name, configuration,
the switch), up to three versions. Each edit keeps the rule as it read it (`seen`) and writes the
columns its statement has, without looking again: an update the type and the configuration as given
or as read, the name and the switch only if given; a publication all but the type; a rollback all;
restoring the switch; archiving none. The inputs include one that changes nothing (a rule dragged on
its canvas) and one that sets the switch. So two edits can leave a mix of columns; the version one
records is of the row as written (`Record`). `drifted` is history: columns were written without a
version over a rule changed since it was read. Left out: the layout, and how a configuration is
normalised by type.

**`Reminders`**: one task, one rule that repeats daily, one recipient; the hourly job and one retry
at a time, over a day boundary (`hour` 0 and 1: the local day begins at 1, the UTC day is unchanged).
Reminders with several recipients, of which some were told and some not, are not checked.

| run | instance | shows |
| --- | --- | --- |
| `record_keeping` | as above; 351 thousand states | `OldAddressTold`, `NewestTokenOnly`, `ResetCancels`; `OutcomeIsTheHosts`, `OutcomeAudited`, `MirrorSettles`; `RuleIsItsNewestVersion`; `OneMailPerKey` |

Left out: rate limits, the texts of mails, the audit of refused requests; release discovery and the
run's log; presets, templates, validation and statistics of rules.

### Proofs (`RecordKeepingProofs`)

The parts share nothing, so each has an invariant of its own, which the steps of the other three
leave alone. All hold for any users, addresses, rows, tokens, runs, timers, clients, configurations,
edits, executions and bounds, from `RecordKeepingAssumption` (every user has an address; rows
are numbered; a rule has its four columns, an input some of them, a draft all but the type).

- *`EmailChange`*: `OnlyTheNewest == Spec => NewestTokenOnly`, `NoticeGoesToOldAddress == Spec =>
  OldAddressTold`, `ResetIsFinal == Spec => ResetCancels`. `EmailInv`: rows are created in order, the
  active row of a user is his newest, it was made from the address he still has unless it was stale
  when it was created, and rows from before a reset are over. `AddressChanges` then lists the two
  steps that change an address, both of an active row with its own token.
- *`SystemUpdates`*: `ShownOutcomesAreTrue == Spec => []OutcomeIsTheHosts`, `OutcomesAreAudited ==
  Spec => []OutcomeAudited`. `UpdatesInv`: an answer under way that is an outcome is still the host's,
  because outcomes are not revised (`AnswersAreTrue`), but for a run the host has lost (`Kept`); an
  outcome in the row, or read from it by a request that has yet to store, is accounted for
  (`OutcomesAccounted`); and as long as no two answers about a run were under way at once, the row
  is what the one request read and never turns back, so that its outcome is audited once (`Alone`).
  Both are theorems over `HostUpdate` with `Lose`, so that `AgentImplementsHost` connects them to the
  agent without an assumption that nobody cancels.
- *`AutomationRules`*: `RulesAreVersioned == Spec => []RuleIsItsNewestVersion`. `RuleInv` adds that each
  column an edit read was in some version then (`SeenIsRecorded`); versions are never taken back. An
  edit that counts a version records the row it wrote; one that does not, over an unchanged rule,
  writes what is there; and over a changed one it is `drifted`.
- *`Reminders`*: `RemindersOnce == Spec => []OneMailPerKey`. `ReminderInv` adds that an execution that
  looked, found no campaign and is about to mail is the only one, and nothing was mailed under that
  key yet, unless two looked at once (`MailsAlone`).

`SystemUpdates` takes of `HostUpdate` the steps in which no outcome vanishes: the agent keeps 200
records and the instances here have far fewer runs.

## 8. Behaviours the models made visible

None of these is a property: they are what the code does, and the properties exempt them by name.

*Updater.* A cancellation can be answered with success and have no effect: the executor saves its own
copy of the record over the flag (`updater.ts:109`), while `updater.spec.ts:317` has cancellations
accepted "only in declared safe phases" and `updater.ts:457` ends a run "cancelled at a safe
checkpoint". The other way around, the cancellation saves the record it had loaded over a newer one
(`updater.ts:104`): a finished run is unfinished again, or a run that has migrated the database
looks as if it had not, and after a crash recovery calls it safe to retry (`overwritten`). Recovery removes the lock before it settles the run; a crash in between leaves a run
nobody will ever settle (`store.ts:16`, against `deploy/updater/SECURITY.md:16`). A backup that
cannot be pruned after COMPLETED was saved makes the handler put the old version back into `.env`
(`updater.ts:194`). An agent whose lock file was created and never filled does not start again
(`AgentReturns`). A verdict of recovery that was saved and could not be logged is revised
(`FollowsTransitions`).

*E-mail delivery.* A retry cut off between its transaction and its jobs may leave a recipient queued
under a key the queue holds as ended (`cut`). So may a job that stalls twice before its claim, after
two crashes of the worker: the recovery adds a job of the same id, which does nothing until the
queue has evicted the ended one, or does not look any more because three rows are used up.

*Media.* A reconciliation overwrites the usage counter with a total counted earlier, outside the lock
uploads take; an upload in between is forgotten and the quota exceeded (`chat.service.ts:1701`). A
worker that dies between the claim and the outcome leaves a deletion PROCESSING, which neither its
job nor the API takes up (`Orphaned`). A retry may find its key held by an ended job (`lost`).

*Chat.* A member who was removed from a group, or left it, is active again with the next message of
another member (`chat.service.ts:484`); the run `chat_departure` shows it against the documentation. Two
transfers at once can leave two owners, or one whose row is deleted; deleting the conversation for
oneself lets an owner go. An edit can put back the payload of a message erased for everyone. Devices
that were revoked come back without counting against the limit.

*Accounts.* Two owners who suspend, remove or demote each other, or both step down, at once leave
none; so does approving an application whose address has become the only owner's. A socket that connects
while its session is ended stays open until its next message.

*E-mail, updates, automation.* A request made from an address read before another change completed
sends its notice to that older address. The answer to an install can be lost: the host updates, and
the API has no row and never learns of it. An outcome that an install finds already over is never
audited; two answers under way at once can audit it twice. If a late cancellation has put a finished
run's record on the host back for good, its row stays active in the API and every further install is
refused with UPDATE_IN_PROGRESS (`Lost`). An edit of a rule that found nothing to change writes stale
columns back without a version, and beside an edit of all columns it can leave a mix of the two that
no version records (`drifted`). A retry's key has the UTC day and the job's the
local one: around midnight a reminder can go out twice in one local day; and two executions that
look for a campaign at once both create one.

## 9. What is proved, what is only checked

| property | TLC | TLAPS |
| --- | --- | --- |
| `Updater!TypeOK`, `HostLock` | yes | `TypeCorrect`, `MutualExclusion` |
| `RecordedFirst`, `OutcomeIsHonest`, `VersionRestored`, `EveryRunIsOwned`, `FollowsTransitions` | yes | `RecordBeforeEffect`, `HonestOutcomes`, `VersionIsRestored`, `NoRunIsLost`, `RecordsFollowTable` |
| `ImplementsHostUpdate` | yes | `AgentImplementsHost` |
| `EmailDelivery!TypeOK`, `AtMostOnce`, `CanceledStays`, `SentIsFinal` | yes | `TypeCorrect`, `MailedAtMostOnce`, `CancelledForGood`, `SentForGood` |
| `ServedHasFile`, `CompletedIsGone`, `WithdrawnIsOpen`, `UploadsFit` | yes | `ServedAlways`, `CompletedForGood`, `NeverStranded`, `QuotaHolds` |
| `OneOwner`, `MessageReaders` | yes | `OwnerIsUnique`, `ReadersHaveKeys` |
| `RemovalEndsAccess` | violated | `OnlyMessagesRestore`: the one way in which it is |
| `OneActiveKey`, `KeysMatchDevices`, `DeviceLimitHolds` | yes | `OneKey`, `DevicesAndKeysMatch`, `LimitIsKept` |
| `OwnerStays`, `SocketsAreLive` | yes | `OwnerAlwaysStays`, `SocketsStayLive` |
| `OldAddressTold`, `NewestTokenOnly`, `ResetCancels` | yes | `NoticeGoesToOldAddress`, `OnlyTheNewest`, `ResetIsFinal` |
| `OutcomeIsTheHosts`, `OutcomeAudited` | yes | `ShownOutcomesAreTrue`, `OutcomesAreAudited` |
| `RuleIsItsNewestVersion`, `OneMailPerKey` | yes | `RulesAreVersioned`, `RemindersOnce` |
| `InstallationsEnd`, `InterruptedRunsSettle`, `AgentReturns`, `QueuedIsPickedUp`, `CampaignSettles`, `DeletionsEnd`, `MirrorSettles` | yes | out of reach: liveness under fairness |

So every safety property of a passing run is a theorem, and every liveness property is checked on instances
only.

Every property of a passing run has a mutant in `PROJECT.json`: a plausible bug in one of the mapped
definitions, defined next to it, that makes the run fail with that property. `TypeOK` of
`MediaDeletion`, `ChatConversation`, `ChatDevices` and `Accounts` held when the modules were
developed and is not among the properties of the runs; that of the first two is proved
(`TypeCorrect`).

## 10. Not modelled

- *Release verification, chat encryption, signatures, the updater's signed channel*: cryptography
  and parsing, and one bounded map with a single client. The agent's model takes the verdict as a
  choice.
- *Event tasks and boards*: creation, update and ordering decide on one stale read, and the last
  write wins; nothing is promised about overlaps. Edit locks and presence are one map in one process.
- *Login streaks*: one serializable transaction that is tried three times.
- *Security retention, communities, audit, profile links, uploads*: single statements that may be
  repeated, or plain reads and writes.
- *Registration notices*: one campaign per key, looked up and then created, as in `Reminders`.
- *Web, documentation site, deployment scripts*: user interface and shell, most of the lines of the
  repository. Their texts are read as statements of what the API promises,
  `docker-compose.prod.yml` for the number of processes.

## 11. Plan

The modules of the plan are written and their safety properties proved. What is left:

1. `TypeOK` of `ChatDevices` and `Accounts` as theorems (the former needs that versions are numbered
   within the number of keys).
2. An abstract specification of a mail (queued, accepted, recorded) that `EmailDelivery` implements.
