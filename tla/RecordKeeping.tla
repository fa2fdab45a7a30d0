---------------------------- MODULE RecordKeeping ----------------------------
(***************************************************************************)
(* Four parts of the application that keep records and share none of them, *)
(* checked side by side: a behaviour is one of e-mail addresses, of the    *)
(* API's copy of the updater's runs, of the versions of an automation rule *)
(* or of its reminders, and leaves the other three as they begin.          *)
(***************************************************************************)
EXTENDS Naturals, Sequences

CONSTANTS
    Users, Addresses, Initial, Requests, Rows, Tokens,      \* EmailChange
    Runs, NoRun, Timers, Clients, MaxFailures,              \* SystemUpdates
    Values, First, Inputs, Drafts, Edits, MaxVersion,       \* AutomationRules
    RuleConfigs, Worker, Retries, LastHour                  \* Reminders

\* Every user has an address; rows are numbered as they are created. A rule has four
\* columns, an input some of them, a draft all but the type.
ASSUME RecordKeepingAssumption ==
    /\ Initial \in [Users -> Addresses]
    /\ Rows \subseteq Nat
    /\ "off" \in Values
    /\ First \in [{"type", "name", "config", "enabled"} -> Values]
    /\ \A input \in Inputs : /\ DOMAIN input \subseteq {"type", "name", "config", "enabled"}
                            /\ \A c \in DOMAIN input : input[c] \in Values
    /\ \A draft \in Drafts : /\ DOMAIN draft = {"name", "config", "enabled"}
                            /\ \A c \in DOMAIN draft : draft[c] \in Values

VARIABLES
    part,                                                   \* the one that moves
    email, verified, row, mailed, call, stale, reset,
    owner, stage, changed, mirror, audited, job, cancelled, failures, missed, raced,
    rule, versions, edit, drifted,
    live, run, notices, mails, failed, overlapped, hour

Email == INSTANCE EmailChange
Updates == INSTANCE SystemUpdates
Rule == INSTANCE AutomationRules
Reminder == INSTANCE Reminders

emailVars == <<email, verified, row, mailed, call, stale, reset>>
mirrorVars == <<owner, stage, changed, mirror, audited, job, cancelled, failures, missed, raced>>
ruleVars == <<rule, versions, edit, drifted>>
reminderVars == <<live, run, notices, mails, failed, overlapped, hour>>

Init ==
    /\ part \in {"email", "updates", "rule", "reminder"}
    /\ Email!EmailInit /\ Updates!UpdatesInit /\ Rule!RuleInit /\ Reminder!ReminderInit

Next ==
    \/ part = "email" /\ Email!EmailNext /\ UNCHANGED <<part, mirrorVars, ruleVars, reminderVars>>
    \/ part = "updates" /\ Updates!UpdatesNext /\ UNCHANGED <<part, emailVars, ruleVars, reminderVars>>
    \/ part = "rule" /\ Rule!RuleNext /\ UNCHANGED <<part, emailVars, mirrorVars, reminderVars>>
    \/ part = "reminder" /\ Reminder!ReminderNext /\ UNCHANGED <<part, emailVars, mirrorVars, ruleVars>>

Spec == Init /\ [][Next]_<<part, emailVars, mirrorVars, ruleVars, reminderVars>> /\ Updates!Fairness

-------------------------------------------------------------------------------
\* However requests, resent tokens and verifications overlap, only the newest
\* token of a user's newest request changes the address, no request from before
\* a password reset does, and the notice goes to the address that is replaced,
\* unless the request had read it before an earlier change was completed.
OldAddressTold == Email!OldAddressTold
NewestTokenOnly == Email!NewestTokenOnly
ResetCancels == Email!ResetCancels

\* The API shows an outcome of an update only if it is the host's; it audits each
\* once, but for the cases the definitions name; and it shows it in the end.
OutcomeIsTheHosts == Updates!OutcomeIsTheHosts
OutcomeAudited == Updates!OutcomeAudited
MirrorSettles == Updates!MirrorSettles

\* An automation rule is what its newest version says, however edits overlap, unless one
\* wrote stale columns without a version; and then each column is in some version.
RuleIsItsNewestVersion == Rule!RuleIsItsNewestVersion

\* A reminder is mailed once per key, unless two executions looked at once.
OneMailPerKey == Reminder!OneMailPerKey

\* The addresses at first; a rule, updates of it (one that drags the rule on its canvas and
\* one that switches it off among them) and a draft.
FirstAddresses == <<"a", "b">>
FirstRule == [type |-> "due", name |-> "m", config |-> "a", enabled |-> "on"]
SomeInputs == {<<>>, [enabled |-> "off"], [name |-> "n", config |-> "b"],
             [type |-> "overdue", config |-> "b"]}
SomeDrafts == {[name |-> "m", config |-> "b", enabled |-> "on"]}
==============================================================================
