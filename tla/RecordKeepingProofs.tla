-------------------------- MODULE RecordKeepingProofs --------------------------
(***************************************************************************)
(* Theorems about the four parts of RecordKeeping, for any users, rows,    *)
(* runs, rules and keys.  The parts share nothing, so each has an          *)
(* invariant of its own, which the steps of the other three leave alone.   *)
(***************************************************************************)
EXTENDS RecordKeeping, TLAPS

allVars == <<part, emailVars, mirrorVars, ruleVars, reminderVars>>

-------------------------------------------------------------------------------
(***************************************************************************)
(* Reminders: a key is mailed again only if two executions looked for it   *)
(* at once.  One that found no campaign and has not stored its own is the  *)
(* only one to do so, and no campaign came meanwhile; or else the key was  *)
(* overlapped when the later of the two looked.                            *)
(***************************************************************************)
Execution == [pc : {"idle", "retry", "check", "notify", "checkMail", "lookup", "mail"},
              config : RuleConfigs \cup {"off"}, key : Nat, told : BOOLEAN]

ReminderTyped ==
    /\ live \in RuleConfigs \cup {"off"} /\ hour \in Nat
    /\ run \in [Reminder!Execs -> Execution]
    /\ mails \in [Reminder!Days -> Nat]
    /\ failed \in BOOLEAN

\* The executions that looked, found nothing, and are about to mail the key.
Mailing(x, k) == run[x].pc = "mail" /\ run[x].key = k

MailsAlone ==
    \A x \in Reminder!Execs, k \in Nat :
        Mailing(x, k) => \/ k \in overlapped
                         \/ /\ \A y \in Reminder!Execs \ {x} : ~Mailing(y, k)
                            /\ k \in Reminder!Days => mails[k] = 0

ReminderInv == ReminderTyped /\ MailsAlone /\ OneMailPerKey

LEMMA ReminderInit == Reminder!ReminderInit => ReminderInv
<1> SUFFICES ASSUME Reminder!ReminderInit PROVE ReminderInv
  OBVIOUS
<1> USE DEF Reminder!ReminderInit, Reminder!Resting
<1>1. ReminderTyped BY DEF ReminderTyped, Execution
<1>2. MailsAlone BY DEF MailsAlone, Mailing
<1>3. \A k \in Reminder!Days : mails[k] = 0 OBVIOUS
<1>4. OneMailPerKey BY <1>3 DEF OneMailPerKey, Reminder!OneMailPerKey
<1> QED BY <1>1, <1>2, <1>4 DEF ReminderInv

\* An execution goes on: nothing else of the executions changes.
LEMMA ExecIs ==
    ASSUME ReminderTyped, NEW x \in Reminder!Execs, NEW n \in Execution,
           Reminder!Exec(x, n)
    PROVE  /\ run' \in [Reminder!Execs -> Execution] /\ run'[x] = n
           /\ \A y \in Reminder!Execs \ {x} : run'[y] = run[y]
BY DEF ReminderTyped, Reminder!Exec

LEMMA RestIs ==
    /\ Reminder!Resting \in Execution /\ Reminder!Resting.pc = "idle"
BY DEF Reminder!Resting, Execution

LEMMA GotoIs ==
    ASSUME ReminderTyped, NEW x \in Reminder!Execs, Reminder!Goto(x, "mail") 
    PROVE  /\ run' \in [Reminder!Execs -> Execution]
           /\ run'[x].pc = "mail" /\ run'[x].key = run[x].key
           /\ \A y \in Reminder!Execs \ {x} : run'[y] = run[y]
<1> DEFINE q == run[x]
           n == [q EXCEPT !.pc = "mail"]
<1>1. q \in Execution BY DEF ReminderTyped
<1>2. Reminder!Exec(x, n) BY DEF Reminder!Goto
<1> HIDE DEF q
<1>3. n \in Execution /\ n.pc = "mail" /\ n.key = q.key BY <1>1 DEF Execution
<1> HIDE DEF n
<1> QED BY <1>2, <1>3, ExecIs DEF q

\* Steps of an execution that neither looks nor stores a campaign.
LEMMA QuietStep ==
    ASSUME ReminderInv, NEW x \in Reminder!Execs,
           run' \in [Reminder!Execs -> Execution], run'[x].pc # "mail",
           \A y \in Reminder!Execs \ {x} : run'[y] = run[y],
           UNCHANGED <<mails, overlapped, live, hour>>, failed' \in BOOLEAN
    PROVE  ReminderInv'
<1> USE DEF ReminderInv
<1>1. ReminderTyped' BY DEF ReminderTyped, Reminder!Days
<1>2. MailsAlone' BY DEF MailsAlone, Mailing, Reminder!Days
<1>3. OneMailPerKey' BY DEF OneMailPerKey, Reminder!OneMailPerKey
<1> QED BY <1>1, <1>2, <1>3

LEMMA ReminderStep == ReminderInv /\ Reminder!ReminderNext => ReminderInv'
<1> SUFFICES ASSUME ReminderInv, Reminder!ReminderNext PROVE ReminderInv'
  OBVIOUS
<1> USE DEF ReminderInv
<1>1. CASE Reminder!WorkerRead
  <2> DEFINE day == Reminder!LocalDay
             n == [Reminder!Resting EXCEPT !.pc = "check", !.config = live, !.key = day]
  <2>1. n \in Execution /\ n.pc = "check"
    <3>1. hour \in Nat /\ live \in RuleConfigs \cup {"off"} BY DEF ReminderTyped
    <3>2. day \in Nat BY <3>1 DEF Reminder!LocalDay
    <3> HIDE DEF day
    <3> QED BY <3>1, <3>2 DEF Execution, Reminder!Resting
  <2>2. Reminder!Exec(Worker, n) /\ Worker \in Reminder!Execs
    BY <1>1 DEF Reminder!WorkerRead, Reminder!Execs
  <2>3. UNCHANGED <<mails, overlapped, live, hour>> /\ failed' \in BOOLEAN
    BY <1>1 DEF Reminder!WorkerRead, ReminderTyped
  <2> HIDE DEF n
  <2> QED BY <2>1, <2>2, <2>3, ExecIs, QuietStep
<1>2. ASSUME NEW x \in Retries, Reminder!RetryRead(x) PROVE ReminderInv'
  <2> DEFINE day == Reminder!UtcDay
             n == [Reminder!Resting EXCEPT !.pc = "retry", !.config = live, !.key = day]
  <2>1. n \in Execution /\ n.pc = "retry"
    <3>1. hour \in Nat /\ live \in RuleConfigs \cup {"off"} BY DEF ReminderTyped
    <3>2. day \in Nat BY <3>1 DEF Reminder!UtcDay
    <3> HIDE DEF day
    <3> QED BY <3>1, <3>2 DEF Execution, Reminder!Resting
  <2>2. Reminder!Exec(x, n) /\ x \in Reminder!Execs
    BY <1>2 DEF Reminder!RetryRead, Reminder!Execs
  <2>3. UNCHANGED <<mails, overlapped, live, hour>> /\ failed' \in BOOLEAN
    BY <1>2 DEF Reminder!RetryRead, ReminderTyped
  <2> HIDE DEF n
  <2> QED BY <2>1, <2>2, <2>3, ExecIs, QuietStep
<1>3. ASSUME NEW x \in Reminder!Execs,
             Reminder!Check(x) \/ Reminder!Notify(x) \/ Reminder!MailFails(x) \/ Reminder!Fail(x)
      PROVE  ReminderInv'
  <2>1. UNCHANGED <<mails, overlapped, live, hour>> /\ failed' \in BOOLEAN
    BY <1>3 DEF Reminder!Check, Reminder!Notify, Reminder!MailFails, Reminder!Fail, ReminderTyped
  <2>2. PICK n \in Execution : n.pc # "mail" /\ Reminder!Exec(x, n)
    <3> DEFINE q == run[x]
    <3>1. q \in Execution BY DEF ReminderTyped
    <3>2. CASE Reminder!Check(x)
      <4> DEFINE pc == Reminder!AfterCheck(q.pc)
                 m == [q EXCEPT !.pc = pc]
      <4>1. Reminder!Exec(x, m) \/ Reminder!Exec(x, Reminder!Resting)
        BY <3>2 DEF Reminder!Check, Reminder!Goto
      <4>2. pc \in {"check", "notify", "lookup"}
        BY <3>2 DEF Reminder!Check, Reminder!AfterCheck
      <4> HIDE DEF pc, q
      <4>3. m \in Execution /\ m.pc # "mail" BY <3>1, <4>2 DEF Execution
      <4> HIDE DEF m
      <4> QED BY <4>1, <4>3, RestIs
    <3>3. CASE Reminder!Notify(x)
      <4> DEFINE m == [q EXCEPT !.pc = "checkMail", !.told = q.key \notin notices]
      <4>1. Reminder!Exec(x, m) BY <3>3 DEF Reminder!Notify
      <4> HIDE DEF q
      <4>2. m \in Execution /\ m.pc # "mail" BY <3>1 DEF Execution
      <4> HIDE DEF m
      <4> QED BY <4>1, <4>2
    <3>4. CASE Reminder!MailFails(x) \/ Reminder!Fail(x)
      BY <3>4, RestIs DEF Reminder!MailFails, Reminder!Fail
    <3> QED BY <1>3, <3>2, <3>3, <3>4
  <2> QED BY <2>1, <2>2, ExecIs, QuietStep
<1>4. ASSUME NEW x \in Reminder!Execs, Reminder!Lookup(x) PROVE ReminderInv'
  <2>1. run[x] \in Execution /\ UNCHANGED <<mails, live, hour, failed>>
    BY <1>4 DEF Reminder!Lookup, ReminderTyped
  <2>2. overlapped' = overlapped \cup
          {k \in {run[x].key} : \E y \in Reminder!Execs \ {x} : Mailing(y, k)}
    BY <1>4 DEF Reminder!Lookup, Mailing
  <2>3. OneMailPerKey'
    BY <2>1, <2>2 DEF OneMailPerKey, Reminder!OneMailPerKey
  <2>4. CASE Reminder!HasMail(x)
    <3>1. /\ run' \in [Reminder!Execs -> Execution] /\ run'[x].pc # "mail"
          /\ \A y \in Reminder!Execs \ {x} : run'[y] = run[y]
      BY <1>4, <2>4, ExecIs, RestIs DEF Reminder!Lookup
    <3>2. ReminderTyped' BY <2>1, <3>1 DEF ReminderTyped
    <3>3. MailsAlone' BY <2>1, <2>2, <3>1 DEF MailsAlone, Mailing
    <3> QED BY <2>3, <3>2, <3>3
  <2>5. CASE ~Reminder!HasMail(x)
    <3>1. /\ run' \in [Reminder!Execs -> Execution]
          /\ run'[x].pc = "mail" /\ run'[x].key = run[x].key
          /\ \A y \in Reminder!Execs \ {x} : run'[y] = run[y]
      BY <1>4, <2>5, GotoIs DEF Reminder!Lookup
    <3>2. ReminderTyped' BY <2>1, <3>1 DEF ReminderTyped
    <3>3. run[x].key \in Reminder!Days => mails[run[x].key] = 0
      <4>1. run[x].key \in Reminder!Days => mails[run[x].key] \in Nat
        BY DEF ReminderTyped
      <4> QED BY <2>5, <4>1 DEF Reminder!HasMail
    <3>4. ASSUME NEW y \in Reminder!Execs, NEW k \in Nat, Mailing(y, k)'
          PROVE  \/ k \in overlapped'
                 \/ /\ \A z \in Reminder!Execs \ {y} : ~Mailing(z, k)'
                    /\ k \in Reminder!Days => mails'[k] = 0
      <4>1. CASE k = run[x].key /\ \E z \in Reminder!Execs \ {x} : Mailing(z, k)
        BY <2>2, <4>1
      <4>2. CASE k = run[x].key /\ ~\E z \in Reminder!Execs \ {x} : Mailing(z, k)
        BY <2>1, <3>1, <3>3, <3>4, <4>2 DEF Mailing
      <4>3. CASE k # run[x].key
        BY <2>1, <2>2, <3>1, <3>4, <4>3 DEF Mailing, MailsAlone
      <4> QED BY <4>1, <4>2, <4>3
    <3>5. MailsAlone' BY <2>1, <3>4 DEF MailsAlone, Reminder!Days
    <3> QED BY <2>3, <3>2, <3>5
  <2> QED BY <2>4, <2>5
<1>5. ASSUME NEW x \in Reminder!Execs, Reminder!Mail(x) PROVE ReminderInv'
  <2> DEFINE key == run[x].key
  <2>1. run[x] \in Execution /\ Mailing(x, key) /\ key \in Nat
    BY <1>5 DEF Reminder!Mail, ReminderTyped, Mailing, Execution
  <2>2. /\ run' \in [Reminder!Execs -> Execution] /\ run'[x].pc # "mail"
        /\ \A y \in Reminder!Execs \ {x} : run'[y] = run[y]
    BY <1>5, ExecIs, RestIs DEF Reminder!Mail
  <2>3. /\ UNCHANGED <<live, hour, overlapped>> /\ failed' \in BOOLEAN
        /\ mails' = [mails EXCEPT ![key] = @ + 1]
    <3>1. failed' \in {failed, failed \/ ~run[x].told \/ x = Worker}
      BY <1>5 DEF Reminder!Mail
    <3>2. failed' \in BOOLEAN BY <3>1 DEF ReminderTyped
    <3> QED BY <1>5, <3>2 DEF Reminder!Mail
  <2> HIDE DEF key
  <2>4. /\ mails' \in [Reminder!Days -> Nat]
        /\ \A k \in Reminder!Days : mails'[k] = IF k = key THEN mails[k] + 1 ELSE mails[k]
    <3>1. mails \in [Reminder!Days -> Nat] BY DEF ReminderTyped
    <3>2. mails' = [mails EXCEPT ![key] = mails[key] + 1] BY <2>3
    <3>3. \A k \in Reminder!Days : mails'[k] = IF k = key THEN mails[k] + 1 ELSE mails[k]
      BY <3>1, <3>2
    <3>4. DOMAIN mails' = Reminder!Days /\ mails' = [k \in Reminder!Days |-> mails'[k]]
      BY <3>1, <3>2
    <3>5. \A k \in Reminder!Days : mails'[k] \in Nat BY <3>1, <3>3
    <3> QED BY <3>3, <3>4, <3>5
  <2>5. ReminderTyped' BY <2>2, <2>3, <2>4 DEF ReminderTyped
  <2>6. OneMailPerKey'
    <3>1. ASSUME NEW k \in Reminder!Days, mails'[k] > 1 PROVE k \in overlapped
      <4>1. CASE k = key
        <5>1. key \notin overlapped => mails[k] = 0 BY <2>1, <4>1 DEF MailsAlone
        <5> QED BY <2>4, <3>1, <4>1, <5>1
      <4>2. CASE k # key
        BY <2>4, <3>1, <4>2 DEF OneMailPerKey, Reminder!OneMailPerKey
      <4> QED BY <4>1, <4>2
    <3> QED BY <2>3, <3>1 DEF OneMailPerKey, Reminder!OneMailPerKey, Reminder!Days
  <2>7. MailsAlone'
    <3>1. \A y \in Reminder!Execs \ {x} : Mailing(y, key) => key \in overlapped
      BY <2>1 DEF MailsAlone
    <3> QED BY <2>2, <2>3, <2>4, <3>1 DEF MailsAlone, Mailing
  <2> QED BY <2>5, <2>6, <2>7
<1>6. CASE Reminder!Set \/ Reminder!Tick
  <2>1. UNCHANGED <<run, mails, failed, overlapped>>
    BY <1>6 DEF Reminder!Set, Reminder!Tick
  <2>2. live' \in RuleConfigs \cup {"off"} /\ hour' \in Nat
    <3>1. live \in RuleConfigs \cup {"off"} /\ hour \in Nat BY DEF ReminderTyped
    <3>2. CASE Reminder!Set BY <3>1, <3>2 DEF Reminder!Set
    <3>3. CASE Reminder!Tick
      <4>1. live' = live /\ hour' = hour + 1 BY <3>3 DEF Reminder!Tick
      <4> QED BY <3>1, <4>1
    <3> QED BY <1>6, <3>2, <3>3
  <2> QED
    BY <2>1, <2>2 DEF ReminderTyped, MailsAlone, Mailing, OneMailPerKey, Reminder!OneMailPerKey
<1> QED BY <1>1, <1>2, <1>3, <1>4, <1>5, <1>6 DEF Reminder!ReminderNext

\* A reminder has one e-mail campaign per key, unless two executions looked for
\* it at once: whatever fails, is retried, or is cut off after it was stored.
THEOREM RemindersOnce == Spec => []OneMailPerKey
<1>1. Init => ReminderInv BY ReminderInit DEF Init
<1>2. ReminderInv /\ [Next]_allVars => ReminderInv'
  <2> SUFFICES ASSUME ReminderInv, [Next]_allVars PROVE ReminderInv'
    OBVIOUS
  <2>1. CASE Reminder!ReminderNext BY <2>1, ReminderStep
  <2>2. CASE UNCHANGED reminderVars
    BY <2>2 DEF reminderVars, ReminderInv, ReminderTyped, MailsAlone, Mailing,
       OneMailPerKey, Reminder!OneMailPerKey
  <2> QED BY <2>1, <2>2 DEF Next, allVars
<1>3. ReminderInv => OneMailPerKey BY DEF ReminderInv
<1> QED BY <1>1, <1>2, <1>3, PTL DEF Spec, allVars
-------------------------------------------------------------------------------
(***************************************************************************)
(* Automation rules: an edit that finds nothing to change writes columns   *)
(* as it read them, however long ago.  What it read was recorded then, and *)
(* versions are never taken back; and if the rule has not changed since,   *)
(* it does not change now.  Every other edit records the row it wrote.     *)
(***************************************************************************)
Row == [Rule!Columns -> Values]
RuleRow == [now : Row, archived : BOOLEAN, version : Nat, draft : SUBSET Drafts]
EditState == [op : {"idle", "update", "publish", "rollback", "archive", "restore"},
              seen : Row, want : Row, columns : SUBSET Rule!Columns]

RecordedIn(all, q) == \A c \in Rule!Columns : \E v \in DOMAIN all : all[v][c] = q[c]

RuleTyped ==
    /\ rule \in RuleRow
    /\ versions \in Seq(Row)
    /\ edit \in [Edits -> EditState]

SeenIsRecorded ==
    RecordedIn(versions, First) /\ \A e \in Edits : RecordedIn(versions, edit[e].seen)

RuleInv == RuleTyped /\ SeenIsRecorded /\ RuleIsItsNewestVersion

LEMMA FirstIs == First \in Row /\ Rule!NoEdit \in EditState /\ Rule!NoEdit.seen = First
<1>1. First \in Row BY RecordKeepingAssumption DEF Row, Rule!Columns
<1> QED BY <1>1 DEF Rule!NoEdit, EditState

\* Columns of a row are replaced by what an input, a draft or another row holds.
LEMMA ReplaceIs ==
    ASSUME NEW q \in Row, NEW columns \in SUBSET Rule!Columns, NEW by,
           \A c \in columns : by[c] \in Values
    PROVE  /\ Rule!Replace(q, columns, by) \in Row
           /\ \A c \in Rule!Columns :
                 Rule!Replace(q, columns, by)[c] = IF c \in columns THEN by[c] ELSE q[c]
BY DEF Rule!Replace, Row

LEMMA RuleInit == Rule!RuleInit => RuleInv
<1> SUFFICES ASSUME Rule!RuleInit PROVE RuleInv
  OBVIOUS
<1>1. rule \in RuleRow /\ rule.now = First /\ rule.version = 1
  BY FirstIs DEF Rule!RuleInit, Rule!NoDraft, RuleRow
<1>2. versions = <<First>> /\ edit = [e \in Edits |-> Rule!NoEdit] /\ drifted = FALSE
  BY DEF Rule!RuleInit
<1>3. versions \in Seq(Row) /\ Len(versions) = 1 /\ versions[1] = First /\ 1 \in DOMAIN versions
  BY <1>2, FirstIs
<1>4. RuleTyped BY <1>1, <1>2, <1>3, FirstIs DEF RuleTyped
<1>5. RecordedIn(versions, First) BY <1>3 DEF RecordedIn
<1>6. SeenIsRecorded BY <1>2, <1>5, FirstIs DEF SeenIsRecorded
<1>7. RuleIsItsNewestVersion
  BY <1>1, <1>3, <1>5 DEF RecordedIn, RuleIsItsNewestVersion, Rule!RuleIsItsNewestVersion
<1> QED BY <1>4, <1>6, <1>7 DEF RuleInv

\* An edit reads the rule: what it saw is recorded.
LEMMA ReadIs ==
    ASSUME RuleInv, NEW e \in Edits, NEW want \in Row, NEW columns \in SUBSET Rule!Columns,
           NEW op \in {"update", "publish", "rollback", "archive", "restore"},
           Rule!Read(e, op, want, columns)
    PROVE  RuleInv'
<1> USE DEF RuleInv
<1> DEFINE seen == rule.now
           n == [op |-> op, seen |-> seen, want |-> want, columns |-> columns]
<1>1. edit' = [edit EXCEPT ![e] = n] /\ UNCHANGED <<rule, versions, drifted>>
  BY DEF Rule!Read
<1>2. seen \in Row BY DEF RuleTyped, RuleRow
<1>3. RecordedIn(versions, seen)
  BY DEF RecordedIn, RuleIsItsNewestVersion, Rule!RuleIsItsNewestVersion
<1> HIDE DEF seen
<1>4. n \in EditState /\ n.seen = seen BY <1>2 DEF EditState
<1> HIDE DEF n
<1>5. RuleTyped' BY <1>1, <1>4 DEF RuleTyped
<1>6. SeenIsRecorded' BY <1>1, <1>3, <1>4 DEF RuleTyped, SeenIsRecorded, RecordedIn
<1>7. RuleIsItsNewestVersion' BY <1>1 DEF RuleIsItsNewestVersion, Rule!RuleIsItsNewestVersion
<1> QED BY <1>5, <1>6, <1>7

\* The row an edit leaves: the columns it writes, as it wants them.
LEMMA AfterIs ==
    ASSUME RuleInv, NEW e \in Edits
    PROVE  /\ Rule!After(e) \in RuleRow /\ Rule!After(e).version = rule.version
           /\ \A c \in Rule!Columns : Rule!After(e).now[c] =
                 IF c \in edit[e].columns THEN edit[e].want[c] ELSE rule.now[c]
<1> USE DEF RuleInv
<1> DEFINE now == Rule!Replace(rule.now, edit[e].columns, edit[e].want)
           arch == IF edit[e].op \in {"archive", "restore"} THEN edit[e].op = "archive"
                   ELSE rule.archived
           draft == IF edit[e].op = "publish" THEN Rule!NoDraft ELSE rule.draft
<1>1. Rule!After(e) = [now |-> now, archived |-> arch, version |-> rule.version, draft |-> draft]
  BY DEF Rule!After
<1>2. rule.now \in Row /\ rule.version \in Nat /\ rule.archived \in BOOLEAN /\ rule.draft \in SUBSET Drafts
  BY DEF RuleTyped, RuleRow
<1>3. edit[e].columns \in SUBSET Rule!Columns /\ edit[e].want \in Row
  BY DEF RuleTyped, EditState
<1>4. /\ now \in Row
      /\ \A c \in Rule!Columns : now[c] =
            IF c \in edit[e].columns THEN edit[e].want[c] ELSE rule.now[c]
  BY <1>2, <1>3, ReplaceIs DEF Row
<1>5. arch \in BOOLEAN BY <1>2, Zenon
<1>6. draft \in SUBSET Drafts BY <1>2 DEF Rule!NoDraft
<1> HIDE DEF now, arch, draft
<1> QED BY <1>1, <1>2, <1>4, <1>5, <1>6 DEF RuleRow

\* An edit writes and records a version: the versions before it stay.
LEMMA VersionedStep ==
    ASSUME RuleInv, NEW e \in Edits, NEW next \in RuleRow, next.version = rule.version,
           rule' = [next EXCEPT !.version = @ + 1], versions' = Append(versions, next.now),
           drifted' = FALSE, edit' = [edit EXCEPT ![e] = Rule!NoEdit]
    PROVE  RuleInv'
<1> USE DEF RuleInv
<1> DEFINE new == next.now
<1>1. rule' \in RuleRow /\ rule'.version = rule.version + 1 /\ rule'.now = new
  BY DEF RuleRow
<1>2. new \in Row /\ versions \in Seq(Row) BY DEF RuleRow, RuleTyped
<1> HIDE DEF new
<1>3. /\ versions' \in Seq(Row) /\ Len(versions') = Len(versions) + 1
      /\ \A v \in DOMAIN versions : v \in DOMAIN versions' /\ versions'[v] = versions[v]
      /\ Len(versions') \in DOMAIN versions' /\ versions'[Len(versions')] = new
  BY <1>2 DEF new
<1>4. RuleTyped' BY <1>1, <1>3, FirstIs DEF RuleTyped
<1>5. SeenIsRecorded'
  <2>1. \A q : RecordedIn(versions, q) => RecordedIn(versions', q) BY <1>3 DEF RecordedIn
  <2>2. \A x \in Edits : RecordedIn(versions', edit'[x].seen)
    <3> TAKE x \in Edits
    <3>1. RecordedIn(versions, edit'[x].seen)
      BY FirstIs DEF RuleTyped, SeenIsRecorded
    <3> QED BY <2>1, <3>1
  <2>3. RecordedIn(versions', First) BY <2>1 DEF SeenIsRecorded
  <2> QED BY <2>2, <2>3 DEF SeenIsRecorded
<1>6. RuleIsItsNewestVersion'
  <2>1. Len(versions') = rule'.version
    BY <1>1, <1>3 DEF RuleIsItsNewestVersion, Rule!RuleIsItsNewestVersion
  <2> QED BY <1>1, <1>3, <2>1 DEF RuleIsItsNewestVersion, Rule!RuleIsItsNewestVersion
<1> QED BY <1>4, <1>5, <1>6

\* A step that records no version leaves columns that versions hold.
LEMMA UnversionedStep ==
    ASSUME RuleInv, rule' \in RuleRow, rule'.version = rule.version, versions' = versions,
           edit' = edit \/ \E e \in Edits : edit' = [edit EXCEPT ![e] = Rule!NoEdit],
           \A c \in Rule!Columns : \/ rule'.now[c] = rule.now[c]
                                   \/ \E e \in Edits : rule'.now[c] = edit[e].seen[c],
           ~drifted' => ~drifted /\ rule'.now = rule.now
    PROVE  RuleInv'
<1> USE DEF RuleInv
<1>1. RuleTyped' BY FirstIs DEF RuleTyped
<1>2. SeenIsRecorded' BY FirstIs DEF RuleTyped, SeenIsRecorded, RecordedIn
<1>3. RecordedIn(versions, rule'.now)
  BY DEF SeenIsRecorded, RecordedIn, RuleIsItsNewestVersion, Rule!RuleIsItsNewestVersion
<1>4. RuleIsItsNewestVersion'
  BY <1>3 DEF RecordedIn, RuleIsItsNewestVersion, Rule!RuleIsItsNewestVersion
<1> QED BY <1>1, <1>2, <1>4

LEMMA WriteStep ==
    ASSUME RuleInv, NEW e \in Edits, Rule!Write(e)
    PROVE  RuleInv'
<1> DEFINE next == Rule!After(e)
<1>1. /\ next \in RuleRow /\ next.version = rule.version
      /\ \A c \in Rule!Columns : next.now[c] =
            IF c \in edit[e].columns THEN edit[e].want[c] ELSE rule.now[c]
  BY AfterIs
<1>2. edit' = [edit EXCEPT ![e] = Rule!NoEdit] BY DEF Rule!Write
<1>3. CASE Rule!Counts(e)
  <2>1. /\ rule' = [next EXCEPT !.version = @ + 1] /\ versions' = Append(versions, next.now)
        /\ drifted' = FALSE
    BY <1>3 DEF Rule!Write, Rule!Record
  <2> HIDE DEF next
  <2> QED BY <1>1, <1>2, <2>1, VersionedStep
<1>4. CASE ~Rule!Counts(e)
  <2>1. /\ rule' = next /\ versions' = versions
        /\ drifted' = (drifted \/ edit[e].seen # rule.now)
    BY <1>4 DEF Rule!Write
  <2>2. edit[e].want = edit[e].seen BY <1>4 DEF Rule!Counts
  <2> HIDE DEF next
  <2>3. rule'.now \in Row /\ rule.now \in Row
    BY <1>1, <2>1 DEF RuleRow, RuleInv, RuleTyped
  <2>4. ~drifted' => ~drifted /\ rule'.now = rule.now
    <3> SUFFICES ASSUME ~drifted' PROVE ~drifted /\ rule'.now = rule.now
      OBVIOUS
    <3>1. ~drifted /\ edit[e].seen = rule.now BY <2>1
    <3>2. \A c \in Rule!Columns : rule'.now[c] = rule.now[c] BY <1>1, <2>1, <2>2, <3>1
    <3> QED BY <2>3, <3>1, <3>2 DEF Row
  <2> QED BY <1>1, <1>2, <2>1, <2>2, <2>4, UnversionedStep
<1> QED BY <1>3, <1>4

LEMMA RuleStep == RuleInv /\ Rule!RuleNext => RuleInv'
<1> SUFFICES ASSUME RuleInv, Rule!RuleNext PROVE RuleInv'
  OBVIOUS
<1>1. /\ rule \in RuleRow /\ rule.now \in Row /\ rule.draft \subseteq Drafts
      /\ \A v \in DOMAIN versions : versions[v] \in Row
  BY DEF RuleInv, RuleTyped, RuleRow
<1>2. ASSUME NEW e \in Edits, Rule!UpdateRead(e) PROVE RuleInv'
  <2>1. PICK input \in Inputs :
          Rule!Read(e, "update", Rule!Replace(rule.now, DOMAIN input, input),
                    {"type", "config"} \cup DOMAIN input)
    BY <1>2 DEF Rule!UpdateRead
  <2>2. DOMAIN input \in SUBSET Rule!Columns /\ \A c \in DOMAIN input : input[c] \in Values
    BY RecordKeepingAssumption DEF Rule!Columns
  <2>3. Rule!Replace(rule.now, DOMAIN input, input) \in Row BY <1>1, <2>2, ReplaceIs
  <2>4. {"type", "config"} \cup DOMAIN input \in SUBSET Rule!Columns BY <2>2 DEF Rule!Columns
  <2> QED BY <2>1, <2>3, <2>4, ReadIs
<1>3. ASSUME NEW e \in Edits, Rule!PublishRead(e) PROVE RuleInv'
  <2>1. PICK draft \in rule.draft :
          Rule!Read(e, "publish", Rule!Replace(rule.now, DOMAIN draft, draft), DOMAIN draft)
    BY <1>3 DEF Rule!PublishRead
  <2>2. DOMAIN draft \in SUBSET Rule!Columns /\ \A c \in DOMAIN draft : draft[c] \in Values
    BY <1>1, RecordKeepingAssumption DEF Rule!Columns
  <2>3. Rule!Replace(rule.now, DOMAIN draft, draft) \in Row BY <1>1, <2>2, ReplaceIs
  <2> QED BY <2>1, <2>2, <2>3, ReadIs
<1>4. ASSUME NEW e \in Edits, Rule!RollbackRead(e) \/ Rule!ArchiveRead(e) PROVE RuleInv'
  <2>1. CASE Rule!RollbackRead(e) BY <1>1, <2>1, ReadIs DEF Rule!RollbackRead
  <2>2. CASE Rule!ArchiveRead(e) BY <1>1, <2>2, ReadIs DEF Rule!ArchiveRead
  <2> QED BY <1>4, <2>1, <2>2
<1>5. ASSUME NEW e \in Edits, Rule!RestoreRead(e) PROVE RuleInv'
  <2>1. PICK enabled \in {rule.now["enabled"], "off"} :
          Rule!Read(e, "restore", [rule.now EXCEPT !["enabled"] = enabled], {"enabled"})
    BY <1>5 DEF Rule!RestoreRead
  <2>2. enabled \in Values BY <1>1, RecordKeepingAssumption DEF Row, Rule!Columns
  <2>3. [rule.now EXCEPT !["enabled"] = enabled] \in Row BY <1>1, <2>2 DEF Row
  <2>4. {"enabled"} \in SUBSET Rule!Columns BY DEF Rule!Columns
  <2> QED BY <2>1, <2>3, <2>4, ReadIs
<1>6. ASSUME NEW e \in Edits, Rule!Write(e) PROVE RuleInv'
  BY <1>6, WriteStep
<1>7. ASSUME NEW e \in Edits, Rule!Abort(e) PROVE RuleInv'
  BY <1>1, <1>7, UnversionedStep DEF Rule!Abort
<1>8. CASE Rule!SaveDraft \/ Rule!DiscardDraft
  <2>1. PICK d \in SUBSET Drafts : rule' = [rule EXCEPT !.draft = d]
    BY <1>8 DEF Rule!SaveDraft, Rule!DiscardDraft, Rule!NoDraft
  <2>2. rule' \in RuleRow /\ rule'.version = rule.version /\ rule'.now = rule.now
    BY <1>1, <2>1 DEF RuleRow
  <2>3. UNCHANGED <<versions, edit, drifted>> BY <1>8 DEF Rule!SaveDraft, Rule!DiscardDraft
  <2> QED BY <2>2, <2>3, UnversionedStep
<1> QED BY <1>2, <1>3, <1>4, <1>5, <1>6, <1>7, <1>8 DEF Rule!RuleNext

\* An automation rule is what its newest recorded version says, however edits overlap,
\* but for one that wrote stale columns without a version; each column of the rule is in
\* a version even then, and the versions are numbered without a gap.
THEOREM RulesAreVersioned == Spec => []RuleIsItsNewestVersion
<1>1. Init => RuleInv BY RuleInit DEF Init
<1>2. RuleInv /\ [Next]_allVars => RuleInv'
  <2> SUFFICES ASSUME RuleInv, [Next]_allVars PROVE RuleInv'
    OBVIOUS
  <2>1. CASE Rule!RuleNext BY <2>1, RuleStep
  <2>2. CASE UNCHANGED ruleVars
    BY <2>2 DEF ruleVars, RuleInv, RuleTyped, SeenIsRecorded, RecordedIn,
       RuleIsItsNewestVersion, Rule!RuleIsItsNewestVersion
  <2> QED BY <2>1, <2>2 DEF Next, allVars
<1>3. RuleInv => RuleIsItsNewestVersion BY DEF RuleInv
<1> QED BY <1>1, <1>2, <1>3, PTL DEF Spec, allVars
-------------------------------------------------------------------------------
(***************************************************************************)
(* E-mail changes: a user has one active row at most, and it is his newest *)
(* (rows are created in order and a new one cancels the active one); it    *)
(* was made from the address he still has, unless it was stale when it was *)
(* created; and no row from before a password reset is active.             *)
(***************************************************************************)
AnyAddress == Addresses \cup {"none"}
EmailRow == [user : SUBSET Users, old : AnyAddress, new : AnyAddress,
             state : {"none", "active", "over"}, token : Nat]
EmailCall == [pc : {"idle", "create", "mail", "change", "primary"},
              user : SUBSET Users, old : AnyAddress, new : AnyAddress,
              key : (Rows \cup {0}) \X Nat]

EmailTyped ==
    /\ email \in [Users -> AnyAddress]
    /\ row \in [Rows -> EmailRow]
    /\ call \in [Requests -> EmailCall]

RowsInOrder ==
    \A k, l \in Rows : row[k].state # "none" /\ l < k => row[l].state # "none"
ActiveIsNewest ==
    \A k, l \in Rows :
        row[k].state = "active" /\ row[l].state # "none" /\ row[l].user = row[k].user => l <= k
MadeFromAddress ==
    \A u \in Users, k \in Rows :
        row[k].state = "active" /\ row[k].user = {u} => row[k].old = email[u] \/ k \in stale
ResetIsOver == \A k \in Rows : k \in reset => row[k].state = "over"

\* A verification quotes the row it read: nothing but its state and token has changed since.
Quotes ==
    \A r \in Requests, k \in Rows, n \in Nat :
        call[r].pc = "change" /\ call[r].key = <<k, n>> =>
            /\ row[k].state # "none"
            /\ row[k].state = "active" => call[r].old = row[k].old

EmailInv == EmailTyped /\ RowsInOrder /\ ActiveIsNewest /\ MadeFromAddress /\ ResetIsOver
            /\ Quotes

LEMMA EmptyIs ==
    /\ Email!NoRow \in EmailRow /\ Email!NoRow.state = "none" /\ Email!NoRow.user = {}
    /\ Email!NoCall \in EmailCall /\ Email!NoCall.pc = "idle"
BY DEF Email!NoRow, EmailRow, Email!NoCall, EmailCall, AnyAddress

LEMMA EmailInit == Email!EmailInit => EmailInv
<1> SUFFICES ASSUME Email!EmailInit PROVE EmailInv
  OBVIOUS
<1>1. /\ email = Initial /\ reset = {}
      /\ row = [k \in Rows |-> Email!NoRow] /\ call = [r \in Requests |-> Email!NoCall]
  BY DEF Email!EmailInit
<1>2. EmailTyped
  BY <1>1, EmptyIs, RecordKeepingAssumption DEF EmailTyped, AnyAddress
<1>3. \A k \in Rows : row[k].state = "none" BY <1>1, EmptyIs
<1> QED
  BY <1>1, <1>2, <1>3, EmptyIs
     DEF EmailInv, RowsInOrder, ActiveIsNewest, MadeFromAddress, ResetIsOver, Quotes

\* A row is left as it is but for its token, or an active one is closed.
Closes(k) ==
    /\ row'[k].user = row[k].user
    /\ \/ row'[k].state = row[k].state /\ row'[k].old = row[k].old
       \/ row[k].state = "active" /\ row'[k].state = "over"

LEMMA OverIs ==
    ASSUME EmailTyped, NEW k \in Rows
    PROVE  /\ Email!Over(k) \in EmailRow
           /\ Email!Over(k).user = row[k].user /\ Email!Over(k).state = "over"
<1> DEFINE U == row[k].user
<1>1. U \in SUBSET Users BY DEF EmailTyped, EmailRow
<1> HIDE DEF U
<1> DEFINE q == Email!NoRow
<1>2. Email!Over(k) = [q EXCEPT !.user = U, !.state = "over"] /\ q \in EmailRow
  BY EmptyIs DEF Email!Over, U
<1> HIDE DEF q
<1>3. /\ Email!Over(k) \in EmailRow
      /\ Email!Over(k).user = U /\ Email!Over(k).state = "over"
  BY <1>1, <1>2 DEF EmailRow
<1> QED BY <1>3 DEF U

\* The steps that create no row.
LEMMA ClosesStep ==
    ASSUME EmailInv, row' \in [Rows -> EmailRow], \A k \in Rows : Closes(k),
           call' \in [Requests -> EmailCall], email' \in [Users -> AnyAddress], stale' = stale,
           \A r \in Requests : call'[r] = call[r] \/ call'[r].pc # "change",
           \A u \in Users, k \in Rows :
               row'[k].state = "active" /\ row[k].user = {u} => email'[u] = email[u],
           \A k \in Rows : k \in reset' => k \in reset \/ row'[k].state = "over"
    PROVE  EmailInv'
<1> USE DEF EmailInv, Closes
<1>1. EmailTyped' BY DEF EmailTyped
<1>2. RowsInOrder' BY DEF RowsInOrder
<1>3. ActiveIsNewest' BY DEF ActiveIsNewest
<1>4. MadeFromAddress' BY DEF MadeFromAddress
<1>5. ResetIsOver' BY DEF ResetIsOver
<1>6. Quotes' BY DEF Quotes
<1> QED BY <1>1, <1>2, <1>3, <1>4, <1>5, <1>6

LEMMA CallIs ==
    ASSUME EmailTyped, NEW r \in Requests, NEW n \in EmailCall, Email!Step(r, n)
    PROVE  /\ call' \in [Requests -> EmailCall] /\ call'[r] = n
           /\ \A q \in Requests \ {r} : call'[q] = call[q]
BY DEF EmailTyped, Email!Step

\* The active rows of a user are closed, and the rest stay.
LEMMA CancelIs ==
    ASSUME EmailTyped, NEW u \in Users, row' = Email!CancelActive(u)
    PROVE  /\ row' \in [Rows -> EmailRow] /\ \A k \in Rows : Closes(k)
           /\ \A k \in Rows : row[k].user = {u} => row'[k].state # "active"
<1>1. \A k \in Rows : row[k] \in EmailRow BY DEF EmailTyped
<1>2. row' = [k \in Rows |-> IF row[k].state = "active" /\ row[k].user = {u}
                             THEN Email!Over(k) ELSE row[k]]
  BY DEF Email!CancelActive, Email!ActiveRows
<1>3. ASSUME NEW k \in Rows
      PROVE  /\ row'[k] \in EmailRow /\ Closes(k)
             /\ row[k].user = {u} => row'[k].state # "active"
  BY <1>1, <1>2, OverIs DEF Closes
<1> QED BY <1>2, <1>3

\* One active row is closed.
LEMMA CloseIs ==
    ASSUME EmailTyped, NEW k \in Rows, row[k].state = "active",
           row' = [row EXCEPT ![k] = Email!Over(k)]
    PROVE  /\ row' \in [Rows -> EmailRow] /\ \A l \in Rows : Closes(l)
           /\ row'[k].state = "over"
<1>1. row' \in [Rows -> EmailRow] BY OverIs DEF EmailTyped
<1>2. row'[k] = Email!Over(k) /\ \A l \in Rows \ {k} : row'[l] = row[l] BY DEF EmailTyped
<1>3. \A l \in Rows : Closes(l) BY <1>2, OverIs DEF Closes
<1> QED BY <1>1, <1>2, <1>3, OverIs

LEMMA OneActive ==
    ASSUME EmailInv, NEW k \in Rows, NEW l \in Rows, row[k].state = "active",
           row[l].state = "active", row[k].user = row[l].user
    PROVE  k = l
<1>1. k <= l /\ l <= k BY DEF EmailInv, ActiveIsNewest
<1>2. k \in Nat /\ l \in Nat BY RecordKeepingAssumption
<1> QED BY <1>1, <1>2

LEMMA CreateStep ==
    ASSUME EmailInv, NEW r \in Requests, Email!Create(r)
    PROVE  EmailInv'
<1> USE DEF EmailInv
<1>1. PICK u \in Users, k \in Rows :
        /\ row[k].state = "none" /\ \A l \in Rows : l < k => row[l].state # "none"
        /\ row' = [Email!CancelActive(u) EXCEPT
                     ![k] = [user |-> {u}, old |-> call[r].old, new |-> call[r].new,
                             state |-> "active", token |-> 1]]
        /\ stale' = stale \cup (IF email[u] = call[r].old THEN {} ELSE {k})
        /\ Email!Step(r, [Email!NoCall EXCEPT !.pc = "mail", !.key = <<k, 1>>])
        /\ UNCHANGED <<email, reset>>
  BY DEF Email!Create, Email!Created
<1>2. /\ call' \in [Requests -> EmailCall] /\ call'[r].pc # "change"
      /\ \A q \in Requests \ {r} : call'[q] = call[q]
  <2> DEFINE n == [Email!NoCall EXCEPT !.pc = "mail", !.key = <<k, 1>>]
  <2>1. n \in EmailCall /\ n.pc = "mail" BY DEF Email!NoCall, EmailCall, AnyAddress
  <2>2. Email!Step(r, n) BY <1>1
  <2> HIDE DEF n
  <2> QED BY <2>1, <2>2, CallIs
<1> DEFINE old == call[r].old
           new == call[r].new
           fresh == [user |-> {u}, old |-> old, new |-> new, state |-> "active", token |-> 1]
<1>3. old \in AnyAddress /\ new \in AnyAddress BY DEF EmailTyped, EmailCall
<1>4. /\ row' = [l \in Rows |-> IF l = k THEN fresh
                                ELSE IF row[l].state = "active" /\ row[l].user = {u}
                                     THEN Email!Over(l) ELSE row[l]]
  BY <1>1 DEF Email!CancelActive, Email!ActiveRows
<1> HIDE DEF old, new
<1>5. /\ fresh \in EmailRow /\ fresh.user = {u} /\ fresh.old = old /\ fresh.state = "active"
  BY <1>3 DEF EmailRow
<1> HIDE DEF fresh
<1>6. row'[k] = fresh BY <1>4
<1>7. ASSUME NEW l \in Rows \ {k}
      PROVE  /\ row'[l] \in EmailRow /\ Closes(l)
             /\ row[l].user = {u} => row'[l].state # "active"
  <2>1. row'[l] = IF row[l].state = "active" /\ row[l].user = {u} THEN Email!Over(l) ELSE row[l]
    BY <1>4
  <2>2. row[l] \in EmailRow BY DEF EmailTyped
  <2> QED BY <2>1, <2>2, OverIs DEF Closes
<1>8. \A l \in Rows : row'[l] \in EmailRow BY <1>5, <1>6, <1>7
<1>9. row' \in [Rows -> EmailRow] BY <1>4, <1>8
<1>10. EmailTyped' BY <1>1, <1>2, <1>9 DEF EmailTyped
<1>11. \A l \in Rows : row[l].state # "none" => l <= k
  <2>1. \A l \in Rows : l \in Nat BY RecordKeepingAssumption
  <2>2. \A l \in Rows : row[l].state # "none" => ~(k < l)
    BY <1>1 DEF RowsInOrder
  <2> QED BY <2>1, <2>2
<1>12. RowsInOrder'
  <2>1. ASSUME NEW l \in Rows, NEW m \in Rows, row'[l].state # "none", m < l
        PROVE  row'[m].state # "none"
    BY <1>1, <1>5, <1>6, <1>7, <2>1 DEF RowsInOrder, Closes
  <2> QED BY <2>1 DEF RowsInOrder
<1>13. ActiveIsNewest'
  <2>1. ASSUME NEW l \in Rows, NEW m \in Rows, row'[l].state = "active",
               row'[m].state # "none", row'[m].user = row'[l].user
        PROVE  m <= l
    <3>1. CASE l = k
      BY <1>7, <1>11, <2>1, <3>1, RecordKeepingAssumption DEF Closes
    <3>2. CASE l # k /\ m = k
      BY <1>5, <1>6, <1>7, <2>1, <3>2 DEF Closes
    <3>3. CASE l # k /\ m # k
      BY <1>7, <2>1, <3>3 DEF Closes, ActiveIsNewest
    <3> QED BY <3>1, <3>2, <3>3
  <2> QED BY <2>1 DEF ActiveIsNewest
<1>14. MadeFromAddress'
  <2>1. ASSUME NEW v \in Users, NEW l \in Rows, row'[l].state = "active", row'[l].user = {v}
        PROVE  row'[l].old = email[v] \/ l \in stale'
    <3>1. CASE l = k
      <4>1. v = u /\ row'[l].old = old BY <1>5, <1>6, <2>1, <3>1
      <4> QED BY <1>1, <3>1, <4>1 DEF old
    <3>2. CASE l # k
      BY <1>1, <1>7, <2>1, <3>2 DEF Closes, MadeFromAddress
    <3> QED BY <3>1, <3>2
  <2> QED BY <1>1, <2>1 DEF MadeFromAddress
<1>15. ResetIsOver'
  BY <1>1, <1>7 DEF ResetIsOver, Closes
<1>16. Quotes'
  <2> SUFFICES ASSUME NEW q \in Requests, NEW l \in Rows, NEW n \in Nat,
                      call'[q].pc = "change", call'[q].key = <<l, n>>
               PROVE  /\ row'[l].state # "none"
                      /\ row'[l].state = "active" => call'[q].old = row'[l].old
    BY DEF Quotes
  <2>1. call'[q] = call[q] BY <1>2
  <2>2. /\ row[l].state # "none"
        /\ row[l].state = "active" => call[q].old = row[l].old
    BY <2>1 DEF Quotes
  <2>3. l # k BY <1>1, <2>2
  <2> QED BY <1>7, <2>1, <2>2, <2>3 DEF Closes
<1> QED BY <1>10, <1>12, <1>13, <1>14, <1>15, <1>16

\* The steps that leave rows and addresses alone.
LEMMA QuietEmailStep ==
    ASSUME EmailInv, NEW r \in Requests, NEW n \in EmailCall, Email!Step(r, n),
           UNCHANGED <<email, row, stale, reset>>,
           \A k \in Rows, t \in Nat : n.pc = "change" /\ n.key = <<k, t>> =>
               row[k].state = "active" /\ n.old = row[k].old
    PROVE  EmailInv'
<1> USE DEF EmailInv
<1>1. EmailTyped' BY CallIs DEF EmailTyped
<1>2. Quotes' BY CallIs DEF Quotes
<1> QED BY <1>1, <1>2 DEF RowsInOrder, ActiveIsNewest, MadeFromAddress, ResetIsOver

\* The address of a user becomes the one of his active row, which is closed.
LEMMA VerifyStep ==
    ASSUME EmailInv, NEW r \in Requests, Email!VerifyStore(r)
    PROVE  EmailInv'
<1> USE DEF EmailInv
<1>1. PICK u \in Users, k \in Rows :
        /\ row[k].state = "active" /\ row[k].user = {u}
        /\ row' = [row EXCEPT ![k] = Email!Over(k)]
        /\ email' = [email EXCEPT ![u] = call[r].new]
        /\ Email!Step(r, Email!NoCall) /\ UNCHANGED <<stale, reset>>
  BY DEF Email!VerifyStore, Email!Consumable
<1>2. /\ call' \in [Requests -> EmailCall]
      /\ \A q \in Requests : call'[q] = call[q] \/ call'[q].pc # "change"
  BY <1>1, EmptyIs, CallIs
<1>3. /\ row' \in [Rows -> EmailRow] /\ \A l \in Rows : Closes(l)
      /\ row'[k].state = "over"
  BY <1>1, CloseIs
<1>4. email' \in [Users -> AnyAddress] /\ \A v \in Users \ {u} : email'[v] = email[v]
  BY <1>1 DEF EmailTyped, EmailCall
<1>5. ASSUME NEW v \in Users, NEW l \in Rows, row'[l].state = "active", row[l].user = {v}
      PROVE  email'[v] = email[v]
  <2>1. row[l].state = "active" /\ l # k BY <1>3, <1>5 DEF Closes
  <2>2. v # u BY <1>1, <1>5, <2>1, OneActive
  <2> QED BY <1>4, <2>2
<1> QED BY <1>1, <1>2, <1>3, <1>4, <1>5, ClosesStep

LEMMA EmailStep == EmailInv /\ Email!EmailNext => EmailInv'
<1> SUFFICES ASSUME EmailInv, Email!EmailNext PROVE EmailInv'
  OBVIOUS
<1> USE DEF EmailInv
<1>1. ASSUME NEW r \in Requests, NEW u \in Users,
             \/ Email!PrimaryRead(r, u)
             \/ \E new \in Addresses : Email!RequestRead(r, u, new)
      PROVE  EmailInv'
  <2>1. email[u] \in AnyAddress /\ UNCHANGED <<email, row, stale, reset>>
    BY <1>1 DEF Email!PrimaryRead, Email!RequestRead, EmailTyped
  <2>2. PICK new \in AnyAddress : Email!Ask(r, u, new)
    BY <1>1, <2>1 DEF Email!PrimaryRead, Email!RequestRead, AnyAddress
  <2> DEFINE old == email[u]
             q == Email!NoCall
             n == [q EXCEPT !.pc = "create", !.user = {u}, !.old = old, !.new = new]
  <2>3. Email!Step(r, n) BY <2>2 DEF Email!Ask
  <2>4. q \in EmailCall /\ old \in AnyAddress BY <2>1, EmptyIs
  <2> HIDE DEF q, old
  <2>5. n \in EmailCall /\ n.pc = "create" BY <2>4 DEF EmailCall
  <2> HIDE DEF n
  <2> QED BY <2>1, <2>3, <2>5, QuietEmailStep
<1>2. ASSUME NEW r \in Requests, NEW k \in Rows, NEW t \in Tokens, Email!VerifyRead(r, k, t)
      PROVE  EmailInv'
  <2> DEFINE q == Email!NoCall
             old == row[k].old
             new == row[k].new
             p == [q EXCEPT !.pc = "primary", !.key = <<k, t>>]
             c == [q EXCEPT !.pc = "change", !.key = <<k, t>>, !.old = old, !.new = new]
  <2>1. /\ Email!Step(r, IF Email!Primary(k) THEN p ELSE c)
        /\ row[k].state = "active" /\ UNCHANGED <<email, row, stale, reset>>
    BY <1>2 DEF Email!VerifyRead, Email!Found
  <2>2. t \in Nat /\ old \in AnyAddress /\ new \in AnyAddress
    BY <1>2 DEF Email!VerifyRead, Email!Found, EmailTyped, EmailRow
  <2>3. q \in EmailCall BY EmptyIs
  <2>4. old = row[k].old OBVIOUS
  <2> HIDE DEF q, old, new
  <2>5. p \in EmailCall /\ p.pc = "primary" BY <2>2, <2>3 DEF EmailCall
  <2>6. c \in EmailCall /\ c.key = <<k, t>> /\ c.old = old BY <2>2, <2>3 DEF EmailCall
  <2> HIDE DEF p, c
  <2>7. CASE Email!Primary(k)
    <3>1. Email!Step(r, p) BY <2>1, <2>7
    <3> QED BY <2>1, <2>5, <3>1, QuietEmailStep
  <2>8. CASE ~Email!Primary(k)
    <3>1. Email!Step(r, c) BY <2>1, <2>8
    <3>2. \A l \in Rows, n \in Nat : c.key = <<l, n>> =>
            row[l].state = "active" /\ c.old = row[l].old
      BY <2>1, <2>4, <2>6
    <3> QED BY <2>1, <2>6, <3>1, <3>2, QuietEmailStep
  <2> QED BY <2>7, <2>8
<1>3. ASSUME NEW r \in Requests, Email!Mail(r) \/ Email!Fail(r) PROVE EmailInv'
  BY <1>3, EmptyIs, QuietEmailStep DEF Email!Mail, Email!Fail
<1>4. ASSUME NEW r \in Requests, NEW k \in Rows, Email!Resend(r, k) PROVE EmailInv'
  <2> DEFINE t == row[k].token + 1
             q == row[k]
             m == [q EXCEPT !.token = t]
             e == Email!NoCall
             n == [e EXCEPT !.pc = "mail", !.key = <<k, t>>]
  <2>1. /\ row' = [row EXCEPT ![k] = m] /\ Email!Step(r, n)
        /\ UNCHANGED <<email, stale, reset>>
    BY <1>4 DEF Email!Resend
  <2>2. q \in EmailRow /\ e \in EmailCall BY EmptyIs DEF EmailTyped
  <2>3. t \in Nat BY <2>2 DEF EmailRow
  <2> HIDE DEF q, t, e
  <2>4. m \in EmailRow /\ m.user = q.user /\ m.state = q.state /\ m.old = q.old
    BY <2>2, <2>3 DEF EmailRow
  <2>5. n \in EmailCall /\ n.pc = "mail" BY <2>2, <2>3 DEF EmailCall
  <2> HIDE DEF m, n
  <2>6. /\ call' \in [Requests -> EmailCall]
        /\ \A x \in Requests : call'[x] = call[x] \/ call'[x].pc # "change"
    BY <2>1, <2>5, CallIs
  <2>7. row' \in [Rows -> EmailRow] /\ \A l \in Rows : Closes(l)
    BY <2>1, <2>4 DEF EmailTyped, Closes, q
  <2>8. \A u \in Users : email'[u] = email[u] BY <2>1
  <2> QED BY <2>1, <2>6, <2>7, <2>8, ClosesStep DEF EmailTyped
<1>5. ASSUME NEW r \in Requests, Email!Create(r) PROVE EmailInv'
  BY <1>5, CreateStep
<1>6. ASSUME NEW r \in Requests, Email!VerifyStore(r) PROVE EmailInv'
  BY <1>6, VerifyStep
<1>7. ASSUME NEW r \in Requests, Email!PrimaryStore(r) PROVE EmailInv'
  <2>1. PICK k \in Rows :
          /\ row[k].state = "active" /\ row' = [row EXCEPT ![k] = Email!Over(k)]
          /\ Email!Step(r, Email!NoCall) /\ UNCHANGED <<email, stale, reset>>
    BY <1>7 DEF Email!PrimaryStore, Email!Consumable
  <2>2. /\ call' \in [Requests -> EmailCall]
        /\ \A q \in Requests : call'[q] = call[q] \/ call'[q].pc # "change"
    BY <2>1, EmptyIs, CallIs
  <2>3. row' \in [Rows -> EmailRow] /\ \A l \in Rows : Closes(l) BY <2>1, CloseIs
  <2> QED BY <2>1, <2>2, <2>3, ClosesStep DEF EmailTyped
<1>8. ASSUME NEW k \in Rows, Email!Cancel(k) PROVE EmailInv'
  <2>1. /\ row[k].state = "active" /\ row' = [row EXCEPT ![k] = Email!Over(k)]
        /\ UNCHANGED <<email, call, stale, reset>>
    BY <1>8 DEF Email!Cancel
  <2>2. row' \in [Rows -> EmailRow] /\ \A l \in Rows : Closes(l) BY <2>1, CloseIs
  <2> QED BY <2>1, <2>2, ClosesStep DEF EmailTyped
<1>9. ASSUME NEW u \in Users, Email!PasswordReset(u) PROVE EmailInv'
  <2>1. /\ row' = Email!CancelActive(u)
        /\ reset' = reset \cup {k \in Email!Created : row[k].user = {u}}
        /\ UNCHANGED <<email, call, stale>>
    BY <1>9 DEF Email!PasswordReset, Email!AfterReset
  <2>2. /\ row' \in [Rows -> EmailRow] /\ \A k \in Rows : Closes(k)
        /\ \A k \in Rows : row[k].user = {u} => row'[k].state # "active"
    BY <2>1, CancelIs
  <2>3. ASSUME NEW k \in Rows, k \in reset' PROVE k \in reset \/ row'[k].state = "over"
    <3>1. k \notin reset => row[k].state # "none" /\ row[k].user = {u}
      BY <2>1, <2>3 DEF Email!Created
    <3>2. row[k].state \in {"none", "active", "over"} BY DEF EmailTyped, EmailRow
    <3> QED BY <2>2, <3>1, <3>2 DEF Closes
  <2> QED BY <2>1, <2>2, <2>3, ClosesStep DEF EmailTyped
<1> QED BY <1>1, <1>2, <1>3, <1>4, <1>5, <1>6, <1>7, <1>8, <1>9 DEF Email!EmailNext

LEMMA EmailInvariance == Spec => []EmailInv
<1>1. Init => EmailInv BY EmailInit DEF Init
<1>2. EmailInv /\ [Next]_allVars => EmailInv'
  <2> SUFFICES ASSUME EmailInv, [Next]_allVars PROVE EmailInv'
    OBVIOUS
  <2>1. CASE Email!EmailNext BY <2>1, EmailStep
  <2>2. CASE UNCHANGED emailVars
    BY <2>2 DEF emailVars, EmailInv, EmailTyped, RowsInOrder, ActiveIsNewest, MadeFromAddress,
       ResetIsOver, Quotes
  <2> QED BY <2>1, <2>2 DEF Next, allVars
<1> QED BY <1>1, <1>2, PTL DEF Spec, allVars

\* A step that changes an address consumes the user's one active row, by its
\* newest token.
LEMMA AddressChanges ==
    ASSUME EmailInv, [Next]_allVars, NEW u \in Users, email'[u] # email[u]
    PROVE  \E k \in Rows, r \in Requests :
              /\ row[k].state = "active" /\ row[k].user = {u}
              /\ Email!Consumed(u) = {k} /\ Email!Newest(u) = {k}
              /\ call[r].key = <<k, row[k].token>> /\ call'[r] = Email!NoCall
              /\ call[r].pc = "change" /\ call[r].old = row[k].old
<1> USE DEF EmailInv
<1>1. Email!EmailNext BY DEF Next, allVars, emailVars
<1>2. PICK r \in Requests : Email!VerifyStore(r)
  BY <1>1 DEF Email!EmailNext, Email!PrimaryRead, Email!RequestRead, Email!Resend,
     Email!VerifyRead, Email!Create, Email!Mail, Email!PrimaryStore, Email!Fail, Email!Cancel,
     Email!PasswordReset
<1>3. PICK v \in Users, k \in Rows, n \in Tokens :
        /\ call[r].pc = "change" /\ call[r].key = <<k, n>>
        /\ row[k].state = "active" /\ row[k].token = n /\ row[k].user = {v}
        /\ email' = [email EXCEPT ![v] = call[r].new]
        /\ Email!Step(r, Email!NoCall)
  BY <1>2 DEF Email!VerifyStore, Email!Consumable
<1>4. v = u BY <1>3 DEF EmailTyped
<1>5. call'[r] = Email!NoCall BY <1>3, EmptyIs, CallIs
<1>6. Email!ActiveRows(u) = {k}
  BY <1>3, <1>4, OneActive DEF Email!ActiveRows
<1>7. Email!Consumed(u) = {k}
  <2>1. call[r].key[1] = k BY <1>3
  <2> QED BY <1>3, <1>5, <1>6, <2>1 DEF Email!Consumed
<1>8. Email!Newest(u) = {k}
  <2>1. k \in Email!Newest(u)
    BY <1>3, <1>4 DEF Email!Newest, Email!Created, ActiveIsNewest
  <2>2. ASSUME NEW l \in Email!Newest(u) PROVE l = k
    <3>1. l \in Rows /\ row[l].state # "none" /\ row[l].user = {u} /\ k <= l
      BY <1>3, <1>4 DEF Email!Newest, Email!Created
    <3>2. l <= k BY <1>3, <1>4, <3>1 DEF ActiveIsNewest
    <3> QED BY <3>1, <3>2, RecordKeepingAssumption
  <2> QED BY <2>1, <2>2 DEF Email!Newest
<1>9. call[r].old = row[k].old
  <2>1. row[k].token \in Nat BY DEF EmailTyped, EmailRow
  <2> QED BY <1>3, <2>1 DEF Quotes
<1> QED BY <1>3, <1>4, <1>5, <1>7, <1>8, <1>9

\* Only the newest token of a user's newest request changes the address, however
\* requests, resent tokens and verifications overlap.
THEOREM OnlyTheNewest == Spec => NewestTokenOnly
<1> DEFINE A == \A u \in Users : email'[u] # email[u] =>
                  /\ Email!Consumed(u) = Email!Newest(u)
                  /\ \E r \in Requests, k \in Email!Newest(u) :
                        call[r].key = <<k, row[k].token>> /\ call'[r] = Email!NoCall
<1>1. EmailInv /\ [Next]_allVars => [A]_emailVars
  BY AddressChanges
<1> QED
  BY <1>1, EmailInvariance, PTL
     DEF Spec, allVars, NewestTokenOnly, Email!NewestTokenOnly, emailVars, Email!emailVars

\* The notice of a change goes to the address the user had until then, unless
\* the request had read it before an earlier change was completed.
THEOREM NoticeGoesToOldAddress == Spec => OldAddressTold
<1> DEFINE A == \A u \in Users : email'[u] # email[u] =>
                  \E r \in Requests :
                      /\ call[r].pc = "change" /\ call'[r] = Email!NoCall
                      /\ call[r].old = email[u] \/ call[r].key[1] \in stale
<1>1. EmailInv /\ [Next]_allVars => [A]_emailVars
  <2> SUFFICES ASSUME EmailInv, [Next]_allVars, NEW u \in Users, email'[u] # email[u]
               PROVE  \E r \in Requests :
                          /\ call[r].pc = "change" /\ call'[r] = Email!NoCall
                          /\ call[r].old = email[u] \/ call[r].key[1] \in stale
    OBVIOUS
  <2>1. PICK k \in Rows, r \in Requests :
          /\ row[k].state = "active" /\ row[k].user = {u}
          /\ call[r].key = <<k, row[k].token>> /\ call'[r] = Email!NoCall
          /\ call[r].pc = "change" /\ call[r].old = row[k].old
    BY AddressChanges
  <2>2. row[k].old = email[u] \/ k \in stale BY <2>1 DEF EmailInv, MadeFromAddress
  <2>3. call[r].key[1] = k BY <2>1
  <2> QED BY <2>1, <2>2, <2>3
<1> QED
  BY <1>1, EmailInvariance, PTL
     DEF Spec, allVars, OldAddressTold, Email!OldAddressTold, emailVars, Email!emailVars

\* A request stored before a password reset never changes the address.
THEOREM ResetIsFinal == Spec => ResetCancels
<1> DEFINE A == \A u \in Users : email'[u] # email[u] => Email!Consumed(u) \cap reset = {}
<1>1. EmailInv /\ [Next]_allVars => [A]_emailVars
  BY AddressChanges DEF EmailInv, ResetIsOver
<1> QED
  BY <1>1, EmailInvariance, PTL
     DEF Spec, allVars, ResetCancels, Email!ResetCancels, emailVars, Email!emailVars
-------------------------------------------------------------------------------
(***************************************************************************)
(* The API's copy of the updater's runs.  An answer under way says what    *)
(* the host still says once it is an outcome, because outcomes are never   *)
(* revised.  An outcome that was read before the row is written is         *)
(* accounted for already.  As long as no two answers about a run are under *)
(* way at once, the row is what was read from it and never turns back.     *)
(***************************************************************************)
Stages == {"none", "preparing", "changing", "gone", "unknown", "untouched", "installed",
           "failed"}
Outcomes == {"untouched", "installed", "failed"}
JobState == [pc : {"idle", "install", "cancel", "cancelled", "ask", "round", "answered", "read",
                   "audit"},
             run : Runs \cup {NoRun}, got : Stages, prev : Stages, todo : SUBSET Runs]

UpdatesTyped ==
    /\ stage \in [Runs -> Stages]
    /\ mirror \in [Runs -> Stages]
    /\ audited \in [Runs -> Nat]
    /\ job \in [Updates!Jobs -> JobState]
    /\ \A j \in Updates!Jobs : job[j].pc \notin {"idle", "round"} => job[j].run \in Runs

Answers(j, r) == job[j].pc \in {"answered", "read"} /\ job[j].run = r
Audits(j, r) == job[j].pc = "audit" /\ job[j].run = r
Accounted(r) == audited[r] > 0 \/ r \in missed \/ \E j \in Updates!Jobs : Audits(j, r)

\* The host's record is not lost; one that is stays so.
Kept(r) == stage[r] # "unknown"

AnswersAreTrue ==
    \A j \in Updates!Jobs, r \in Runs :
        Answers(j, r) /\ job[j].got \in Outcomes /\ Kept(r) => stage[r] = job[j].got
RowsAreTrue == \A r \in Runs : mirror[r] \in Outcomes /\ Kept(r) => mirror[r] = stage[r]
OutcomesAccounted ==
    /\ \A r \in Runs : mirror[r] \in Outcomes => Accounted(r)
    /\ \A j \in Updates!Jobs, r \in Runs :
          Answers(j, r) /\ job[j].pc = "read" /\ job[j].prev \in Outcomes => Accounted(r)

\* One answer at a time: the row has an outcome from the first audit on.
AloneOf(r) ==
    /\ \A i, j \in Updates!Jobs : Answers(i, r) /\ Answers(j, r) => i = j
    /\ \A i, j \in Updates!Jobs : Audits(i, r) /\ Audits(j, r) => i = j
    /\ \A j \in Updates!Jobs : Answers(j, r) =>
          /\ job[j].pc = "read" => job[j].prev = mirror[r]
          /\ mirror[r] \in Outcomes => job[j].got = mirror[r]
    /\ \A j \in Updates!Jobs : Audits(j, r) => audited[r] = 0 /\ mirror[r] \in Outcomes
    /\ audited[r] > 0 => audited[r] = 1 /\ mirror[r] \in Outcomes
Alone == \A r \in Runs \ raced : Kept(r) => AloneOf(r)

UpdatesInv == UpdatesTyped /\ AnswersAreTrue /\ RowsAreTrue /\ OutcomesAccounted /\ Alone

LEMMA StagesAre == Updates!Host!Stages = Stages /\ Updates!Terminal = Outcomes
BY DEF Updates!Host!Stages, Updates!Host!Ends, Updates!Terminal, Stages, Outcomes

LEMMA NoJobIs ==
    /\ Updates!NoJob \in JobState
    /\ Updates!NoJob.pc = "idle"
BY DEF Updates!NoJob, JobState, Stages

LEMMA UpdatesInit == Updates!UpdatesInit => UpdatesInv
<1> SUFFICES ASSUME Updates!UpdatesInit PROVE UpdatesInv
  OBVIOUS
<1>1. /\ stage = [r \in Runs |-> "none"] /\ mirror = [r \in Runs |-> "none"]
      /\ audited = [r \in Runs |-> 0] /\ job = [j \in Updates!Jobs |-> Updates!NoJob]
  BY DEF Updates!UpdatesInit, Updates!Host!Init
<1>2. UpdatesTyped BY <1>1, NoJobIs DEF UpdatesTyped, Stages
<1>3. /\ \A j \in Updates!Jobs : job[j].pc = "idle"
      /\ \A r \in Runs : mirror[r] \notin Outcomes /\ audited[r] = 0
  BY <1>1, NoJobIs DEF Outcomes
<1>4. AnswersAreTrue /\ RowsAreTrue /\ OutcomesAccounted
  BY <1>3 DEF AnswersAreTrue, RowsAreTrue, OutcomesAccounted, Answers, Kept
<1>5. \A r \in Runs : ~(audited[r] > 0) BY <1>3
<1>6. Alone BY <1>3, <1>5 DEF Alone, AloneOf, Answers, Audits
<1> QED BY <1>2, <1>4, <1>6 DEF UpdatesInv

\* One job goes on.
LEMMA JobIs ==
    ASSUME UpdatesTyped, NEW j \in Updates!Jobs, NEW n \in JobState,
           job' = [job EXCEPT ![j] = n]
    PROVE  /\ job' \in [Updates!Jobs -> JobState] /\ job'[j] = n
           /\ \A i \in Updates!Jobs \ {j} : job'[i] = job[i]
BY DEF UpdatesTyped

LEMMA JobEnds ==
    ASSUME UpdatesTyped, NEW j \in Updates!Jobs
    PROVE  Updates!Over(j) \in JobState /\ Updates!Over(j).pc \in {"idle", "round"}
<1> DEFINE q == Updates!NoJob
           todo == job[j].todo
           n == [q EXCEPT !.pc = "round", !.todo = todo]
<1>1. q \in JobState /\ q.pc = "idle" /\ todo \in SUBSET Runs
  BY NoJobIs DEF UpdatesTyped, JobState
<1>2. Updates!Over(j) = IF todo = {} THEN q ELSE n BY DEF Updates!Over
<1> HIDE DEF q, todo
<1>3. n \in JobState /\ n.pc = "round" BY <1>1 DEF JobState
<1> HIDE DEF n
<1> QED BY <1>1, <1>2, <1>3

\* A job that has no answer yet, or any more, leaves the rest alone; if it was
\* to audit an outcome, that outcome is missed.
LEMMA QuietJobStep ==
    ASSUME UpdatesInv, NEW j \in Updates!Jobs, NEW n \in JobState,
           job' = [job EXCEPT ![j] = n], n.pc \notin {"answered", "read", "audit"},
           n.pc \notin {"idle", "round"} => n.run \in Runs,
           UNCHANGED <<stage, mirror, audited, raced>>, missed \subseteq missed',
           job[j].pc = "audit" => job[j].run \in missed'
    PROVE  UpdatesInv'
<1> USE DEF UpdatesInv
<1>1. /\ job' \in [Updates!Jobs -> JobState] /\ job'[j] = n
      /\ \A i \in Updates!Jobs \ {j} : job'[i] = job[i]
  BY JobIs
<1>2. UpdatesTyped' BY <1>1 DEF UpdatesTyped, Updates!Jobs
<1>3. \A i \in Updates!Jobs, r \in Runs :
        /\ Answers(i, r)' <=> Answers(i, r) /\ i # j
        /\ Audits(i, r)' <=> Audits(i, r) /\ i # j
  BY <1>1 DEF Answers, Audits
<1>4. AnswersAreTrue' /\ RowsAreTrue'
  BY <1>1, <1>3 DEF AnswersAreTrue, RowsAreTrue, Updates!Jobs, Kept
<1>5. ASSUME NEW r \in Runs, Accounted(r) PROVE Accounted(r)'
  BY <1>3, <1>5 DEF Accounted, Audits, Updates!Jobs
<1>6. OutcomesAccounted'
  BY <1>1, <1>3, <1>5 DEF OutcomesAccounted, Updates!Jobs
<1>7. Alone'
  <2>1. ASSUME NEW r \in Runs \ raced, Kept(r) PROVE AloneOf(r)'
    BY <1>1, <1>3, <2>1 DEF Alone, AloneOf, Updates!Jobs
  <2> QED BY <2>1 DEF Alone, Kept
<1> QED BY <1>2, <1>4, <1>6, <1>7

\* The host goes on: it revises no outcome, but may lose a record.
OnlyLosses ==
    \A r \in Runs : /\ stage[r] \in Outcomes => stage'[r] \in {stage[r], "unknown"}
                    /\ ~Kept(r) => stage'[r] = "unknown"

LEMMA HostStepIs ==
    ASSUME stage \in [Runs -> Stages], Updates!HostStep
    PROVE  /\ stage' \in [Runs -> Stages]
           /\ OnlyLosses
<1>1. \A r \in Runs : stage'[r] # "gone" BY DEF Updates!HostStep
<1>2. ASSUME Updates!Host!Vanish
      PROVE  stage' \in [Runs -> Stages] /\ OnlyLosses
  BY <1>1, <1>2 DEF Updates!Host!Vanish, Stages, OnlyLosses, Kept, Updates!Host!Ends
<1>3. PICK r \in Runs :
        \/ Updates!Host!Prepare(r) \/ Updates!Host!Commit(r)
        \/ Updates!Host!Change(r) \/ Updates!Host!GiveUp(r)
        \/ \E end \in Updates!Terminal : Updates!Host!End(r, end)
        \/ Updates!Host!Lose(r)
  BY DEF Updates!HostStep
<1>4. CASE Updates!Host!Prepare(r) \/ Updates!Host!Commit(r)
  BY <1>4 DEF Updates!Host!Prepare, Updates!Host!Commit, Stages, Outcomes, OnlyLosses, Kept
<1>5. CASE Updates!Host!Change(r) \/ Updates!Host!GiveUp(r)
  BY <1>2, <1>5 DEF Updates!Host!Change, Updates!Host!GiveUp
<1>6. CASE \E end \in Updates!Terminal : Updates!Host!End(r, end)
  <2>1. PICK end \in Outcomes : Updates!Host!End(r, end) BY <1>6, StagesAre
  <2> QED BY <2>1 DEF Updates!Host!End, Stages, Outcomes, OnlyLosses, Kept
<1>7. CASE Updates!Host!Lose(r)
  BY <1>7 DEF Updates!Host!Lose, Stages, Outcomes, OnlyLosses, Kept
<1> QED BY <1>3, <1>4, <1>5, <1>6, <1>7

LEMMA HostGoesOn ==
    ASSUME UpdatesInv, stage' \in [Runs -> Stages], OnlyLosses,
           UNCHANGED <<mirror, audited, job, missed, raced>>
    PROVE  UpdatesInv'
<1> USE DEF UpdatesInv
<1>1. UpdatesTyped' BY DEF UpdatesTyped, Updates!Jobs
<1>2. AnswersAreTrue' /\ RowsAreTrue'
  BY DEF AnswersAreTrue, Answers, RowsAreTrue, Updates!Jobs, OnlyLosses, Kept
<1>3. OutcomesAccounted'
  BY DEF OutcomesAccounted, Accounted, Answers, Audits, Updates!Jobs
<1>4. Alone' BY DEF Alone, AloneOf, Answers, Audits, Updates!Jobs, OnlyLosses, Kept
<1> QED BY <1>1, <1>2, <1>3, <1>4

\* The updater answers with what it says now.
LEMMA AnswerStep ==
    ASSUME UpdatesInv, NEW j \in Updates!Jobs, Updates!Answer(j)
    PROVE  UpdatesInv'
<1> USE DEF UpdatesInv
<1> DEFINE q == job[j]
           run0 == q.run
<1>1. /\ q \in JobState /\ q.pc \in {"ask", "install"} /\ run0 \in Runs
      /\ UNCHANGED <<stage, mirror, audited, missed>>
  BY DEF Updates!Answer, UpdatesTyped, Updates!hostVars
<1>2. CASE raced' = raced /\ Updates!End(j)
  BY <1>1, <1>2, JobEnds, QuietJobStep DEF Updates!End
<1>3. ASSUME NEW got \in Updates!Told(run0),
             /\ job' = [job EXCEPT ![j].pc = "answered", ![j].got = got]
             /\ raced' = raced \cup (IF \E i \in Updates!Jobs \ {j} :
                                        Updates!Answering(i) /\ job[i].run = run0
                                   THEN {run0} ELSE {})
      PROVE  UpdatesInv'
  <2> DEFINE n == [q EXCEPT !.pc = "answered", !.got = got]
  <2>1. job' = [job EXCEPT ![j] = n] BY <1>1, <1>3 DEF UpdatesTyped
  <2>2. got \in Stages /\ (Kept(run0) => got = stage[run0])
    BY <1>1, <1>3, StagesAre DEF UpdatesTyped, Updates!Told, Kept, Stages, Outcomes
  <2> HIDE DEF q
  <2>3. n \in JobState /\ n.pc = "answered" /\ n.got = got /\ n.run = q.run
    BY <1>1, <2>2 DEF JobState
  <2> HIDE DEF n
  <2>4. /\ job' \in [Updates!Jobs -> JobState] /\ job'[j] = n
        /\ \A i \in Updates!Jobs \ {j} : job'[i] = job[i]
    BY <2>1, <2>3, JobIs
  <2>5. UpdatesTyped' BY <1>1, <2>3, <2>4 DEF UpdatesTyped, Updates!Jobs
  <2>6. \A i \in Updates!Jobs, r \in Runs :
          /\ Answers(i, r)' <=> Answers(i, r) \/ (i = j /\ r = run0)
          /\ Audits(i, r)' <=> Audits(i, r)
    BY <1>1, <2>3, <2>4 DEF Answers, Audits, q
  <2>7. AnswersAreTrue' /\ RowsAreTrue'
    BY <1>1, <2>2, <2>3, <2>4, <2>6 DEF AnswersAreTrue, RowsAreTrue, Updates!Jobs, Answers, q, Kept
  <2>8. \A r \in Runs : Accounted(r)' <=> Accounted(r)
    BY <1>1, <2>6 DEF Accounted, Updates!Jobs
  <2>9. OutcomesAccounted'
    BY <1>1, <2>3, <2>4, <2>6, <2>8 DEF OutcomesAccounted, Updates!Jobs
  <2>10. Alone'
    <3>1. ASSUME NEW r \in Runs \ raced', Kept(r) PROVE AloneOf(r)'
      <4>1. r \notin raced /\ AloneOf(r) BY <1>3, <3>1 DEF Alone
      <4>2. CASE r = run0
        <5>1. \A i \in Updates!Jobs : ~Answers(i, r)
          BY <1>1, <1>3, <3>1, <4>2 DEF Answers, Updates!Answering, q
        <5>2. mirror[r] \in Outcomes => got = mirror[r]
          BY <2>2, <3>1, <4>2 DEF RowsAreTrue
        <5> QED BY <1>1, <2>3, <2>4, <2>6, <4>1, <5>1, <5>2 DEF AloneOf, Updates!Jobs
      <4>3. CASE r # run0
        BY <1>1, <2>3, <2>4, <2>6, <4>1, <4>3 DEF AloneOf, Updates!Jobs, Answers, q
      <4> QED BY <4>2, <4>3
    <3> QED BY <1>1, <3>1 DEF Alone, Kept
  <2> QED BY <2>5, <2>7, <2>9, <2>10
<1> QED BY <1>1, <1>2, <1>3 DEF Updates!Answer

\* The status before is read ahead of the transaction.
LEMMA ReadPreviousStep ==
    ASSUME UpdatesInv, NEW j \in Updates!Jobs, Updates!ReadPrevious(j)
    PROVE  UpdatesInv'
<1> USE DEF UpdatesInv
<1> DEFINE q == job[j]
           run0 == q.run
           prev == mirror[run0]
           n == [q EXCEPT !.pc = "read", !.prev = prev]
<1>1. /\ q \in JobState /\ q.pc = "answered" /\ run0 \in Runs /\ prev \in Stages
      /\ UNCHANGED <<stage, mirror, audited, missed, raced>>
      /\ job' = [job EXCEPT ![j] = n]
  BY DEF Updates!ReadPrevious, UpdatesTyped, Updates!hostVars
<1> HIDE DEF q, prev
<1>2. n \in JobState /\ n.pc = "read" /\ n.prev = prev /\ n.run = q.run /\ n.got = q.got
  BY <1>1 DEF JobState
<1> HIDE DEF n
<1>3. /\ job' \in [Updates!Jobs -> JobState] /\ job'[j] = n
      /\ \A i \in Updates!Jobs \ {j} : job'[i] = job[i]
  BY <1>1, <1>2, JobIs
<1>4. UpdatesTyped' BY <1>1, <1>2, <1>3 DEF UpdatesTyped, Updates!Jobs
<1>5. \A i \in Updates!Jobs, r \in Runs :
        /\ Answers(i, r)' <=> Answers(i, r)
        /\ Audits(i, r)' <=> Audits(i, r)
        /\ job'[i].got = job[i].got
  BY <1>1, <1>2, <1>3 DEF Answers, Audits, q
<1>6. AnswersAreTrue' /\ RowsAreTrue'
  BY <1>1, <1>5 DEF AnswersAreTrue, RowsAreTrue, Updates!Jobs, Kept
<1>7. \A r \in Runs : Accounted(r)' <=> Accounted(r)
  BY <1>1, <1>5 DEF Accounted, Updates!Jobs
<1>8. OutcomesAccounted'
  BY <1>1, <1>2, <1>3, <1>5, <1>7 DEF OutcomesAccounted, Updates!Jobs, prev, Answers, q
<1>9. Alone'
  <2>1. ASSUME NEW r \in Runs \ raced, Kept(r) PROVE AloneOf(r)'
    BY <1>1, <1>2, <1>3, <1>5, <2>1 DEF Alone, AloneOf, Updates!Jobs, prev, Answers, q
  <2> QED BY <1>1, <2>1 DEF Alone, Kept
<1> QED BY <1>4, <1>6, <1>8, <1>9
\* The answer is stored, and its outcome is to be audited if the status changed.
LEMMA StoreStep ==
    ASSUME UpdatesInv, NEW j \in Updates!Jobs, Updates!Store(j)
    PROVE  UpdatesInv'
<1> USE DEF UpdatesInv
<1> DEFINE q == job[j]
           run0 == q.run
           audits == q.prev # "none" /\ q.prev # q.got /\ q.got \in Outcomes
<1>1. /\ q \in JobState /\ q.pc = "read" /\ run0 \in Runs /\ Answers(j, run0)
      /\ UNCHANGED <<stage, audited, raced>>
      /\ mirror' = [mirror EXCEPT ![run0] = q.got]
      /\ missed' = missed \cup {r \in {run0} : q.prev = "none" /\ q.got \in Outcomes}
      /\ IF audits THEN Updates!Go(j, "audit") ELSE Updates!End(j)
  BY StagesAre DEF Updates!Store, Updates!NeedsAudit, UpdatesTyped, Updates!hostVars, Answers
<1>2. PICK n \in JobState :
        /\ job' = [job EXCEPT ![j] = n]
        /\ IF audits THEN n.pc = "audit" /\ n.run = run0 ELSE n.pc \in {"idle", "round"}
  <2>1. CASE audits
    <3> DEFINE m == [q EXCEPT !.pc = "audit"]
    <3>1. job' = [job EXCEPT ![j] = m] BY <1>1, <2>1 DEF Updates!Go
    <3>2. m \in JobState /\ m.pc = "audit" /\ m.run = run0 BY <1>1 DEF JobState
    <3> QED BY <2>1, <3>1, <3>2
  <2>2. CASE ~audits
    BY <1>1, <2>2, JobEnds DEF Updates!End
  <2> QED BY <2>1, <2>2
<1>3. /\ mirror' \in [Runs -> Stages] /\ mirror'[run0] = q.got
      /\ \A r \in Runs \ {run0} : mirror'[r] = mirror[r]
  BY <1>1 DEF UpdatesTyped, JobState
<1>4. /\ job' \in [Updates!Jobs -> JobState] /\ job'[j] = n
      /\ \A i \in Updates!Jobs \ {j} : job'[i] = job[i]
  BY <1>2, JobIs
<1>5. q.got \in Outcomes /\ Kept(run0) => stage[run0] = q.got BY <1>1 DEF AnswersAreTrue
<1>6. q.prev \in Outcomes => Accounted(run0) BY <1>1 DEF OutcomesAccounted
<1>7. q.got \in Outcomes /\ q.prev = q.got => q.prev \in Outcomes OBVIOUS
<1>8. q.prev = "none" /\ q.got \in Outcomes => run0 \in missed' BY <1>1
<1>9. missed \subseteq missed' BY <1>1
<1> HIDE DEF audits
<1>10. \A i \in Updates!Jobs, r \in Runs :
        /\ Answers(i, r)' <=> Answers(i, r) /\ i # j
        /\ Audits(i, r)' <=> Audits(i, r) \/ (audits /\ i = j /\ r = run0)
        /\ i # j => job'[i] = job[i]
  BY <1>1, <1>2, <1>4 DEF Answers, Audits
<1>11. UpdatesTyped' BY <1>1, <1>2, <1>3, <1>4 DEF UpdatesTyped, Updates!Jobs
<1>12. AnswersAreTrue' BY <1>1, <1>10 DEF AnswersAreTrue, Updates!Jobs, Kept
<1>13. RowsAreTrue' BY <1>1, <1>3, <1>5 DEF RowsAreTrue, Kept
<1>14. \A r \in Runs : Accounted(r) => Accounted(r)'
  BY <1>1, <1>9, <1>10 DEF Accounted, Updates!Jobs
<1>15. OutcomesAccounted'
  <2>1. ASSUME NEW r \in Runs, mirror'[r] \in Outcomes PROVE Accounted(r)'
    <3>1. CASE r = run0 /\ audits BY <1>1, <1>10, <3>1 DEF Accounted, Updates!Jobs
    <3>2. CASE r = run0 /\ ~audits
      <4>1. q.got \in Outcomes BY <1>3, <2>1, <3>2
      <4>2. q.prev = "none" \/ q.prev = q.got BY <3>2, <4>1 DEF audits
      <4>3. CASE q.prev = "none" BY <1>8, <3>2, <4>1, <4>3 DEF Accounted
      <4>4. CASE q.prev = q.got
        <5>1. Accounted(r) BY <1>6, <3>2, <4>1, <4>4
        <5> QED BY <1>14, <5>1
      <4> QED BY <4>2, <4>3, <4>4
    <3>3. CASE r # run0
      <4>1. Accounted(r) BY <1>3, <2>1, <3>3 DEF OutcomesAccounted
      <4> QED BY <1>14, <4>1
    <3> QED BY <3>1, <3>2, <3>3
  <2>2. \A r \in Runs : mirror'[r] \in Outcomes => Accounted(r)' BY <2>1
  <2> QED BY <1>10, <1>14, <2>2 DEF OutcomesAccounted, Updates!Jobs
<1>16. Alone'
  <2>1. ASSUME NEW r \in Runs \ raced, Kept(r) PROVE AloneOf(r)'
    <3>1. AloneOf(r) BY <2>1 DEF Alone
    <3>2. CASE r = run0
      <4>1. \A i \in Updates!Jobs : ~Answers(i, r)'
        BY <1>1, <1>10, <3>1, <3>2 DEF AloneOf
      <4>2. ASSUME mirror[r] \in Outcomes PROVE mirror'[r] = mirror[r] /\ ~audits
        <5>1. q.got = mirror[r] /\ q.prev = mirror[r] BY <1>1, <3>1, <3>2, <4>2 DEF AloneOf
        <5> QED BY <1>3, <3>2, <5>1 DEF audits
      <4>3. ASSUME audits
            PROVE  /\ \A i \in Updates!Jobs : ~Audits(i, r)
                   /\ ~(audited[r] > 0) /\ mirror'[r] \in Outcomes
        <5>1. mirror[r] \notin Outcomes BY <4>2, <4>3
        <5>2. mirror'[r] \in Outcomes BY <1>3, <3>2, <4>3 DEF audits
        <5> QED BY <3>1, <5>1, <5>2 DEF AloneOf
      <4>4. audited[r] \in Nat BY DEF UpdatesTyped
      <4>5. audits => audited[r] = 0 BY <4>3, <4>4
      <4> QED BY <1>1, <1>10, <3>1, <3>2, <4>1, <4>2, <4>3, <4>5 DEF AloneOf, Updates!Jobs
    <3>3. CASE r # run0
      BY <1>1, <1>3, <1>10, <3>1, <3>3 DEF AloneOf, Updates!Jobs, Answers
    <3> QED BY <3>2, <3>3
  <2> QED BY <1>1, <2>1 DEF Alone, Kept
<1> QED BY <1>11, <1>12, <1>13, <1>15, <1>16

LEMMA AuditStep ==
    ASSUME UpdatesInv, NEW j \in Updates!Jobs, Updates!Audit(j)
    PROVE  UpdatesInv'
<1> USE DEF UpdatesInv
<1> DEFINE run0 == job[j].run
           n == Updates!Over(j)
<1>1. /\ Audits(j, run0) /\ run0 \in Runs /\ job' = [job EXCEPT ![j] = n]
      /\ audited' = [audited EXCEPT ![run0] = IF audited[run0] < 2 THEN audited[run0] + 1 ELSE 2]
      /\ UNCHANGED <<stage, mirror, missed, raced>>
  BY DEF Updates!Audit, Updates!End, Updates!hostVars, UpdatesTyped, Audits
<1>2. n \in JobState /\ n.pc \in {"idle", "round"} BY JobEnds
<1> HIDE DEF run0, n
<1>3. /\ job' \in [Updates!Jobs -> JobState] /\ job'[j] = n
      /\ \A i \in Updates!Jobs \ {j} : job'[i] = job[i]
  BY <1>1, <1>2, JobIs
<1>4. /\ audited' \in [Runs -> Nat] /\ audited'[run0] = IF audited[run0] < 2 THEN audited[run0] + 1 ELSE 2
      /\ \A r \in Runs \ {run0} : audited'[r] = audited[r]
  <2>1. audited \in [Runs -> Nat] BY DEF UpdatesTyped
  <2> QED BY <1>1, <2>1
<1>5. \A i \in Updates!Jobs, r \in Runs :
        /\ Answers(i, r)' <=> Answers(i, r) /\ i # j
        /\ Audits(i, r)' <=> Audits(i, r) /\ i # j
        /\ i # j => job'[i] = job[i]
        /\ Audits(j, r) => r = run0
  BY <1>1, <1>2, <1>3 DEF Answers, Audits
<1>6. UpdatesTyped' BY <1>1, <1>2, <1>3, <1>4 DEF UpdatesTyped, Updates!Jobs
<1>7. AnswersAreTrue' /\ RowsAreTrue'
  BY <1>1, <1>5 DEF AnswersAreTrue, RowsAreTrue, Updates!Jobs, Kept
<1>8. audited[run0] \in Nat BY <1>1 DEF UpdatesTyped
<1>9. audited'[run0] > 0 BY <1>4, <1>8
<1>10. \A r \in Runs : Accounted(r) => Accounted(r)'
  <2>1. ASSUME NEW r \in Runs, Accounted(r), r # run0 PROVE Accounted(r)'
    BY <1>1, <1>4, <1>5, <2>1 DEF Accounted, Updates!Jobs
  <2> QED BY <1>9, <2>1 DEF Accounted
<1>11. OutcomesAccounted'
  BY <1>1, <1>5, <1>10 DEF OutcomesAccounted, Updates!Jobs
<1>12. Alone'
  <2>1. ASSUME NEW r \in Runs \ raced, Kept(r) PROVE AloneOf(r)'
    <3>1. AloneOf(r) BY <2>1 DEF Alone
    <3>2. CASE r = run0
      <4>1. audited[r] = 0 /\ mirror[r] \in Outcomes
            /\ \A i \in Updates!Jobs : Audits(i, r) => i = j
        BY <1>1, <3>1, <3>2 DEF AloneOf
      <4>2. audited'[r] = 1 BY <1>4, <3>2, <4>1
      <4> QED BY <1>1, <1>5, <3>1, <4>1, <4>2 DEF AloneOf, Updates!Jobs
    <3>3. CASE r # run0
      BY <1>1, <1>4, <1>5, <3>1, <3>3 DEF AloneOf, Updates!Jobs
    <3> QED BY <3>2, <3>3
  <2> QED BY <1>1, <2>1 DEF Alone, Kept
<1> QED BY <1>6, <1>7, <1>11, <1>12

\* Every job is cut off; what was to be audited is missed.
LEMMA RestartStep ==
    ASSUME UpdatesInv, Updates!ApiRestart
    PROVE  UpdatesInv'
<1> USE DEF UpdatesInv
<1>1. /\ job' = [j \in Updates!Jobs |-> Updates!NoJob]
      /\ missed' = missed \cup {r \in Runs : \E j \in Updates!Jobs : Audits(j, r)}
      /\ UNCHANGED <<stage, mirror, audited, raced>>
  BY DEF Updates!ApiRestart, Updates!Cut, Updates!hostVars, Audits
<1>2. \A j \in Updates!Jobs, r \in Runs : ~Answers(j, r)' /\ ~Audits(j, r)'
  BY <1>1, NoJobIs DEF Answers, Audits
<1>3. UpdatesTyped' BY <1>1, NoJobIs DEF UpdatesTyped, Updates!Jobs
<1>4. AnswersAreTrue' /\ RowsAreTrue'
  BY <1>1, <1>2 DEF AnswersAreTrue, RowsAreTrue, Updates!Jobs, Kept
<1>5. \A r \in Runs : Accounted(r) => Accounted(r)'
  BY <1>1 DEF Accounted, Updates!Jobs
<1>6. OutcomesAccounted' BY <1>1, <1>2, <1>5 DEF OutcomesAccounted, Updates!Jobs
<1>7. Alone' BY <1>1, <1>2 DEF Alone, AloneOf, Updates!Jobs, Kept
<1> QED BY <1>3, <1>4, <1>6, <1>7

LEMMA UpdatesStep == UpdatesInv /\ Updates!UpdatesNext => UpdatesInv'
<1> SUFFICES ASSUME UpdatesInv, Updates!UpdatesNext PROVE UpdatesInv'
  OBVIOUS
<1> USE DEF UpdatesInv
<1>1. Clients \subseteq Updates!Jobs /\ Timers \subseteq Updates!Jobs BY DEF Updates!Jobs
<1>2. ASSUME NEW j \in Updates!Jobs, NEW r \in Runs,
             Updates!InstallCheck(j, r) \/ Updates!Refresh(j, r) \/ Updates!Cancel(j, r)
      PROVE  UpdatesInv'
  <2>1. PICK pc \in {"install", "cancel", "ask"} :
          job' = [job EXCEPT ![j] = [Updates!NoJob EXCEPT !.pc = pc, !.run = r]]
    BY <1>2 DEF Updates!InstallCheck, Updates!Refresh, Updates!Cancel
  <2>2. job[j].pc = "idle" /\ UNCHANGED <<stage, mirror, audited, raced, missed>>
    BY <1>2, NoJobIs DEF Updates!InstallCheck, Updates!Refresh, Updates!Cancel, Updates!hostVars
  <2> DEFINE q == Updates!NoJob
             n == [q EXCEPT !.pc = pc, !.run = r]
  <2>3. q \in JobState BY NoJobIs
  <2>4. job' = [job EXCEPT ![j] = n] BY <2>1
  <2> HIDE DEF q
  <2>5. n \in JobState /\ n.pc = pc /\ n.run = r BY <2>3 DEF JobState
  <2> HIDE DEF n
  <2> QED BY <2>2, <2>4, <2>5, QuietJobStep
<1>3. ASSUME NEW j \in Updates!Jobs, Updates!Round(j) PROVE UpdatesInv'
  <2> DEFINE q == Updates!NoJob
             todo == Updates!Followed
             n == [q EXCEPT !.pc = "round", !.todo = todo]
  <2>1. /\ job' = [job EXCEPT ![j] = n] /\ job[j].pc = "idle"
        /\ UNCHANGED <<stage, mirror, audited, raced, missed>>
    BY <1>3, NoJobIs DEF Updates!Round, Updates!hostVars
  <2>2. q \in JobState /\ todo \in SUBSET Runs
    BY NoJobIs DEF Updates!Followed, Updates!Active
  <2> HIDE DEF q, todo
  <2>3. n \in JobState /\ n.pc = "round" BY <2>2 DEF JobState
  <2> HIDE DEF n
  <2> QED BY <2>1, <2>3, QuietJobStep
<1>4. ASSUME NEW j \in Updates!Jobs, NEW r \in Runs, Updates!RoundNext(j, r)
      PROVE  UpdatesInv'
  <2> DEFINE q == job[j]
             todo == q.todo \ {r}
             n == [q EXCEPT !.pc = "ask", !.run = r, !.todo = todo]
  <2>1. /\ job' = [job EXCEPT ![j] = n] /\ q.pc = "round"
        /\ UNCHANGED <<stage, mirror, audited, raced, missed>>
    BY <1>4 DEF Updates!RoundNext, Updates!hostVars
  <2>2. q \in JobState /\ todo \in SUBSET Runs BY DEF UpdatesTyped, JobState
  <2> HIDE DEF todo, q
  <2>3. n \in JobState /\ n.pc = "ask" /\ n.run = r BY <2>2 DEF JobState
  <2> HIDE DEF n
  <2> QED BY <2>1, <2>3, QuietJobStep DEF q
<1>5. ASSUME NEW j \in Updates!Jobs, Updates!InstallAsk(j) PROVE UpdatesInv'
  <2> DEFINE q == job[j]
             n == [q EXCEPT !.pc = "ask"]
  <2>1. /\ q.pc = "install" /\ q \in JobState /\ q.run \in Runs
        /\ UNCHANGED <<stage, mirror, audited, raced, missed>>
        /\ job' = [job EXCEPT ![j] = n] \/ Updates!End(j)
    BY <1>5 DEF Updates!InstallAsk, Updates!Host!Take, Updates!Go, Updates!hostVars,
       UpdatesTyped
  <2> HIDE DEF q
  <2>2. n \in JobState /\ n.pc = "ask" /\ n.run = q.run BY <2>1 DEF JobState
  <2> HIDE DEF n
  <2>3. CASE job' = [job EXCEPT ![j] = n] BY <2>1, <2>2, <2>3, QuietJobStep DEF q
  <2>4. CASE Updates!End(j) BY <2>1, <2>4, JobEnds, QuietJobStep DEF q, Updates!End
  <2> QED BY <2>1, <2>3, <2>4
<1>10. ASSUME NEW j \in Updates!Jobs, Updates!CancelAsk(j) \/ Updates!CancelRun(j)
       PROVE  UpdatesInv'
  <2> DEFINE q == job[j]
  <2>1. /\ q.pc \in {"cancel", "cancelled"} /\ q \in JobState /\ q.run \in Runs
        /\ UNCHANGED <<stage, mirror, audited, raced, missed>>
        /\ \/ Updates!End(j)
           \/ \E pc \in {"cancelled", "ask"} : job' = [job EXCEPT ![j] = [q EXCEPT !.pc = pc]]
    BY <1>10 DEF Updates!CancelAsk, Updates!CancelRun, Updates!Go, Updates!hostVars, UpdatesTyped
  <2>2. CASE Updates!End(j) BY <2>1, <2>2, JobEnds, QuietJobStep DEF q, Updates!End
  <2>3. ASSUME NEW pc \in {"cancelled", "ask"}, job' = [job EXCEPT ![j] = [q EXCEPT !.pc = pc]]
        PROVE  UpdatesInv'
    <3> DEFINE n == [q EXCEPT !.pc = pc]
    <3>1. job' = [job EXCEPT ![j] = n] BY <2>3
    <3> HIDE DEF q
    <3>2. n \in JobState /\ n.pc = pc /\ n.run = q.run BY <2>1 DEF JobState
    <3> HIDE DEF n
    <3> QED BY <2>1, <3>1, <3>2, QuietJobStep DEF q
  <2> QED BY <2>1, <2>2, <2>3
<1>6. ASSUME NEW j \in Updates!Jobs, Updates!Fail(j) PROVE UpdatesInv'
  <2>1. /\ job' = [job EXCEPT ![j] = Updates!Over(j)]
        /\ missed' = missed \cup {r \in Runs : Audits(j, r)}
        /\ UNCHANGED <<stage, mirror, audited, raced>>
    BY <1>6 DEF Updates!Fail, Updates!End, Updates!AfterFailure, Updates!Cut, Updates!hostVars,
       Audits
  <2>2. job[j].pc = "audit" => job[j].run \in missed'
    BY <2>1 DEF Audits, UpdatesTyped
  <2> QED BY <2>1, <2>2, JobEnds, QuietJobStep
<1>7. ASSUME NEW j \in Updates!Jobs, Updates!Advance(j) PROVE UpdatesInv'
  BY <1>4, <1>5, <1>7, <1>10, AnswerStep, ReadPreviousStep, StoreStep, AuditStep DEF Updates!Advance
<1>8. CASE Updates!ApiRestart BY <1>8, RestartStep
<1>9. CASE Updates!HostStep
  <2>1. UNCHANGED <<mirror, audited, job, missed, raced>> BY <1>9 DEF Updates!HostStep
  <2> QED BY <1>9, <2>1, HostStepIs, HostGoesOn DEF UpdatesTyped
<1> QED BY <1>1, <1>2, <1>3, <1>6, <1>7, <1>8, <1>9 DEF Updates!UpdatesNext

LEMMA UpdatesInvariance == Spec => []UpdatesInv
<1>1. Init => UpdatesInv BY UpdatesInit DEF Init
<1>2. UpdatesInv /\ [Next]_allVars => UpdatesInv'
  <2> SUFFICES ASSUME UpdatesInv, [Next]_allVars PROVE UpdatesInv'
    OBVIOUS
  <2>1. CASE Updates!UpdatesNext BY <2>1, UpdatesStep
  <2>2. CASE UNCHANGED mirrorVars
    BY <2>2, HostGoesOn DEF mirrorVars, UpdatesInv, UpdatesTyped, OnlyLosses, Kept
  <2> QED BY <2>1, <2>2 DEF Next, allVars
<1> QED BY <1>1, <1>2, PTL DEF Spec, allVars

\* The API shows an outcome of an update only if it is the host's, whatever answers are
\* lost, late or stored after the row was read, unless a cancellation the updater
\* accepted lost the host's record.
THEOREM ShownOutcomesAreTrue == Spec => []OutcomeIsTheHosts
<1>1. UpdatesInv => OutcomeIsTheHosts
  BY StagesAre
  DEF UpdatesInv, RowsAreTrue, OutcomeIsTheHosts, Updates!OutcomeIsTheHosts, Updates!Lost, Kept
<1> QED BY <1>1, UpdatesInvariance, PTL

\* A shown outcome is audited, or about to be, unless the audit was cut off or an
\* install found the run over; and once only, unless two answers overlapped or the host's
\* record was lost.
THEOREM OutcomesAreAudited == Spec => []OutcomeAudited
<1>1. UpdatesInv => OutcomeAudited
  <2> SUFFICES ASSUME UpdatesInv, NEW r \in Runs
               PROVE  /\ mirror[r] \in Outcomes => Accounted(r)
                      /\ audited[r] > 1 => r \in raced \/ ~Kept(r)
    BY StagesAre DEF OutcomeAudited, Updates!OutcomeAudited, Accounted, Audits, Updates!Lost, Kept
  <2>1. audited[r] \in Nat BY DEF UpdatesInv, UpdatesTyped
  <2>2. r \notin raced /\ Kept(r) => (audited[r] > 0 => audited[r] = 1)
    BY DEF UpdatesInv, Alone, AloneOf
  <2>3. audited[r] > 1 => r \in raced \/ ~Kept(r) BY <2>1, <2>2
  <2> QED BY <2>3 DEF UpdatesInv, OutcomesAccounted
<1> QED BY <1>1, UpdatesInvariance, PTL
===============================================================================
