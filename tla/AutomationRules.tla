--------------------------- MODULE AutomationRules ---------------------------
(***************************************************************************)
(* One automation rule of a task board and its versions: the edits in      *)
(* apps/api/src/admin/admin.service.ts.  Each reads the rule, decides, and *)
(* writes some of its columns in a transaction that does not look again;   *)
(* of two at once one loses its changes, or some of them.                  *)
(***************************************************************************)
EXTENDS Naturals, Sequences

CONSTANTS
    Values,       \* what the columns may hold: "off" is one, the switch that is off
    First,        \* the columns of the rule as it is created
    Inputs,       \* updates that are asked for: some of the columns
    Drafts,       \* drafts that are saved: all of them but the type
    Edits,        \* requests at a time
    MaxVersion    \* bound: versions of the rule

Columns == {"type", "name", "config", "enabled"}

VARIABLES
    rule,        \* TaskBoardAutomationRule: [now, archived, version, draft]
    versions,    \* TaskBoardAutomationRuleVersion, by version
    edit,        \* the edits under way: the rule as read, as wanted, and the columns to write
    drifted      \* columns were written without a version, over a rule changed since it was read

ruleVars == <<rule, versions, edit, drifted>>

\* Some columns of a row are replaced.
Replace(row, columns, by) == [c \in Columns |-> IF c \in columns THEN by[c] ELSE row[c]]

NoDraft == {}
NoEdit == [op |-> "idle", seen |-> First, want |-> First, columns |-> {}]

\* createTaskBoardAutomationRule
RuleInit ==
    /\ rule = [now |-> First, archived |-> FALSE, version |-> 1, draft |-> NoDraft]
    /\ versions = <<First>>
    /\ edit = [e \in Edits |-> NoEdit]
    /\ drifted = FALSE

-------------------------------------------------------------------------------
Read(e, op, want, columns) ==
    /\ edit[e] = NoEdit
    /\ edit' = [edit EXCEPT ![e] =
                  [op |-> op, seen |-> rule.now, want |-> want, columns |-> columns]]
    /\ UNCHANGED <<rule, versions, drifted>>

\* The type and the configuration are written as given, or else as they were read; the
\* name and the switch only if they are given.
UpdateRead(e) ==
    /\ ~rule.archived
    /\ \E input \in Inputs :
          Read(e, "update", Replace(rule.now, DOMAIN input, input),
               {"type", "config"} \cup DOMAIN input)
PublishRead(e) ==
    /\ ~rule.archived
    /\ \E draft \in rule.draft :
          Read(e, "publish", Replace(rule.now, DOMAIN draft, draft), DOMAIN draft)
RollbackRead(e) ==
    /\ ~rule.archived
    /\ \E v \in DOMAIN versions : v # rule.version /\ Read(e, "rollback", versions[v], Columns)
ArchiveRead(e) == ~rule.archived /\ Read(e, "archive", rule.now, {})
\* A rule that is no longer valid is restored disabled.
RestoreRead(e) ==
    /\ rule.archived
    /\ \E enabled \in {rule.now["enabled"], "off"} :
          Read(e, "restore", [rule.now EXCEPT !["enabled"] = enabled], {"enabled"})

\* The row after the transaction's update.
After(e) ==
    [now |-> Replace(rule.now, edit[e].columns, edit[e].want),
     archived |-> IF edit[e].op \in {"archive", "restore"} THEN edit[e].op = "archive"
                  ELSE rule.archived,
     version |-> rule.version,
     draft |-> IF edit[e].op = "publish" THEN NoDraft ELSE rule.draft]

\* An update or a publication counts a version if the rule as read differs from what is wanted.
Counts(e) == edit[e].op \in {"update", "publish"} => edit[e].want # edit[e].seen

\* automationRuleVersionData: of the row as it was written. The mutant records what was wanted.
RecordWanted(e) == Append(versions, edit[e].want)
Record(e) == Append(versions, After(e).now)

Write(e) ==
    /\ edit[e] # NoEdit
    /\ IF Counts(e)
       THEN /\ rule.version < MaxVersion
            /\ rule' = [After(e) EXCEPT !.version = @ + 1] /\ versions' = Record(e)
            /\ drifted' = FALSE
       ELSE /\ rule' = After(e) /\ UNCHANGED versions
            /\ drifted' = (drifted \/ edit[e].seen # rule.now)
    /\ edit' = [edit EXCEPT ![e] = NoEdit]

\* saveTaskBoardAutomationRuleDraft and discardTaskBoardAutomationRuleDraft
\* write only the draft, whose loss no property is about: one step.
SaveDraft ==
    /\ ~rule.archived
    /\ \E draft \in Drafts : rule' = [rule EXCEPT !.draft = {draft}]
    /\ UNCHANGED <<versions, edit, drifted>>
DiscardDraft ==
    /\ rule.draft # NoDraft /\ rule' = [rule EXCEPT !.draft = NoDraft]
    /\ UNCHANGED <<versions, edit, drifted>>

\* A request is refused, fails or is cut off.
Abort(e) ==
    /\ edit[e] # NoEdit
    /\ edit' = [edit EXCEPT ![e] = NoEdit]
    /\ UNCHANGED <<rule, versions, drifted>>

RuleNext ==
    \/ \E e \in Edits : \/ UpdateRead(e) \/ PublishRead(e) \/ RollbackRead(e)
                        \/ ArchiveRead(e) \/ RestoreRead(e) \/ Write(e) \/ Abort(e)
    \/ SaveDraft \/ DiscardDraft

RuleSpec == RuleInit /\ [][RuleNext]_ruleVars

-------------------------------------------------------------------------------
\* However edits of stale copies overlap, and whichever columns each of them writes: the
\* rule is what its newest version says, and the versions are numbered without a gap. The
\* exception is an edit that found nothing to change and wrote its stale columns without a
\* version, until the next version; even then every column holds what some version recorded.
RuleIsItsNewestVersion ==
    /\ Len(versions) = rule.version
    /\ ~drifted => versions[rule.version] = rule.now
    /\ \A c \in Columns : \E v \in DOMAIN versions : versions[v][c] = rule.now[c]
==============================================================================
