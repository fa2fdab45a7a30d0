--------------------------- MODULE ChatConversation ---------------------------
(***************************************************************************)
(* One chat conversation of apps/api/src/chat/chat.service.ts: a group     *)
(* with its owner, or a direct conversation of two members.  Every handler *)
(* is a request that reads, decides, and writes later by row id, so two    *)
(* requests interleave between those steps.  Reads that follow one another *)
(* are one step: the earlier of them only decide whether the request is    *)
(* refused.  transferGroupOwnership is one read-committed transaction: its *)
(* updateMany takes a snapshot, waits for the row locks, and evaluates its *)
(* condition again on what it finds.                                       *)
(*                                                                         *)
(* One message is followed: the first one sent.  Its payload is the set of *)
(* the members it is encrypted for.                                        *)
(***************************************************************************)
EXTENDS Naturals, FiniteSets, TLC

CONSTANTS
    Users, Requests,
    MinOthers  \* how many members a group has at least besides its creator: 2

VARIABLES
    kind,     \* the conversation: "none", "GROUP" or "DIRECT"
    role,     \* a participant row's role, "none" without a row
    gone,     \* rows with deletedAt set: removed, left, or deleted for oneself
    blocked,  \* who blocks the other member of a direct conversation
    msg,      \* the message: [state, from, to]
    req,      \* what each request has read and is about to do
    late,     \* became active after the keys of the payload were checked
    raced,    \* a write acted on a role or a row changed since its read
    edited    \* an edit was written after the message had been erased

rowVars == <<role, gone>>
msgVars == <<msg, late, edited>>
vars == <<kind, role, gone, blocked, msg, req, late, raced, edited>>

Roles == {"OWNER", "MEMBER"}
Ops == {"transfer", "add", "remove", "leave", "delete", "send", "edit",
        "erase"}
Idle == [op |-> "idle", pc |-> "idle", user |-> {}, other |-> {}, set |-> {},
         late |-> {}]
NoMessage == [state |-> "none", from |-> {}, to |-> {}]

\* The rows a query with archivedAt: null, deletedAt: null finds.
Active == {u \in Users : role[u] # "none" /\ u \notin gone}
Owners == {u \in Active : role[u] = "OWNER"}

Is(r, op, pc) == req[r].op = op /\ req[r].pc = pc
User(r) == CHOOSE u \in Users : req[r].user = {u}
Other(r) == CHOOSE u \in Users : req[r].other = {u}

\* The request goes on with its next await, with the set its query returned.
Go(r, pc) == req' = [req EXCEPT ![r].pc = pc]
GoWith(r, pc, S) == req' = [req EXCEPT ![r].pc = pc, ![r].set = S]
Start(r, op, pc, user, other) ==
    /\ req[r] = Idle
    /\ req' = [req EXCEPT ![r] = [Idle EXCEPT !.op = op, !.pc = pc,
                                              !.user = user, !.other = other]]
StartWith(r, op, pc, u, S) ==
    /\ req[r] = Idle
    /\ req' = [req EXCEPT ![r] = [Idle EXCEPT !.op = op, !.pc = pc, !.user = {u},
                                              !.set = S]]
End(r) == req' = [req EXCEPT ![r] = Idle]

\* Rows another transaction has updated and not committed: only a transfer
\* holds them across a wait.
LockedBy(t) == IF Is(t, "transfer", "promote") THEN req[t].set ELSE {}
Free(S, r) == \A t \in Requests \ {r} : S \cap LockedBy(t) = {}

\* Members who become active are late for the stored payload and for every
\* payload whose keys were already checked; those who go are no longer.
Checked(t) == req[t].set # {} /\ req[t].op \in {"send", "edit"}
WithLate(t, new) == IF Checked(t) THEN [req[t] EXCEPT !.late = @ \cup new] ELSE req[t]
Joins(new, done) ==
    /\ late' = IF msg.state = "sent" THEN late \cup new ELSE late
    /\ req' = [t \in Requests |-> IF t \in done THEN Idle ELSE WithLate(t, new)]
Goes(u, r) ==
    /\ gone' = gone \cup {u}
    /\ late' = late \ {u}
    /\ req' = [t \in Requests |-> IF t = r THEN Idle
                                  ELSE [req[t] EXCEPT !.late = @ \ {u}]]

\* The values of the rows, the message and the requests; only rows are gone.
TypeOK ==
    /\ kind \in {"none", "GROUP", "DIRECT"}
    /\ role \in [Users -> Roles \cup {"none"}]
    /\ gone \subseteq Users /\ blocked \subseteq Users
    /\ late \subseteq Users
    /\ \A u \in gone : role[u] # "none"
    /\ msg.state \in {"none", "sent", "erased"} /\ msg.to \subseteq Users
    /\ \A r \in Requests :
          /\ req[r].op \in Ops \cup {"idle"}
          /\ req[r].set \subseteq Users /\ req[r].late \subseteq Users
    /\ raced \in BOOLEAN /\ edited \in BOOLEAN

Init ==
    /\ kind = "none"
    /\ role = [u \in Users |-> "none"]
    /\ gone = {} /\ blocked = {} /\ late = {}
    /\ msg = NoMessage
    /\ req = [r \in Requests |-> Idle]
    /\ raced = FALSE /\ edited = FALSE

-------------------------------------------------------------------------------
\* A group begins with its creator as the owner and two others or more.
GroupConversation(u, S) ==
    /\ kind = "none"
    /\ u \notin S /\ Cardinality(S) >= MinOthers
    /\ kind' = "GROUP"
    /\ role' = [w \in Users |-> IF w = u THEN "OWNER"
                                ELSE IF w \in S THEN "MEMBER" ELSE "none"]
    /\ UNCHANGED <<gone, blocked, msgVars, req, raced>>

\* createDirectConversation is serializable: of two at once one is aborted,
\* finds the other's conversation and reopens it.
DirectConversation(u, v) ==
    /\ kind = "none"
    /\ u # v /\ blocked = {}
    /\ kind' = "DIRECT"
    /\ role' = [w \in Users |-> IF w \in {u, v} THEN "MEMBER" ELSE "none"]
    /\ UNCHANGED <<gone, blocked, msgVars, req, raced>>

\* Opening an existing direct conversation undoes one's own deletion of it.
Reopen(u) ==
    /\ kind = "DIRECT" /\ u \in gone /\ blocked = {}
    /\ gone' = gone \ {u}
    /\ Joins({u}, {})
    /\ UNCHANGED <<kind, role, blocked, msg, raced, edited>>

Block(u) ==
    /\ kind = "DIRECT" /\ role[u] # "none"
    /\ blocked' = blocked \cup {u}
    /\ UNCHANGED <<kind, rowVars, msgVars, req, raced>>

Unblock(u) ==
    /\ u \in blocked
    /\ blocked' = blocked \ {u}
    /\ UNCHANGED <<kind, rowVars, msgVars, req, raced>>

-------------------------------------------------------------------------------
TransferRead(r, u, v) ==
    /\ kind = "GROUP" /\ u # v
    /\ u \in Owners /\ v \in Active
    /\ Start(r, "transfer", "read", {u}, {v})
    /\ UNCHANGED <<kind, rowVars, blocked, msgVars, raced>>

\* updateMany finds the owners in its snapshot ...
DemoteStart(r) ==
    /\ Is(r, "transfer", "read")
    /\ GoWith(r, "demote", Owners)
    /\ UNCHANGED <<kind, rowVars, blocked, msgVars, raced>>

\* ... waits until nobody else has them locked, and takes those that still are.
DemoteLock(r) ==
    /\ Is(r, "transfer", "demote")
    /\ Free(req[r].set, r)
    /\ GoWith(r, "promote", req[r].set \cap Owners)
    /\ UNCHANGED <<kind, rowVars, blocked, msgVars, raced>>

\* TransferCommit with its two updates swapped.
TransferPromoteFirst(r) ==
    LET new == Other(r) IN
    /\ Is(r, "transfer", "promote")
    /\ Free({new}, r)
    /\ role' = [u \in Users |-> IF u \in req[r].set \cup {new} THEN "MEMBER" ELSE role[u]]
    /\ raced' = (raced \/ User(r) \notin req[r].set \/ new \notin Active)
    /\ End(r)
    /\ UNCHANGED <<kind, gone, blocked, msgVars>>

\* The new owner's row is updated by its id, whatever became of it.
TransferCommit(r) ==
    LET new == Other(r) IN
    /\ Is(r, "transfer", "promote")
    /\ Free({new}, r)
    /\ role' = [u \in Users |-> IF u = new THEN "OWNER"
                                ELSE IF u \in req[r].set THEN "MEMBER" ELSE role[u]]
    /\ raced' = (raced \/ User(r) \notin req[r].set \/ new \notin Active)
    /\ End(r)
    /\ UNCHANGED <<kind, gone, blocked, msgVars>>

-------------------------------------------------------------------------------
\* A member with a deleted row is refused; one with an active row is skipped.
AddRead(r, u, v) ==
    /\ kind = "GROUP" /\ u # v /\ u \in Owners
    /\ role[v] = "none"
    /\ Start(r, "add", "write", {}, {v})
    /\ UNCHANGED <<kind, rowVars, blocked, msgVars, raced>>

\* createMany skips the row another request has created meanwhile.
AddWrite(r) ==
    LET v == Other(r) IN
    /\ Is(r, "add", "write")
    /\ IF role[v] = "none"
       THEN role' = [role EXCEPT ![v] = "MEMBER"] /\ Joins({v}, {r})
       ELSE UNCHANGED role /\ Joins({}, {r})
    /\ UNCHANGED <<kind, gone, blocked, msg, edited, raced>>

RemoveRead(r, u, v) ==
    /\ kind = "GROUP" /\ u # v /\ u \in Owners
    /\ v \in Active \ Owners
    /\ Start(r, "remove", "write", {}, {v})
    /\ UNCHANGED <<kind, rowVars, blocked, msgVars, raced>>

RemoveWrite(r) ==
    /\ Is(r, "remove", "write")
    /\ Free({Other(r)}, r)
    /\ Goes(Other(r), r)
    /\ raced' = (raced \/ role[Other(r)] = "OWNER")
    /\ UNCHANGED <<kind, role, blocked, msg, edited>>

LeaveRead(r, u) ==
    /\ kind = "GROUP" /\ u \in Active \ Owners
    /\ Start(r, "leave", "write", {u}, {})
    /\ UNCHANGED <<kind, rowVars, blocked, msgVars, raced>>

LeaveWrite(r) ==
    /\ Is(r, "leave", "write")
    /\ Free({User(r)}, r)
    /\ Goes(User(r), r)
    /\ raced' = (raced \/ role[User(r)] = "OWNER")
    /\ UNCHANGED <<kind, role, blocked, msg, edited>>

\* Deleting a conversation for oneself asks neither for its type nor the role.
DeleteRead(r, u) ==
    /\ u \in Active
    /\ Start(r, "delete", "write", {u}, {})
    /\ UNCHANGED <<kind, rowVars, blocked, msgVars, raced>>

DeleteWrite(r) ==
    /\ Is(r, "delete", "write")
    /\ Free({User(r)}, r)
    /\ Goes(User(r), r)
    /\ UNCHANGED <<kind, role, blocked, msg, edited, raced>>

-------------------------------------------------------------------------------
\* requireParticipant, assertConversationSendAllowed and
\* resolveMessageKeyReferences.  In a direct conversation the other member must
\* be active and nobody blocked.  The envelope must hold a usable key of every
\* participant active now; whether keys are usable is left open, and the step
\* is taken when they are.
SendAllowed(u) ==
    /\ u \in Active
    /\ kind = "DIRECT" => Active # {u} /\ blocked = {}
\* Recipients when only the rows with the role MEMBER are asked for.
MemberRecipients == Active \ Owners
Recipients == Active

\* Only the envelope of the followed message is kept.
SendRead(r, u) ==
    /\ SendAllowed(u)
    /\ StartWith(r, "send", "write", u, IF msg.state = "none" THEN Recipients ELSE {})
    /\ UNCHANGED <<kind, rowVars, blocked, msgVars, raced>>

\* The message is stored and every deleted row but the sender's is restored.
Restored(r) == gone \ req[r].user

SendCommit(r) ==
    /\ Is(r, "send", "write")
    /\ gone' = gone \ Restored(r)
    /\ IF msg.state = "none"
       THEN /\ msg' = [state |-> "sent", from |-> req[r].user, to |-> req[r].set]
            /\ late' = req[r].late \cup Restored(r)
       ELSE /\ late' = IF msg.state = "sent" THEN late \cup Restored(r) ELSE late
            /\ UNCHANGED msg
    /\ req' = [t \in Requests |-> IF t = r THEN Idle ELSE WithLate(t, Restored(r))]
    /\ UNCHANGED <<kind, role, blocked, edited, raced>>

\* Only the sender's edit passes.  It checks the keys first and then reads
\* whether the message was erased.  Blocking does not matter.
EditKeys(r, u) ==
    /\ u \in Active
    /\ kind = "DIRECT" => Active # {u}
    /\ msg.state = "sent" /\ msg.from = {u}
    /\ StartWith(r, "edit", "read", u, Recipients)
    /\ UNCHANGED <<kind, rowVars, blocked, msgVars, raced>>

EditRead(r) ==
    /\ Is(r, "edit", "read")
    /\ IF msg.state = "sent" THEN Go(r, "write") ELSE End(r)
    /\ UNCHANGED <<kind, rowVars, blocked, msgVars, raced>>

EditWrite(r) ==
    /\ Is(r, "edit", "write")
    /\ msg' = [msg EXCEPT !.to = req[r].set]
    /\ late' = IF msg.state = "sent" THEN req[r].late ELSE late
    /\ edited' = (edited \/ msg.state = "erased")
    /\ End(r)
    /\ UNCHANGED <<kind, rowVars, blocked, raced>>

EraseRead(r, u) ==
    /\ u \in Active
    /\ msg.state = "sent" /\ msg.from = {u}
    /\ Start(r, "erase", "write", {u}, {})
    /\ UNCHANGED <<kind, rowVars, blocked, msgVars, raced>>

EraseWrite(r) ==
    /\ Is(r, "erase", "write")
    /\ msg' = [msg EXCEPT !.state = "erased", !.to = {}]
    /\ late' = {}
    /\ End(r)
    /\ UNCHANGED <<kind, rowVars, blocked, edited, raced>>

\* A request is refused (a permission, an unusable key, the fifteen minutes of
\* an edit), or its statement fails and the transaction is undone.
Reject(r) ==
    /\ req[r] # Idle
    /\ End(r)
    /\ UNCHANGED <<kind, rowVars, blocked, msgVars, raced>>

-------------------------------------------------------------------------------
Next ==
    \/ \E u \in Users : \/ \E S \in SUBSET Users : GroupConversation(u, S)
                        \/ \E v \in Users : DirectConversation(u, v)
                        \/ Reopen(u) \/ Block(u) \/ Unblock(u)
    \/ \E r \in Requests :
          \/ \E u, v \in Users : TransferRead(r, u, v) \/ AddRead(r, u, v) \/ RemoveRead(r, u, v)
          \/ \E u \in Users : \/ LeaveRead(r, u) \/ DeleteRead(r, u) \/ SendRead(r, u)
                              \/ EditKeys(r, u) \/ EraseRead(r, u)
          \/ DemoteStart(r) \/ DemoteLock(r) \/ TransferCommit(r)
          \/ AddWrite(r) \/ RemoveWrite(r) \/ LeaveWrite(r) \/ DeleteWrite(r)
          \/ SendCommit(r) \/ EditRead(r) \/ EditWrite(r) \/ EraseWrite(r)
          \/ Reject(r)

Spec == Init /\ [][Next]_vars

\* Members are interchangeable, and so are requests.
Symmetry == Permutations(Users) \cup Permutations(Requests)

-------------------------------------------------------------------------------
\* A group always has an owner's row, and exactly one as long as no write
\* acted on a row that another request had changed since it was read.  The row
\* may be deleted: an owner can delete the group for himself.
OneOwner ==
    LET rows == {u \in Users : role[u] = "OWNER"} IN
    kind = "GROUP" => rows # {} /\ (~raced => Cardinality(rows) = 1)

\* Whoever sees the message has a key in its envelope, however members left,
\* returned and edited meanwhile: but for those who became active after its
\* keys were checked.  Nobody has the payload of a message deleted for
\* everyone, unless an edit had read the message before.
MessageReaders ==
    /\ msg.state = "sent" => Active \ late \subseteq msg.to
    /\ msg.state = "erased" /\ ~edited => msg.to = {}

\* The one way back for a member who was removed from a group, or left it, which the
\* documentation rules out (ChatDeparture): the step that stores another member's message.
\* No invitation, transfer, edit or failed request brings one back.
ReturnsByMessage ==
    [][kind = "GROUP" /\ ~(gone \subseteq gone')
          => \E r \in Requests : /\ Is(r, "send", "write") /\ req'[r] = Idle
                                 /\ gone' \subseteq req[r].user]_vars
===============================================================================
