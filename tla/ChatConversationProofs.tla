------------------------ MODULE ChatConversationProofs ------------------------
(***************************************************************************)
(* Theorems about ChatConversation, for any members and any requests.      *)
(*                                                                         *)
(* OneOwner is about requests that decided earlier: a transfer promotes by *)
(* row id, so it keeps exactly one owner only because the rows it demotes  *)
(* are owners it has locked (Locks), and because its member had a row when *)
(* it was asked for and rows are never removed (Asked).  MessageReaders is *)
(* about payloads not yet stored: Payloads says of each of them what       *)
(* MessageReaders says of the message.                                     *)
(***************************************************************************)
EXTENDS ChatConversation, FiniteSetTheorems, TLAPS

Message == [state : {"none", "sent", "erased"}, from : SUBSET Users,
            to : SUBSET Users]
Request == [op : Ops \cup {"idle"},
            pc : {"idle", "read", "demote", "promote", "write"},
            user : SUBSET Users, other : SUBSET Users, set : SUBSET Users,
            late : SUBSET Users]

OwnerRows == {u \in Users : role[u] = "OWNER"}

\* The model's variables, the fields of the requests included.
Typed ==
    /\ kind \in {"none", "GROUP", "DIRECT"}
    /\ role \in [Users -> Roles \cup {"none"}]
    /\ gone \subseteq Users /\ blocked \subseteq Users /\ late \subseteq Users
    /\ \A u \in gone : role[u] # "none"
    /\ msg \in Message
    /\ req \in [Requests -> Request]
    /\ raced \in BOOLEAN /\ edited \in BOOLEAN

\* Before the conversation is created nobody has a row, nothing was sent and
\* no request is under way.
Beginning ==
    kind = "none" => /\ \A u \in Users : role[u] = "none"
                     /\ msg = NoMessage
                     /\ \A r \in Requests : req[r] = Idle

\* Whom a request is about, and that they have rows: rows are never removed.
AskedOf(q) ==
    /\ q.op = "idle" => q = Idle
    /\ q.op \in {"transfer", "add", "remove"} => \E v \in Users : q.other = {v}
    /\ q.op \in {"transfer", "leave", "delete"} => \E u \in Users : q.user = {u}
    /\ q.op \in {"transfer", "remove"} => \A v \in q.other : role[v] # "none"
    /\ q.op \in {"leave", "delete"} => \A u \in q.user : role[u] # "none"
Asked == \A r \in Requests : AskedOf(req[r])

\* The rows a transfer has demoted and not committed are owners' rows, and no
\* other transfer's.
Locks ==
    /\ \A r \in Requests : LockedBy(r) \subseteq OwnerRows
    /\ \A r, t \in Requests : r # t => LockedBy(r) \cap LockedBy(t) = {}

\* OneOwner without Cardinality.
OneRow ==
    kind = "GROUP" => /\ OwnerRows # {}
                      /\ ~raced => \E u \in Users : OwnerRows = {u}

\* A payload whose keys were checked covers everyone active who is not late
\* for it.  A message without one is not the first; only stored messages are
\* edited.
PayloadOf(r) ==
    /\ Is(r, "send", "write") /\ req[r].set = {} => msg.state # "none"
    /\ req[r].op = "edit" => msg.state # "none" /\ req[r].set # {}
    /\ Checked(r) => Active \ req[r].late \subseteq req[r].set
Payloads == \A r \in Requests : PayloadOf(r)

ConversationInv ==
    Typed /\ Beginning /\ Asked /\ Locks /\ OneRow /\ Payloads /\ MessageReaders
-------------------------------------------------------------------------------
(***************************************************************************)
(* How a step changes the requests.                                        *)
(***************************************************************************)

\* The request is under way as before; its late members may have changed.
Same(t) ==
    /\ req'[t].op = req[t].op /\ req'[t].pc = req[t].pc
    /\ req'[t].user = req[t].user /\ req'[t].other = req[t].other
    /\ req'[t].set = req[t].set

\* The request is under way as before, or it has ended.
Ended(t) == req'[t] = Idle
Kept(t) == Ended(t) \/ (Same(t) /\ req[t].op # "idle")

\* The member or the other member a request is about, when it is about one.
LEMMA WhoIs ==
    ASSUME NEW r \in Requests, NEW u \in Users
    PROVE  /\ req[r].user = {u} => User(r) = u
           /\ req[r].other = {u} => Other(r) = u
BY DEF User, Other

\* The idle request is a request about nobody.
LEMMA IdleIs ==
    /\ Idle \in Request /\ AskedOf(Idle)
    /\ Idle.op = "idle" /\ Idle.pc = "idle" /\ Idle.user = {} /\ Idle.other = {}
    /\ Idle.set = {} /\ Idle.late = {}
BY DEF Idle, Request, Ops, AskedOf

\* A request with other late members is the same request otherwise.
LEMMA LateEdit ==
    ASSUME NEW q \in Request, NEW S \in SUBSET Users,
           NEW n, n = [q EXCEPT !.late = S]
    PROVE  /\ n \in Request
           /\ n.op = q.op /\ n.pc = q.pc /\ n.user = q.user /\ n.other = q.other
           /\ n.set = q.set /\ n.late = S
BY DEF Request

\* When members join, every payload whose keys were checked has them late.
LEMMA WithLateIs ==
    ASSUME Typed, NEW t \in Requests, NEW new \in SUBSET Users,
           req'[t] = WithLate(t, new)
    PROVE  /\ req'[t] \in Request /\ Same(t)
           /\ req[t] = Idle => req'[t] = Idle
           /\ Checked(t) => req'[t].late = req[t].late \cup new
           /\ ~Checked(t) => req'[t] = req[t]
<1> DEFINE S == req[t].late \cup new
<1>1. req[t] \in Request BY DEF Typed
<1>2. S \in SUBSET Users BY <1>1 DEF Request
<1>3. CASE Checked(t)
  <2>1. req'[t] = [req[t] EXCEPT !.late = S] BY <1>3 DEF WithLate
  <2>2. req[t] # Idle BY <1>3, IdleIs DEF Checked
  <2> HIDE DEF S
  <2> DEFINE q == req[t]  n == req'[t]
  <2>3. n = [q EXCEPT !.late = S] BY <2>1
  <2>4. q \in Request /\ S \in SUBSET Users BY <1>1, <1>2
  <2> HIDE DEF q, n
  <2>5. /\ n \in Request
        /\ n.op = q.op /\ n.pc = q.pc /\ n.user = q.user
        /\ n.other = q.other /\ n.set = q.set /\ n.late = S
    BY <2>3, <2>4, LateEdit
  <2> QED BY <1>3, <2>2, <2>5 DEF S, q, n, Same
<1>4. CASE ~Checked(t)
  BY <1>1, <1>4 DEF WithLate, Same
<1> QED BY <1>3, <1>4

\* When a member goes, he is late for no payload.
LEMMA GoesIs ==
    ASSUME Typed, NEW u \in Users, NEW r \in Requests, Goes(u, r)
    PROVE  /\ req' \in [Requests -> Request] /\ Ended(r)
           /\ \A t \in Requests \ {r} :
                 /\ Same(t) /\ req'[t].late = req[t].late \ {u}
                 /\ req[t] = Idle => Ended(t)
<1>1. Ended(r) BY DEF Goes, Ended
<1>2. ASSUME NEW t \in Requests \ {r}
      PROVE  /\ req'[t] \in Request /\ Same(t)
             /\ req'[t].late = req[t].late \ {u}
             /\ req[t] = Idle => Ended(t)
  <2> DEFINE S == req[t].late \ {u}
  <2>1. req[t] \in Request BY DEF Typed
  <2>2. S \in SUBSET Users BY <2>1 DEF Request
  <2>3. req'[t] = [req[t] EXCEPT !.late = S] BY <1>2 DEF Goes
  <2>4. ASSUME req[t] = Idle PROVE Ended(t)
    BY <2>3, <2>4 DEF Idle, Ended
  <2> HIDE DEF S
  <2>5. req'[t] \in Request /\ Same(t) /\ req'[t].late = S
    BY <2>1, <2>2, <2>3, LateEdit DEF Same
  <2> QED BY <2>4, <2>5 DEF S
<1>3. req' = [t \in Requests |-> req'[t]] BY DEF Goes
<1> QED BY <1>1, <1>2, <1>3, IdleIs DEF Ended

\* Nothing happens to a request a step leaves alone or ends.
LEMMA AskedStays ==
    ASSUME Typed, Asked, Locks,
           \A t \in Requests : Kept(t) \/ Ended(t) \/ req'[t] = req[t],
           \A u \in Users : role[u] # "none" => role'[u] # "none",
           \A t \in Requests : Ended(t) \/ \A u \in LockedBy(t) : role'[u] = "OWNER"
    PROVE  Asked' /\ Locks'
<1>1. \A t \in Requests : req[t] \in Request BY DEF Typed
<1>2. ASSUME NEW t \in Requests PROVE AskedOf(req[t])'
  <2>1. CASE Ended(t) BY <2>1, IdleIs DEF AskedOf, Ended
  <2>2. CASE ~Ended(t)
    BY <1>1, <2>2 DEF AskedOf, Asked, Kept, Same, Ended, Request
  <2> QED BY <2>1, <2>2
<1>3. \A t \in Requests : LockedBy(t)' = IF Ended(t) THEN {} ELSE LockedBy(t)
  BY IdleIs DEF LockedBy, Is, Kept, Same, Ended
<1>4. \A t \in Requests : LockedBy(t)' \subseteq {u \in Users : role'[u] = "OWNER"}
  BY <1>1, <1>3 DEF LockedBy, Request
<1> QED BY <1>2, <1>3, <1>4 DEF Asked, Locks, OwnerRows
-------------------------------------------------------------------------------
(***************************************************************************)
(* Steps that only one request notices: it begins, reads, locks, or ends.  *)
(***************************************************************************)

Only(r) ==
    /\ UNCHANGED <<kind, rowVars, blocked, msgVars, raced>>
    /\ req' = [req EXCEPT ![r] = req'[r]]

\* What the request must then be, as seen from the rows and the message.
Fits(r) ==
    /\ kind # "none" \/ Ended(r)
    /\ AskedOf(req'[r])
    /\ req'[r].op = "transfer" /\ req'[r].pc = "promote" =>
          /\ req'[r].set \subseteq OwnerRows
          /\ \A t \in Requests \ {r} : req'[r].set \cap LockedBy(t) = {}
    /\ req'[r].op = "send" /\ req'[r].pc = "write" /\ req'[r].set = {} =>
          msg.state # "none"
    /\ req'[r].op = "edit" => msg.state # "none" /\ req'[r].set # {}
    /\ req'[r].op \in {"send", "edit"} => Active \ req'[r].late \subseteq req'[r].set \/ req'[r].set = {}

LEMMA OnlyStep ==
    ASSUME ConversationInv, NEW r \in Requests, Only(r), req'[r] \in Request, Fits(r)
    PROVE  ConversationInv'
<1>1. /\ UNCHANGED <<kind, role, gone, blocked, msg, late, edited, raced>>
      /\ \A t \in Requests \ {r} : req'[t] = req[t]
      /\ Active' = Active /\ OwnerRows' = OwnerRows
  <2>1. UNCHANGED <<kind, role, gone, blocked, msg, late, edited, raced>>
    BY DEF Only, rowVars, msgVars
  <2>2. \A t \in Requests \ {r} : req'[t] = req[t]
    BY DEF Only, ConversationInv, Typed
  <2> QED BY <2>1, <2>2 DEF Active, OwnerRows
<1>2. Typed'
  <2>1. req' \in [Requests -> Request] BY DEF Only, ConversationInv, Typed
  <2> QED BY <1>1, <2>1 DEF ConversationInv, Typed
<1>3. Beginning'
  BY <1>1 DEF ConversationInv, Beginning, Fits, Ended
<1>4. Asked'
  BY <1>1 DEF ConversationInv, Asked, AskedOf, Fits
<1>5. Locks'
  <2>1. \A t \in Requests \ {r} : LockedBy(t)' = LockedBy(t)
    BY <1>1 DEF LockedBy, Is
  <2>2. LockedBy(r)' \subseteq OwnerRows
    BY DEF LockedBy, Is, Fits
  <2>3. \A t \in Requests \ {r} : LockedBy(r)' \cap LockedBy(t) = {}
    BY DEF LockedBy, Is, Fits
  <2> QED BY <1>1, <2>1, <2>2, <2>3 DEF ConversationInv, Locks
<1>6. OneRow' BY <1>1 DEF ConversationInv, OneRow
<1>7. Payloads'
  <2>1. \A t \in Requests \ {r} : PayloadOf(t)'
    BY <1>1 DEF ConversationInv, Payloads, PayloadOf, Is, Checked
  <2>2. PayloadOf(r)'
    BY <1>1 DEF PayloadOf, Is, Checked, Fits
  <2> QED BY <2>1, <2>2 DEF Payloads
<1>8. MessageReaders' BY <1>1 DEF ConversationInv, MessageReaders
<1> QED BY <1>2, <1>3, <1>4, <1>5, <1>6, <1>7, <1>8 DEF ConversationInv

\* The ways a request goes on, and what is then known of it.
LEMMA StartIs ==
    ASSUME Typed, NEW r \in Requests, NEW op \in Ops, NEW pc \in {"read", "write"},
           NEW user \in SUBSET Users, NEW other \in SUBSET Users,
           Start(r, op, pc, user, other),
           UNCHANGED <<kind, rowVars, blocked, msgVars, raced>>
    PROVE  /\ Only(r) /\ req'[r] \in Request
           /\ req'[r].op = op /\ req'[r].pc = pc /\ req'[r].user = user
           /\ req'[r].other = other /\ req'[r].set = {} /\ req'[r].late = {}
<1> DEFINE n == [Idle EXCEPT !.op = op, !.pc = pc, !.user = user, !.other = other]
<1>1. req'[r] = n /\ Only(r) BY DEF Start, Only, Typed
<1>2. /\ n \in Request
      /\ n.op = op /\ n.pc = pc /\ n.user = user /\ n.other = other
      /\ n.set = {} /\ n.late = {}
  BY DEF Idle, Request, Ops
<1> HIDE DEF n
<1> QED BY <1>1, <1>2

LEMMA StartWithIs ==
    ASSUME Typed, NEW r \in Requests, NEW op \in Ops, NEW pc \in {"read", "write"},
           NEW u \in Users, NEW S \in SUBSET Users, StartWith(r, op, pc, u, S),
           UNCHANGED <<kind, rowVars, blocked, msgVars, raced>>
    PROVE  /\ Only(r) /\ req'[r] \in Request
           /\ req'[r].op = op /\ req'[r].pc = pc /\ req'[r].user = {u}
           /\ req'[r].other = {} /\ req'[r].set = S /\ req'[r].late = {}
<1> DEFINE n == [Idle EXCEPT !.op = op, !.pc = pc, !.user = {u}, !.set = S]
<1>1. req'[r] = n /\ Only(r) BY DEF StartWith, Only, Typed
<1>2. /\ n \in Request
      /\ n.op = op /\ n.pc = pc /\ n.user = {u} /\ n.other = {}
      /\ n.set = S /\ n.late = {}
  BY DEF Idle, Request, Ops
<1> HIDE DEF n
<1> QED BY <1>1, <1>2

LEMMA GoWithIs ==
    ASSUME Typed, NEW r \in Requests, NEW pc \in {"demote", "promote"},
           NEW S \in SUBSET Users, GoWith(r, pc, S),
           UNCHANGED <<kind, rowVars, blocked, msgVars, raced>>
    PROVE  /\ Only(r) /\ req'[r] \in Request
           /\ req'[r].op = req[r].op /\ req'[r].pc = pc
           /\ req'[r].user = req[r].user /\ req'[r].other = req[r].other
           /\ req'[r].set = S
<1> DEFINE q == req[r]
           n == [q EXCEPT !.pc = pc, !.set = S]
<1>1. req'[r] = n /\ Only(r) BY DEF GoWith, Only, Typed
<1>2. q \in Request BY DEF Typed
<1> HIDE DEF q
<1>3. /\ n \in Request
      /\ n.op = q.op /\ n.pc = pc /\ n.user = q.user /\ n.other = q.other
      /\ n.set = S
  BY <1>2 DEF Request
<1> HIDE DEF n
<1> QED BY <1>1, <1>3 DEF q

LEMMA GoIs ==
    ASSUME Typed, NEW r \in Requests, Go(r, "write"),
           UNCHANGED <<kind, rowVars, blocked, msgVars, raced>>
    PROVE  /\ Only(r) /\ req'[r] \in Request
           /\ req'[r].op = req[r].op /\ req'[r].pc = "write"
           /\ req'[r].user = req[r].user /\ req'[r].other = req[r].other
           /\ req'[r].set = req[r].set /\ req'[r].late = req[r].late
<1> DEFINE q == req[r]
           n == [q EXCEPT !.pc = "write"]
<1>1. req'[r] = n /\ Only(r) BY DEF Go, Only, Typed
<1>2. q \in Request BY DEF Typed
<1> HIDE DEF q
<1>3. /\ n \in Request
      /\ n.op = q.op /\ n.pc = "write" /\ n.user = q.user /\ n.other = q.other
      /\ n.set = q.set /\ n.late = q.late
  BY <1>2 DEF Request
<1> HIDE DEF n
<1> QED BY <1>1, <1>3 DEF q

LEMMA EndStep ==
    ASSUME ConversationInv, NEW r \in Requests, End(r),
           UNCHANGED <<kind, rowVars, blocked, msgVars, raced>>
    PROVE  ConversationInv'
<1>1. req'[r] = Idle /\ Only(r) BY DEF End, Only, ConversationInv, Typed
<1> QED BY <1>1, IdleIs, OnlyStep DEF Fits, Ended
\* The requests that begin, read and lock.
LEMMA ReadsStep ==
    ASSUME ConversationInv, NEW r \in Requests,
           \/ \E u, v \in Users : TransferRead(r, u, v) \/ AddRead(r, u, v) \/ RemoveRead(r, u, v)
           \/ \E u \in Users : \/ LeaveRead(r, u) \/ DeleteRead(r, u) \/ SendRead(r, u)
                               \/ EditKeys(r, u) \/ EraseRead(r, u)
           \/ DemoteStart(r) \/ DemoteLock(r) \/ EditRead(r) \/ Reject(r)
    PROVE  ConversationInv'
<1> USE DEF ConversationInv
<1>1. \A u \in Active : u \in Users /\ role[u] # "none" /\ kind # "none"
  BY DEF Active, Beginning
<1>2. Owners \subseteq Active /\ Owners \subseteq OwnerRows /\ Active \in SUBSET Users
      /\ Owners \in SUBSET Users
  BY DEF Owners, Active, OwnerRows
<1>3. req[r] \in Request BY DEF Typed
<1>4. ASSUME NEW u \in Users, NEW v \in Users,
             TransferRead(r, u, v) \/ AddRead(r, u, v) \/ RemoveRead(r, u, v)
      PROVE  ConversationInv'
  <2>1. CASE TransferRead(r, u, v)
    <3>1. /\ Only(r) /\ req'[r] \in Request
          /\ req'[r].op = "transfer" /\ req'[r].pc = "read" /\ req'[r].user = {u}
          /\ req'[r].other = {v}
      BY <2>1, StartIs DEF TransferRead, Ops
    <3>2. Fits(r) BY <1>1, <1>2, <2>1, <3>1 DEF TransferRead, Fits, AskedOf
    <3> QED BY <3>1, <3>2, OnlyStep
  <2>2. CASE AddRead(r, u, v)
    <3>1. /\ Start(r, "add", "write", {}, {v}) /\ "add" \in Ops
          /\ UNCHANGED <<kind, rowVars, blocked, msgVars, raced>>
          /\ {} \in SUBSET Users /\ {v} \in SUBSET Users
      BY <2>2 DEF AddRead, Ops
    <3>2. /\ Only(r) /\ req'[r] \in Request
          /\ req'[r].op = "add" /\ req'[r].pc = "write" /\ req'[r].other = {v}
      BY <3>1, StartIs
    <3>3. Fits(r) BY <1>1, <1>2, <2>2, <3>2 DEF AddRead, Fits, AskedOf
    <3> QED BY <3>2, <3>3, OnlyStep
  <2>3. CASE RemoveRead(r, u, v)
    <3>1. /\ Start(r, "remove", "write", {}, {v}) /\ "remove" \in Ops
          /\ UNCHANGED <<kind, rowVars, blocked, msgVars, raced>>
          /\ {} \in SUBSET Users /\ {v} \in SUBSET Users
      BY <2>3 DEF RemoveRead, Ops
    <3>2. /\ Only(r) /\ req'[r] \in Request
          /\ req'[r].op = "remove" /\ req'[r].pc = "write" /\ req'[r].other = {v}
      BY <3>1, StartIs
    <3>3. Fits(r) BY <1>1, <1>2, <2>3, <3>2 DEF RemoveRead, Fits, AskedOf
    <3> QED BY <3>2, <3>3, OnlyStep
  <2> QED BY <1>4, <2>1, <2>2, <2>3
<1>5. ASSUME NEW u \in Users,
             LeaveRead(r, u) \/ DeleteRead(r, u) \/ EraseRead(r, u)
      PROVE  ConversationInv'
  <2>1. PICK op \in {"leave", "delete", "erase"} : Start(r, op, "write", {u}, {})
    BY <1>5 DEF LeaveRead, DeleteRead, EraseRead
  <2>2. u \in Active /\ UNCHANGED <<kind, rowVars, blocked, msgVars, raced>>
    BY <1>5 DEF LeaveRead, DeleteRead, EraseRead
  <2>3. op \in Ops /\ {} \in SUBSET Users /\ {u} \in SUBSET Users
    BY DEF Ops
  <2>4. /\ Only(r) /\ req'[r] \in Request
        /\ req'[r].op = op /\ req'[r].pc = "write" /\ req'[r].user = {u}
    BY <2>1, <2>2, <2>3, StartIs
  <2>5. Fits(r) BY <1>1, <2>2, <2>4 DEF Fits, AskedOf
  <2> QED BY <2>4, <2>5, OnlyStep
<1>6. ASSUME NEW u \in Users, SendRead(r, u) PROVE ConversationInv'
  <2> DEFINE S == IF msg.state = "none" THEN Recipients ELSE {}
  <2>1. u \in Active /\ S \in SUBSET Users
    BY <1>2, <1>6 DEF SendRead, SendAllowed, Recipients
  <2>2. /\ Only(r) /\ req'[r] \in Request
        /\ req'[r].op = "send" /\ req'[r].pc = "write" /\ req'[r].set = S
    BY <1>6, <2>1, StartWithIs DEF SendRead, Ops
  <2>3. msg.state = "none" => S = Active
    BY DEF Recipients
  <2>4. msg.state # "none" => S = {}
    OBVIOUS
  <2> HIDE DEF S
  <2>5. Fits(r) BY <1>1, <2>1, <2>2, <2>3, <2>4 DEF Fits, AskedOf
  <2> QED BY <2>2, <2>5, OnlyStep
<1>7. ASSUME NEW u \in Users, EditKeys(r, u) PROVE ConversationInv'
  <2>1. u \in Active /\ msg.state = "sent" BY <1>7 DEF EditKeys
  <2>2. /\ Only(r) /\ req'[r] \in Request
        /\ req'[r].op = "edit" /\ req'[r].pc = "read" /\ req'[r].set = Active
    BY <1>2, <1>7, StartWithIs DEF EditKeys, Ops, Recipients
  <2>3. Fits(r) BY <1>1, <2>1, <2>2 DEF Fits, AskedOf
  <2> QED BY <2>2, <2>3, OnlyStep
<1>8. CASE DemoteStart(r)
  <2>1. /\ Only(r) /\ req'[r] \in Request
        /\ req'[r].op = "transfer" /\ req'[r].pc = "demote"
        /\ req'[r].user = req[r].user /\ req'[r].other = req[r].other
    BY <1>2, <1>8, GoWithIs DEF DemoteStart, Is
  <2>2. req[r].op = "transfer" /\ req[r] # Idle
    BY <1>8, IdleIs DEF DemoteStart, Is
  <2>3. Fits(r) BY <2>1, <2>2 DEF Fits, AskedOf, Asked, Beginning
  <2> QED BY <2>1, <2>3, OnlyStep
<1>9. CASE DemoteLock(r)
  <2>1. req[r].set \cap Owners \in SUBSET Users BY <1>2
  <2>2. /\ Only(r) /\ req'[r] \in Request
        /\ req'[r].op = "transfer" /\ req'[r].pc = "promote"
        /\ req'[r].user = req[r].user /\ req'[r].other = req[r].other
        /\ req'[r].set = req[r].set \cap Owners
    BY <1>9, <2>1, GoWithIs DEF DemoteLock, Is
  <2>3. req[r].op = "transfer" /\ req[r] # Idle
    BY <1>9, IdleIs DEF DemoteLock, Is
  <2>4. \A t \in Requests \ {r} : req[r].set \cap LockedBy(t) = {}
    BY <1>9 DEF DemoteLock, Free
  <2>5. Fits(r) BY <1>2, <2>2, <2>3, <2>4 DEF Fits, AskedOf, Asked, Beginning
  <2> QED BY <2>2, <2>5, OnlyStep
<1>10. CASE EditRead(r)
  <2>1. req[r].op = "edit" /\ req[r] # Idle BY <1>10, IdleIs DEF EditRead, Is
  <2>2. CASE msg.state = "sent"
    <3>1. /\ Only(r) /\ req'[r] \in Request
          /\ req'[r].op = "edit" /\ req'[r].pc = "write"
          /\ req'[r].user = req[r].user /\ req'[r].other = req[r].other
          /\ req'[r].set = req[r].set /\ req'[r].late = req[r].late
      BY <1>10, <2>1, <2>2, GoIs DEF EditRead
    <3>2. Fits(r)
      BY <2>1, <2>2, <3>1 DEF Fits, AskedOf, Beginning, Payloads, PayloadOf, Checked
    <3> QED BY <3>1, <3>2, OnlyStep
  <2>3. CASE msg.state # "sent"
    BY <1>10, <2>3, EndStep DEF EditRead
  <2> QED BY <2>2, <2>3
<1>11. CASE Reject(r) BY <1>11, EndStep DEF Reject
<1> QED BY <1>4, <1>5, <1>6, <1>7, <1>8, <1>9, <1>10, <1>11

-------------------------------------------------------------------------------
(***************************************************************************)
(* Steps that write rows or the message.                                   *)
(***************************************************************************)

\* A payload that covered everyone active still does when those who become
\* active are late for it and nobody else's lateness is forgotten.
LEMMA PayloadStays ==
    ASSUME NEW r \in Requests, PayloadOf(r), Same(r),
           msg.state # "none" => msg'.state # "none",
           Checked(r) => Active' \ req'[r].late \subseteq Active \ req[r].late
    PROVE  PayloadOf(r)'
BY DEF PayloadOf, Same, Is, Checked

LEMMA IdlePayload ==
    ASSUME NEW r \in Requests, Ended(r) PROVE PayloadOf(r)'
BY IdleIs DEF PayloadOf, Ended, Is, Checked

\* A member's row is deleted.
LEMMA GoesStep ==
    ASSUME ConversationInv, NEW r \in Requests, NEW u \in Users, role[u] # "none",
           Goes(u, r), kind # "none", UNCHANGED <<kind, role, blocked, msg, edited>>,
           raced' \in BOOLEAN, raced => raced'
    PROVE  ConversationInv'
<1> USE DEF ConversationInv
<1>1. /\ gone' = gone \cup {u} /\ late' = late \ {u}
      /\ Active' = Active \ {u} /\ OwnerRows' = OwnerRows
  BY DEF Goes, Active, OwnerRows
<1>2. /\ req' \in [Requests -> Request] /\ Ended(r)
      /\ \A t \in Requests \ {r} : Same(t) /\ req'[t].late = req[t].late \ {u}
      /\ \A t \in Requests \ {r} : req[t] = Idle => Ended(t)
  BY GoesIs
<1>3. \A t \in Requests : Kept(t) \/ Ended(t)
  BY <1>2 DEF Kept, Asked, AskedOf
<1>4. Typed' BY <1>1, <1>2 DEF Typed
<1>5. Beginning' BY DEF Beginning
<1>6. Asked' /\ Locks'
  BY <1>3, AskedStays DEF Locks, OwnerRows
<1>7. OneRow' BY <1>1 DEF OneRow
<1>8. Payloads'
  <2>1. ASSUME NEW t \in Requests \ {r} PROVE PayloadOf(t)'
    BY <1>1, <1>2, PayloadStays DEF Payloads
  <2> QED BY <1>2, <2>1, IdlePayload DEF Payloads
<1>9. MessageReaders' BY <1>1 DEF MessageReaders
<1> QED BY <1>4, <1>5, <1>6, <1>7, <1>8, <1>9

\* Members become active, and everyone who has a row keeps its role.
LEMMA JoinsStep ==
    ASSUME ConversationInv, NEW new \in SUBSET Users, NEW done \in SUBSET Requests,
           Joins(new, done), kind # "none",
           UNCHANGED <<kind, blocked, msg, edited, raced>>,
           role' \in [Users -> Roles \cup {"none"}], gone' \subseteq gone,
           \A u \in Users : IF role[u] = "none" THEN role'[u] # "OWNER" ELSE role'[u] = role[u],
           Active' \subseteq Active \cup new
    PROVE  ConversationInv'
<1> USE DEF ConversationInv
<1>1. \A t \in Requests : req'[t] = IF t \in done THEN Idle ELSE WithLate(t, new)
  BY DEF Joins
<1>2. ASSUME NEW t \in Requests \ done
      PROVE  /\ req'[t] \in Request /\ Same(t)
             /\ req[t] = Idle => Ended(t)
             /\ Checked(t) => req'[t].late = req[t].late \cup new
    BY <1>1, WithLateIs DEF Ended
<1>3. \A t \in done : Ended(t) BY <1>1 DEF Ended
<1>4. req' \in [Requests -> Request]
  <2>1. \A t \in Requests : req'[t] \in Request BY <1>2, <1>3, IdleIs DEF Ended
  <2>2. req' = [t \in Requests |-> req'[t]] BY DEF Joins
  <2> QED BY <2>1, <2>2
<1>5. late' = IF msg.state = "sent" THEN late \cup new ELSE late BY DEF Joins
<1>6. \A t \in Requests : Kept(t) \/ Ended(t)
  BY <1>2, <1>3 DEF Kept, Asked, AskedOf
<1>7. OwnerRows' = OwnerRows BY DEF OwnerRows
<1>8. Typed' BY <1>4, <1>5 DEF Typed
<1>9. Beginning' BY DEF Beginning
<1>10. Asked' /\ Locks'
  <2>1. \A t \in Requests : \A u \in LockedBy(t) : role'[u] = "OWNER"
    BY DEF Locks, OwnerRows
  <2> QED BY <1>6, <2>1, AskedStays
<1>11. OneRow' BY <1>7 DEF OneRow
<1>12. Payloads'
  <2>1. ASSUME NEW t \in Requests \ done PROVE PayloadOf(t)'
    BY <1>2, PayloadStays DEF Payloads
  <2> QED BY <1>3, <2>1, IdlePayload DEF Payloads
<1>13. MessageReaders' BY <1>5 DEF MessageReaders
<1> QED BY <1>8, <1>9, <1>10, <1>11, <1>12, <1>13
LEMMA RowWritesStep ==
    ASSUME ConversationInv, NEW r \in Requests,
           AddWrite(r) \/ RemoveWrite(r) \/ LeaveWrite(r) \/ DeleteWrite(r)
    PROVE  ConversationInv'
<1> USE DEF ConversationInv
<1>1. kind # "none" /\ req[r] \in Request
  BY IdleIs DEF Typed, Beginning, AddWrite, RemoveWrite, LeaveWrite, DeleteWrite, Is
<1>2. CASE AddWrite(r)
  <2>1. PICK v \in Users : req[r].other = {v}
    BY <1>2 DEF AddWrite, Is, Asked, AskedOf
  <2>2. Other(r) = v BY <2>1, WhoIs
  <2>3. UNCHANGED <<kind, gone, blocked, msg, edited, raced>>
    BY <1>2 DEF AddWrite
  <2>4. CASE role[v] = "none"
    <3>1. role' = [role EXCEPT ![v] = "MEMBER"] /\ Joins({v}, {r})
      BY <1>2, <2>2, <2>4 DEF AddWrite
    <3>2. /\ role' \in [Users -> Roles \cup {"none"}]
          /\ \A u \in Users : IF role[u] = "none" THEN role'[u] # "OWNER" ELSE role'[u] = role[u]
          /\ Active' \subseteq Active \cup {v}
      BY <2>3, <2>4, <3>1 DEF Typed, Roles, Active
    <3>3. {v} \in SUBSET Users /\ {r} \in SUBSET Requests OBVIOUS
    <3> QED BY <1>1, <2>3, <3>1, <3>2, <3>3, JoinsStep
  <2>5. CASE role[v] # "none"
    <3>1. UNCHANGED role /\ Joins({}, {r})
      BY <1>2, <2>2, <2>5 DEF AddWrite
    <3>2. /\ role' \in [Users -> Roles \cup {"none"}]
          /\ \A u \in Users : IF role[u] = "none" THEN role'[u] # "OWNER" ELSE role'[u] = role[u]
          /\ Active' \subseteq Active \cup {}
      BY <2>3, <3>1 DEF Typed, Active
    <3>3. {} \in SUBSET Users /\ {r} \in SUBSET Requests OBVIOUS
    <3> QED BY <1>1, <2>3, <3>1, <3>2, <3>3, JoinsStep
  <2> QED BY <2>4, <2>5
<1>3. CASE RemoveWrite(r)
  <2>1. PICK v \in Users : req[r].other = {v} /\ role[v] # "none"
    BY <1>3 DEF RemoveWrite, Is, Asked, AskedOf
  <2>2. Other(r) = v BY <2>1, WhoIs
  <2>3. /\ Goes(v, r) /\ UNCHANGED <<kind, role, blocked, msg, edited>>
        /\ raced' = (raced \/ role[v] = "OWNER")
    BY <1>3, <2>2 DEF RemoveWrite
  <2>4. raced' \in BOOLEAN /\ (raced => raced') BY <2>3 DEF Typed
  <2> QED BY <1>1, <2>1, <2>3, <2>4, GoesStep
<1>4. CASE LeaveWrite(r) \/ DeleteWrite(r)
  <2>1. PICK u \in Users : req[r].user = {u} /\ role[u] # "none"
    BY <1>4 DEF LeaveWrite, DeleteWrite, Is, Asked, AskedOf
  <2>2. User(r) = u BY <2>1, WhoIs
  <2>3. /\ Goes(u, r) /\ UNCHANGED <<kind, role, blocked, msg, edited>>
        /\ raced' = (raced \/ role[u] = "OWNER") \/ raced' = raced
    BY <1>4, <2>2 DEF LeaveWrite, DeleteWrite
  <2>4. raced' \in BOOLEAN /\ (raced => raced')
    <3>1. CASE raced' = (raced \/ role[u] = "OWNER") BY <3>1 DEF Typed
    <3>2. CASE raced' = raced BY <3>2 DEF Typed
    <3> QED BY <2>3, <3>1, <3>2
  <2> QED BY <1>1, <2>1, <2>3, <2>4, GoesStep
<1> QED BY <1>2, <1>3, <1>4

\* Exactly the owner who asked is replaced, or the transfer raced: the rows it
\* has locked are owners' rows, so with one owner they are that one's row.
LEMMA TransferStep ==
    ASSUME ConversationInv, NEW r \in Requests, TransferCommit(r)
    PROVE  ConversationInv'
<1> USE DEF ConversationInv
<1>1. PICK u \in Users, new \in Users :
         req[r].user = {u} /\ req[r].other = {new} /\ role[new] # "none"
  BY DEF TransferCommit, Is, Asked, AskedOf
<1>2. User(r) = u /\ Other(r) = new BY <1>1, WhoIs
<1> DEFINE S == req[r].set
<1>3. /\ S = LockedBy(r) /\ S \subseteq OwnerRows
      /\ \A t \in Requests \ {r} : LockedBy(t) \cap S = {} /\ new \notin LockedBy(t)
  BY <1>2 DEF TransferCommit, Free, Locks, LockedBy
<1>4. /\ \A w \in Users : role'[w] = IF w = new THEN "OWNER"
                                     ELSE IF w \in S THEN "MEMBER" ELSE role[w]
      /\ role' \in [Users -> Roles \cup {"none"}]
      /\ raced' = (raced \/ u \notin S \/ new \notin Active)
      /\ UNCHANGED <<kind, gone, blocked, msg, late, edited>>
  BY <1>2 DEF TransferCommit, msgVars, Typed, Roles
<1>5. /\ Ended(r) /\ req' \in [Requests -> Request]
      /\ \A t \in Requests \ {r} : req'[t] = req[t]
  BY IdleIs DEF TransferCommit, End, Ended, Typed
<1> HIDE DEF S
<1>6. \A w \in Users : role[w] = "none" <=> role'[w] = "none"
  BY <1>1, <1>3, <1>4 DEF OwnerRows
<1>7. Active' = Active BY <1>4, <1>6 DEF Active
<1>8. Typed' BY <1>4, <1>5, <1>6 DEF Typed
<1>9. Beginning' BY <1>1, <1>4, <1>5 DEF Beginning, Ended
<1>10. Asked' /\ Locks'
  <2>1. \A t \in Requests \ {r} : \A w \in LockedBy(t) : role'[w] = "OWNER"
    BY <1>3, <1>4 DEF Locks, OwnerRows
  <2> QED BY <1>5, <1>6, <2>1, AskedStays
<1>11. OneRow'
  <2>1. OwnerRows' = {new} \cup (OwnerRows \ S)
    BY <1>4 DEF OwnerRows
  <2>2. ASSUME kind = "GROUP", ~raced' PROVE OwnerRows' = {new}
    BY <1>3, <1>4, <2>1, <2>2 DEF OneRow
  <2> QED BY <1>4, <2>1, <2>2 DEF OneRow
<1>12. Payloads'
  BY <1>4, <1>5, <1>7, IdlePayload DEF Payloads, PayloadOf, Is, Checked
<1>13. MessageReaders' BY <1>4, <1>7 DEF MessageReaders
<1> QED BY <1>8, <1>9, <1>10, <1>11, <1>12, <1>13

\* The message is stored with the payload its request made, which covers
\* everyone active but for those the request knows to be late.
LEMMA SendStep ==
    ASSUME ConversationInv, NEW r \in Requests, SendCommit(r)
    PROVE  ConversationInv'
<1> USE DEF ConversationInv
<1> DEFINE R == Restored(r)
<1>1. /\ Is(r, "send", "write") /\ req[r] \in Request /\ kind # "none"
      /\ R \subseteq gone /\ R \in SUBSET Users
  BY IdleIs DEF SendCommit, Typed, Beginning, Is, Restored
<1>2. /\ gone' = gone \ R /\ UNCHANGED <<kind, role, blocked, edited, raced>>
      /\ \A t \in Requests : req'[t] = IF t = r THEN Idle ELSE WithLate(t, R)
      /\ req' = [t \in Requests |-> req'[t]]
  BY DEF SendCommit
<1>3. /\ msg' \in Message /\ msg'.state # "none" /\ late' \subseteq Users
      /\ msg.state # "none" => msg' = msg
      /\ MessageReaders'
  <2>1. Active' \subseteq Active \cup R BY <1>2 DEF Active
  <2>2. CASE msg.state = "none"
    <3>1. /\ msg' = [state |-> "sent", from |-> req[r].user, to |-> req[r].set]
          /\ late' = req[r].late \cup R
      BY <2>2 DEF SendCommit
    <3>2. Active \ req[r].late \subseteq req[r].set
      BY <1>1, <2>2 DEF Payloads, PayloadOf, Checked, Is
    <3>3. /\ msg' \in Message /\ msg'.state = "sent" /\ msg'.to = req[r].set
          /\ late' \subseteq Users
      BY <1>1, <3>1 DEF Message, Request
    <3> QED BY <2>1, <2>2, <3>1, <3>2, <3>3 DEF MessageReaders
  <2>3. CASE msg.state # "none"
    <3>1. /\ msg' = msg
          /\ late' = IF msg.state = "sent" THEN late \cup R ELSE late
      BY <2>3 DEF SendCommit
    <3> QED BY <1>1, <1>2, <2>1, <2>3, <3>1 DEF MessageReaders, Typed
  <2> QED BY <2>2, <2>3
<1> HIDE DEF R
<1>4. ASSUME NEW t \in Requests \ {r}
      PROVE  /\ req'[t] \in Request /\ Same(t)
             /\ req[t] = Idle => Ended(t)
             /\ Checked(t) => req'[t].late = req[t].late \cup R
    BY <1>1, <1>2, WithLateIs DEF Ended
<1>5. Ended(r) BY <1>2 DEF Ended
<1>6. req' \in [Requests -> Request]
  <2>1. \A t \in Requests : req'[t] \in Request BY <1>4, <1>5, IdleIs DEF Ended
  <2> QED BY <1>2, <2>1
<1>7. \A t \in Requests : Kept(t) \/ Ended(t)
  BY <1>4, <1>5 DEF Kept, Asked, AskedOf
<1>8. OwnerRows' = OwnerRows /\ Active' \subseteq Active \cup R
  BY <1>2 DEF OwnerRows, Active
<1>9. Typed' BY <1>1, <1>2, <1>3, <1>6 DEF Typed
<1>10. Beginning' BY <1>1, <1>2 DEF Beginning
<1>11. Asked' /\ Locks'
  BY <1>2, <1>7, AskedStays DEF Locks, OwnerRows
<1>12. OneRow' BY <1>2, <1>8 DEF OneRow
<1>13. Payloads'
  <2>1. ASSUME NEW t \in Requests \ {r} PROVE PayloadOf(t)'
    BY <1>3, <1>4, <1>8, PayloadStays DEF Payloads
  <2> QED BY <1>5, <2>1, IdlePayload DEF Payloads
<1> QED BY <1>3, <1>9, <1>10, <1>11, <1>12, <1>13
\* An edit stores the payload it checked, over whatever the message is by then.
LEMMA MessageWritesStep ==
    ASSUME ConversationInv, NEW r \in Requests, EditWrite(r) \/ EraseWrite(r)
    PROVE  ConversationInv'
<1> USE DEF ConversationInv
<1>1. /\ UNCHANGED <<kind, role, gone, blocked, raced>> /\ req[r] # Idle
      /\ Active' = Active /\ OwnerRows' = OwnerRows
  <2>1. UNCHANGED <<kind, role, gone, blocked, raced>>
    BY DEF EditWrite, EraseWrite, rowVars
  <2> QED BY <2>1, IdleIs DEF Active, OwnerRows, EditWrite, EraseWrite, Is
<1>2. /\ Ended(r) /\ req' \in [Requests -> Request]
      /\ \A t \in Requests \ {r} : req'[t] = req[t]
  BY IdleIs DEF EditWrite, EraseWrite, End, Ended, Typed
<1>3. /\ msg' \in Message /\ late' \subseteq Users /\ edited' \in BOOLEAN
      /\ msg.state # "none" => msg'.state # "none"
      /\ MessageReaders'
  <2> DEFINE S == req[r].set
  <2>1. CASE EditWrite(r)
    <3>1. req[r].op = "edit" /\ req[r] \in Request BY <2>1 DEF EditWrite, Is, Typed
    <3>2. Active \ req[r].late \subseteq S
      BY <3>1 DEF Payloads, PayloadOf, Checked
    <3>3. /\ msg' = [msg EXCEPT !.to = S]
          /\ late' = IF msg.state = "sent" THEN req[r].late ELSE late
          /\ edited' = (edited \/ msg.state = "erased")
      BY <2>1 DEF EditWrite
    <3>4. S \in SUBSET Users /\ req[r].late \in SUBSET Users BY <3>1 DEF Request
    <3> HIDE DEF S
    <3>5. msg' \in Message /\ msg'.state = msg.state /\ msg'.to = S
      BY <3>3, <3>4 DEF Typed, Message
    <3>6. late' \subseteq Users /\ edited' \in BOOLEAN
      BY <3>3, <3>4 DEF Typed
    <3>7. msg.state = "erased" => edited' BY <3>3
    <3> QED BY <1>1, <3>2, <3>3, <3>5, <3>6, <3>7 DEF MessageReaders
  <2>2. CASE EraseWrite(r)
    <3>1. msg' = [msg EXCEPT !.state = "erased", !.to = {}] /\ late' = {} /\ edited' = edited
      BY <2>2 DEF EraseWrite
    <3>2. msg' \in Message /\ msg'.state = "erased" /\ msg'.to = {}
      BY <3>1 DEF Typed, Message
    <3> QED BY <3>1, <3>2 DEF MessageReaders, Typed
  <2> QED BY <2>1, <2>2
<1>4. Typed' BY <1>1, <1>2, <1>3 DEF Typed
<1>5. Beginning' BY <1>1 DEF Beginning
<1>6. Asked' /\ Locks'
  BY <1>1, <1>2, AskedStays DEF Locks, OwnerRows
<1>7. OneRow' BY <1>1 DEF OneRow
<1>8. Payloads'
  <2>1. ASSUME NEW t \in Requests \ {r} PROVE PayloadOf(t)'
    BY <1>1, <1>2, <1>3, PayloadStays DEF Payloads, Same
  <2> QED BY <1>2, <2>1, IdlePayload DEF Payloads
<1> QED BY <1>3, <1>4, <1>5, <1>6, <1>7, <1>8

\* The steps of members that are no requests: each is one transaction.
LEMMA MembersStep ==
    ASSUME ConversationInv, NEW u \in Users,
           \/ \E S \in SUBSET Users : GroupConversation(u, S)
           \/ \E v \in Users : DirectConversation(u, v)
           \/ Reopen(u) \/ Block(u) \/ Unblock(u)
    PROVE  ConversationInv'
<1> USE DEF ConversationInv
<1>1. ASSUME kind = "none", kind' \in {"GROUP", "DIRECT"},
             role' \in [Users -> Roles \cup {"none"}],
             UNCHANGED <<gone, blocked, msg, late, edited, req, raced>>,
             kind' = "GROUP" => OwnerRows' = {u}
      PROVE  ConversationInv'
  <2>1. /\ msg = NoMessage /\ NoMessage.state = "none" /\ gone = {}
        /\ \A r \in Requests : req[r] = Idle
    BY <1>1 DEF Beginning, NoMessage, Typed
  <2>2. Typed' BY <1>1, <2>1 DEF Typed
  <2>3. Beginning' BY <1>1 DEF Beginning
  <2>4. Asked' /\ Locks'
    BY <1>1, <2>1, IdleIs DEF Asked, AskedOf, Locks, LockedBy, Is
  <2>5. OneRow' BY <1>1 DEF OneRow
  <2>6. Payloads'
    BY <1>1, <2>1, IdlePayload DEF Payloads, Ended
  <2>7. MessageReaders' BY <1>1, <2>1 DEF MessageReaders
  <2> QED BY <2>2, <2>3, <2>4, <2>5, <2>6, <2>7
<1>2. ASSUME NEW S \in SUBSET Users, GroupConversation(u, S) PROVE ConversationInv'
  <2>1. /\ kind = "none" /\ kind' = "GROUP" /\ OwnerRows' = {u}
        /\ role' \in [Users -> Roles \cup {"none"}]
        /\ UNCHANGED <<gone, blocked, msg, late, edited, req, raced>>
    BY <1>2 DEF GroupConversation, OwnerRows, Roles, msgVars
  <2> QED BY <1>1, <2>1
<1>3. ASSUME NEW v \in Users, DirectConversation(u, v) PROVE ConversationInv'
  <2>1. /\ kind = "none" /\ kind' = "DIRECT"
        /\ role' \in [Users -> Roles \cup {"none"}]
        /\ UNCHANGED <<gone, blocked, msg, late, edited, req, raced>>
    BY <1>3 DEF DirectConversation, Roles, msgVars
  <2> QED BY <1>1, <2>1
<1>4. CASE Reopen(u)
  <2>1. /\ Joins({u}, {}) /\ kind # "none" /\ gone' = gone \ {u}
        /\ UNCHANGED <<kind, role, blocked, msg, edited, raced>>
    BY <1>4 DEF Reopen
  <2>2. /\ Active' \subseteq Active \cup {u} /\ role' \in [Users -> Roles \cup {"none"}]
        /\ \A w \in Users : IF role[w] = "none" THEN role'[w] # "OWNER" ELSE role'[w] = role[w]
    BY <2>1 DEF Active, Typed
  <2>3. {u} \in SUBSET Users /\ {} \in SUBSET Requests OBVIOUS
  <2> QED BY <2>1, <2>2, <2>3, JoinsStep
<1>5. CASE Block(u) \/ Unblock(u)
  <2>1. /\ UNCHANGED <<kind, role, gone, msg, late, edited, req, raced>>
        /\ blocked' \subseteq blocked \cup {u}
    BY <1>5 DEF Block, Unblock, rowVars, msgVars
  <2>2. Active' = Active /\ OwnerRows' = OwnerRows BY <2>1 DEF Active, OwnerRows
  <2>3. Typed' /\ Beginning' /\ OneRow' /\ MessageReaders'
    BY <2>1, <2>2 DEF Typed, Beginning, OneRow, MessageReaders
  <2>4. Asked' /\ Locks'
    BY <2>1, <2>2 DEF Asked, AskedOf, Locks, LockedBy, Is
  <2>5. Payloads'
    BY <2>1, <2>2 DEF Payloads, PayloadOf, Is, Checked
  <2> QED BY <2>3, <2>4, <2>5
<1> QED BY <1>2, <1>3, <1>4, <1>5

-------------------------------------------------------------------------------
LEMMA InvInit == Init => ConversationInv
<1> SUFFICES ASSUME Init PROVE ConversationInv
  OBVIOUS
<1> USE DEF Init
<1>1. NoMessage \in Message /\ NoMessage.state = "none" BY DEF NoMessage, Message
<1>2. Typed BY <1>1, IdleIs DEF Typed, Roles
<1>3. Beginning /\ OneRow /\ MessageReaders
  BY <1>1 DEF Beginning, OneRow, MessageReaders
<1>4. Asked /\ Locks /\ Payloads
  BY IdleIs DEF Asked, Locks, LockedBy, Payloads, PayloadOf, Is, Checked
<1> QED BY <1>2, <1>3, <1>4 DEF ConversationInv

LEMMA InvNext == ConversationInv /\ [Next]_vars => ConversationInv'
<1> SUFFICES ASSUME ConversationInv, [Next]_vars PROVE ConversationInv'
  OBVIOUS
<1>1. ASSUME NEW u \in Users,
             \/ \E S \in SUBSET Users : GroupConversation(u, S)
             \/ \E v \in Users : DirectConversation(u, v)
             \/ Reopen(u) \/ Block(u) \/ Unblock(u)
      PROVE  ConversationInv'
  BY <1>1, MembersStep
<1>2. ASSUME NEW r \in Requests,
             \/ \E u, v \in Users : TransferRead(r, u, v) \/ AddRead(r, u, v) \/ RemoveRead(r, u, v)
             \/ \E u \in Users : \/ LeaveRead(r, u) \/ DeleteRead(r, u) \/ SendRead(r, u)
                                 \/ EditKeys(r, u) \/ EraseRead(r, u)
             \/ DemoteStart(r) \/ DemoteLock(r) \/ EditRead(r) \/ Reject(r)
      PROVE  ConversationInv'
  BY <1>2, ReadsStep
<1>3. ASSUME NEW r \in Requests,
             AddWrite(r) \/ RemoveWrite(r) \/ LeaveWrite(r) \/ DeleteWrite(r)
      PROVE  ConversationInv'
  BY <1>3, RowWritesStep
<1>4. ASSUME NEW r \in Requests, TransferCommit(r) PROVE ConversationInv'
  BY <1>4, TransferStep
<1>5. ASSUME NEW r \in Requests, SendCommit(r) PROVE ConversationInv'
  BY <1>5, SendStep
<1>6. ASSUME NEW r \in Requests, EditWrite(r) \/ EraseWrite(r) PROVE ConversationInv'
  BY <1>6, MessageWritesStep
<1>7. CASE UNCHANGED vars
  BY <1>7 DEF vars, ConversationInv, Typed, Beginning, Asked, AskedOf, Locks, LockedBy,
     OneRow, OwnerRows, Payloads, PayloadOf, Checked, Is, Active, MessageReaders
<1> QED BY <1>1, <1>2, <1>3, <1>4, <1>5, <1>6, <1>7 DEF Next

LEMMA Invariance == Spec => []ConversationInv
BY InvInit, InvNext, PTL DEF Spec

\* A group always has an owner's row, and exactly one unless a write acted on a
\* row that another request had changed since it was read: however transfers,
\* removals and departures interleave between their reads, locks and writes.
THEOREM OwnerIsUnique == Spec => []OneOwner
<1>1. ConversationInv => OneOwner
  BY FS_Singleton DEF ConversationInv, OneRow, OwnerRows, OneOwner
<1> QED BY <1>1, Invariance, PTL

\* Whoever sees the message has a key in its envelope, but for those who became
\* active after its keys were checked; a message deleted for everyone has no
\* payload, unless an edit was written after it.
THEOREM ReadersHaveKeys == Spec => []MessageReaders
<1>1. ConversationInv => MessageReaders BY DEF ConversationInv
<1> QED BY <1>1, Invariance, PTL

\* The variables have the values the model's comments give them.
THEOREM TypeCorrect == Spec => []TypeOK
<1>1. ConversationInv => TypeOK
  BY DEF ConversationInv, Typed, TypeOK, Message, Request
<1> QED BY <1>1, Invariance, PTL

\* Nobody who was removed from a group, or left it, sees it again before another
\* member's message is stored: no other step of any request shrinks gone.
THEOREM OnlyMessagesRestore == Spec => ReturnsByMessage
<1> DEFINE Returns == kind = "GROUP" /\ ~(gone \subseteq gone')
                        => \E r \in Requests : /\ Is(r, "send", "write") /\ req'[r] = Idle
                                               /\ gone' \subseteq req[r].user
<1>1. ASSUME [Next]_vars PROVE [Returns]_vars
  <2>1. ASSUME NEW u \in Users, NEW S \in SUBSET Users, GroupConversation(u, S)
        PROVE  gone' = gone
    BY <2>1 DEF GroupConversation
  <2>2. ASSUME NEW u \in Users, NEW v \in Users, DirectConversation(u, v)
        PROVE  gone' = gone
    BY <2>2 DEF DirectConversation
  <2>3. ASSUME NEW u \in Users, Reopen(u) PROVE kind # "GROUP"
    BY <2>3 DEF Reopen
  <2>4. ASSUME NEW u \in Users, Block(u) \/ Unblock(u) PROVE gone' = gone
    BY <2>4 DEF Block, Unblock, rowVars
  <2>5. ASSUME NEW r \in Requests, NEW u \in Users, NEW v \in Users,
               TransferRead(r, u, v) \/ AddRead(r, u, v) \/ RemoveRead(r, u, v)
        PROVE  gone' = gone
    BY <2>5 DEF TransferRead, AddRead, RemoveRead, rowVars
  <2>6. ASSUME NEW r \in Requests, NEW u \in Users,
               \/ LeaveRead(r, u) \/ DeleteRead(r, u) \/ SendRead(r, u)
               \/ EditKeys(r, u) \/ EraseRead(r, u)
        PROVE  gone' = gone
    BY <2>6 DEF LeaveRead, DeleteRead, SendRead, EditKeys, EraseRead, rowVars
  <2>7. ASSUME NEW r \in Requests,
               \/ DemoteStart(r) \/ DemoteLock(r) \/ TransferCommit(r) \/ AddWrite(r)
               \/ EditRead(r) \/ EditWrite(r) \/ EraseWrite(r) \/ Reject(r)
        PROVE  gone' = gone
    BY <2>7 DEF DemoteStart, DemoteLock, TransferCommit, AddWrite, EditRead, EditWrite,
       EraseWrite, Reject, rowVars
  <2>8. ASSUME NEW r \in Requests, RemoveWrite(r) \/ LeaveWrite(r) \/ DeleteWrite(r)
        PROVE  gone \subseteq gone'
    BY <2>8 DEF RemoveWrite, LeaveWrite, DeleteWrite, Goes
  <2>9. ASSUME NEW r \in Requests, SendCommit(r)
        PROVE  Is(r, "send", "write") /\ req'[r] = Idle /\ gone' \subseteq req[r].user
    BY <2>9 DEF SendCommit, Restored
  <2>10. CASE UNCHANGED vars BY <2>10 DEF vars
  <2> HIDE DEF Returns
  <2>11. CASE gone \subseteq gone' \/ kind # "GROUP" BY <2>11 DEF Returns
  <2>12. ASSUME NEW r \in Requests, SendCommit(r) PROVE Returns
    BY <2>9, <2>12 DEF Returns
  <2> QED BY <1>1, <2>1, <2>2, <2>3, <2>4, <2>5, <2>6, <2>7, <2>8, <2>10, <2>11, <2>12
      DEF Next
<1> QED BY <1>1, PTL DEF Spec, ReturnsByMessage
===============================================================================
