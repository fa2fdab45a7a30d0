---------------------------- MODULE AccountsProofs ----------------------------
(***************************************************************************)
(* A community keeps an active owner, and a registered socket a live       *)
(* session: proofs for any number of users, requests, sessions and         *)
(* sockets.                                                                *)
(***************************************************************************)
EXTENDS Accounts, TLAPS

RequestRecord ==
    [op : Ops, pc : {"idle", "write", "revoke"}, user : SUBSET Users,
     to : Roles \cup {"none"}, session : SUBSET Sessions, stale : BOOLEAN]

\* What OwnerStays depends on.
Typed ==
    /\ role \in [Users -> Roles \cup {"none", "unknown"}]
    /\ suspended \subseteq Users
    /\ req \in [Requests -> RequestRecord]
    /\ \A r \in Requests : req[r].pc = "write" => \E u \in Users : req[r].user = {u}
    /\ excused \in BOOLEAN

\* A request that is about to take away an owner's place.
Demotes(t) ==
    /\ t.pc = "write"
    /\ t.op \in {"suspend", "remove"} \/ (t.op = "role" /\ t.to # "owner")

\* The count of owners a request has made still stands, or it is marked stale:
\* the one it is about is not the only owner.
CountsStand ==
    \A r \in Requests : Demotes(req[r]) /\ ~req[r].stale => req[r].user # Owners

OwnerInv == Typed /\ OwnerStays /\ CountsStand

-------------------------------------------------------------------------------
\* The owners after a step, as Written and Approve compute them.
LEMMA NextOwners == Owners' = NowOwners
BY DEF Owners, Active, Members, NowOwners, Roles

LEMMA IdleIsRequest == Idle \in RequestRecord /\ Idle.pc = "idle" /\ ~Demotes(Idle)
BY DEF Idle, RequestRecord, Demotes, Ops

\* What a write leaves of another request.
LEMMA AfterIsRequest ==
    ASSUME Typed, NEW t \in Requests
    PROVE  /\ After(t) \in RequestRecord
           /\ After(t).pc = "write" => \E u \in Users : After(t).user = {u}
<1>1. req[t] \in RequestRecord
  BY DEF Typed
<1>2. [req[t] EXCEPT !.stale = @ \/ (req[t].op \in Guarded /\ NowOwners # Owners)]
        \in RequestRecord
      /\ [req[t] EXCEPT !.stale = @ \/ (req[t].op \in Guarded /\ NowOwners # Owners)].user
           = req[t].user
  BY <1>1 DEF RequestRecord
<1>3. req[t].pc = "write" => \E u \in Users : req[t].user = {u}
  BY DEF Typed
<1>4. QED
  BY <1>1, <1>2, <1>3, IdleIsRequest DEF After

\* A request that still demotes after another one's write has a count that
\* stands, or is stale.
LEMMA AfterCounts ==
    ASSUME OwnerInv, NEW t \in Requests, Demotes(After(t)), ~After(t).stale
    PROVE  After(t).user # NowOwners
<1>1. req[t] \in RequestRecord
  BY DEF OwnerInv, Typed
<1>2. After(t) # Idle
  BY IdleIsRequest
<1>3. CASE req[t].pc # "write" \/ req[t].op \notin Guarded \cup {"reactivate"}
  BY <1>3 DEF After, Demotes, Guarded
<1>4. CASE req[t].pc = "write" /\ req[t].op \in Guarded \cup {"reactivate"}
  <2> DEFINE marked == [req[t] EXCEPT !.stale = @ \/ (req[t].op \in Guarded /\ NowOwners # Owners)]
  <2>1. After(t) = marked
    BY <1>2, <1>4 DEF After
  <2>2. /\ marked.op = req[t].op /\ marked.pc = req[t].pc /\ marked.to = req[t].to
        /\ marked.user = req[t].user
        /\ marked.stale = (req[t].stale \/ (req[t].op \in Guarded /\ NowOwners # Owners))
    BY <1>1 DEF RequestRecord
  <2>3. Demotes(req[t]) /\ req[t].op \in Guarded
    BY <2>1, <2>2 DEF Demotes, Guarded
  <2>4. ~req[t].stale /\ NowOwners = Owners
    BY <2>1, <2>2, <2>3
  <2>5. QED
    BY <2>1, <2>2, <2>3, <2>4 DEF OwnerInv, CountsStand
<1>5. QED
  BY <1>3, <1>4

-------------------------------------------------------------------------------
\* Steps that touch no membership and of the requests at most one, which then
\* demotes nobody, or counted other owners.
LEMMA QuietStep ==
    ASSUME OwnerInv, UNCHANGED <<role, suspended, excused>>,
           NEW r \in Requests, NEW t \in RequestRecord,
           req' = [req EXCEPT ![r] = t], t.pc = "write" => \E u \in Users : t.user = {u},
           Demotes(t) /\ ~t.stale => t.user # Owners
    PROVE  OwnerInv'
<1>1. Owners' = Owners
  BY DEF Owners, Active, Members
<1>2. Typed'
  BY DEF OwnerInv, Typed
<1>3. OwnerStays'
  BY <1>1 DEF OwnerInv, OwnerStays
<1>4. CountsStand'
  BY <1>1 DEF OwnerInv, CountsStand, Typed, Demotes
<1>5. QED
  BY <1>2, <1>3, <1>4 DEF OwnerInv

LEMMA SameStep ==
    ASSUME OwnerInv, UNCHANGED <<role, suspended, excused, req>>
    PROVE  OwnerInv'
<1>1. Owners' = Owners
  BY DEF Owners, Active, Members
<1>2. QED
  BY <1>1 DEF OwnerInv, Typed, OwnerStays, CountsStand, Demotes

\* A write of a membership.  The owners it leaves: if its count stands, or it
\* takes no owner away, there is one.
LEMMA WriteStep ==
    ASSUME OwnerInv, NEW r \in Requests, NEW next \in RequestRecord,
           Written(r, next), ~Demotes(next), next.pc # "write",
           role' \in [Users -> Roles \cup {"none", "unknown"}], suspended' \subseteq Users,
           \/ Owners \subseteq NowOwners
           \/ Demotes(req[r]) /\ Owners \ req[r].user \subseteq NowOwners
    PROVE  OwnerInv'
<1>1. /\ req' \in [Requests -> RequestRecord]
      /\ \A t \in Requests : req'[t].pc = "write" => \E u \in Users : req'[t].user = {u}
  BY AfterIsRequest DEF Written, OwnerInv
<1>2. Typed'
  BY <1>1 DEF OwnerInv, Typed, Written
<1>3. OwnerStays'
  <2>1. SUFFICES ASSUME ~excused' PROVE NowOwners # {}
    BY NextOwners DEF OwnerStays
  <2>2. ~excused /\ (req[r].stale => Owners \subseteq NowOwners)
    BY <2>1 DEF Written, OwnerInv, Typed
  <2>3. Owners # {}
    BY <2>2 DEF OwnerInv, OwnerStays
  <2>4. CASE Owners \subseteq NowOwners
    BY <2>3, <2>4
  <2>5. CASE ~(Owners \subseteq NowOwners)
    <3>1. ~req[r].stale /\ req[r].user # Owners
      BY <2>2, <2>5 DEF OwnerInv, CountsStand, Typed, RequestRecord
    <3>2. PICK u \in Users : req[r].user = {u}
      BY <2>5 DEF OwnerInv, Typed, Demotes
    <3>3. Owners \ {u} # {}
      BY <2>3, <3>1, <3>2
    <3>4. QED
      BY <2>5, <3>2, <3>3
  <2>6. QED
    BY <2>4, <2>5
<1>4. CountsStand'
  <2>1. SUFFICES ASSUME NEW t \in Requests, Demotes(req'[t]), ~req'[t].stale
                 PROVE  req'[t].user # NowOwners
    BY NextOwners DEF CountsStand, Demotes
  <2>2. t # r /\ req'[t] = After(t)
    BY <2>1 DEF Written
  <2>3. QED
    BY <2>1, <2>2, AfterCounts
<1>5. QED
  BY <1>2, <1>3, <1>4 DEF OwnerInv

-------------------------------------------------------------------------------
\* A request that starts, and is not about the only owner.
LEMMA StartStep ==
    ASSUME OwnerInv, UNCHANGED <<role, suspended, excused>>, NEW r \in Requests,
           NEW op \in Ops, NEW u \in Users, Start(r, op, u),
           op \in {"suspend", "remove"} => ~IsLastActiveOwner(u), op # "role"
    PROVE  OwnerInv'
<1> DEFINE t == [Idle EXCEPT !.op = op, !.pc = "write", !.user = {u}]
<1>1. req' = [req EXCEPT ![r] = t]
  BY DEF Start
<1>2. t \in RequestRecord /\ t.op = op /\ t.user = {u}
  BY IdleIsRequest DEF RequestRecord
<1> HIDE DEF t
<1>3. Demotes(t) => t.user # Owners
  BY <1>2 DEF Demotes, IsLastActiveOwner
<1>4. QED
  BY <1>1, <1>2, <1>3, QuietStep

\* Deleting sessions touches no membership.
LEMMA DeleteStep ==
    ASSUME OwnerInv, NEW r \in Requests, NEW op \in Ops, NEW u \in Users,
           NEW S \in SUBSET Sessions, DeleteSessions(r, op, u, S)
    PROVE  OwnerInv'
<1> DEFINE t == [Idle EXCEPT !.op = op, !.pc = "revoke", !.user = {u}, !.session = S]
<1>1. req' = [req EXCEPT ![r] = t] /\ UNCHANGED <<role, suspended, excused>>
  BY DEF DeleteSessions, people
<1>2. t \in RequestRecord /\ t.pc = "revoke"
  BY IdleIsRequest DEF RequestRecord
<1> HIDE DEF t
<1>3. ~Demotes(t)
  BY <1>2 DEF Demotes
<1>4. QED
  BY <1>1, <1>2, <1>3, QuietStep

\* A request that ends.
LEMMA EndStep ==
    ASSUME OwnerInv, UNCHANGED <<role, suspended, excused>>, NEW r \in Requests,
           req' = [req EXCEPT ![r] = Idle]
    PROVE  OwnerInv'
BY IdleIsRequest, QuietStep

\* Where the writes of a membership leave the request.
LEMMA RevokingIsRequest ==
    ASSUME Typed, NEW r \in Requests
    PROVE  Revoking(r) \in RequestRecord /\ Revoking(r).pc = "revoke" /\ ~Demotes(Revoking(r))
<1>1. req[r].user \in SUBSET Users /\ "reset" \in Ops
  BY DEF Typed, RequestRecord, Ops
<1>2. Revoking(r) \in RequestRecord /\ Revoking(r).pc = "revoke"
  BY <1>1, IdleIsRequest DEF Revoking, RequestRecord
<1>3. QED
  BY <1>2 DEF Demotes

LEMMA ReadStep ==
    ASSUME OwnerInv, NEW r \in Requests, NEW actor \in Users, NEW u \in Users,
           NEW to \in Roles,
           \/ SuspendRead(r, actor, u) \/ ReactivateRead(r, actor, u)
           \/ RemoveRead(r, actor, u) \/ RoleRead(r, actor, u, to)
    PROVE  OwnerInv'
<1> USE DEF people
<1>1. {"suspend", "reactivate", "remove", "role"} \subseteq Ops
  BY DEF Ops, Guarded
<1>2. CASE SuspendRead(r, actor, u)
  BY <1>1, <1>2, StartStep DEF SuspendRead
<1>3. CASE ReactivateRead(r, actor, u)
  BY <1>1, <1>3, StartStep DEF ReactivateRead
<1>4. CASE RemoveRead(r, actor, u)
  BY <1>1, <1>4, StartStep DEF RemoveRead
<1>5. CASE RoleRead(r, actor, u, to)
  <2> DEFINE t == [Idle EXCEPT !.op = "role", !.pc = "write", !.user = {u}, !.to = to]
  <2>1. req' = [req EXCEPT ![r] = t] /\ UNCHANGED <<role, suspended, excused>>
    BY <1>5 DEF RoleRead
  <2>2. t \in RequestRecord /\ t.op = "role" /\ t.user = {u} /\ t.to = to
    BY <1>1, IdleIsRequest DEF RequestRecord
  <2> HIDE DEF t
  <2>3. Demotes(t) => t.user # Owners
    BY <1>5, <2>2 DEF Demotes, RoleRead, IsLastActiveOwner
  <2>4. QED
    BY <2>1, <2>2, <2>3, QuietStep
<1>6. QED
  BY <1>2, <1>3, <1>4, <1>5

\* The writes of a membership.  All but the reactivation and a promotion to
\* owner take at most the owner away whom their request is about.
LEMMA MemberWriteStep ==
    ASSUME OwnerInv, NEW r \in Requests,
           \/ SuspendWrite(r) \/ ReactivateWrite(r) \/ RemoveWrite(r) \/ RoleWrite(r)
    PROVE  OwnerInv'
<1>1. req[r] \in RequestRecord /\ role \in [Users -> Roles \cup {"none", "unknown"}]
      /\ suspended \subseteq Users
  BY DEF OwnerInv, Typed
<1>2. /\ Idle \in RequestRecord /\ ~Demotes(Idle) /\ Idle.pc # "write"
      /\ Revoking(r) \in RequestRecord /\ ~Demotes(Revoking(r)) /\ Revoking(r).pc # "write"
  BY IdleIsRequest, RevokingIsRequest DEF OwnerInv
<1> PICK u \in Users : req[r].user = {u}
  BY DEF SuspendWrite, ReactivateWrite, RemoveWrite, RoleWrite, Is, OwnerInv, Typed
<1> USE DEF Is, Owners, Active, Members, NowOwners, Roles
<1>3. CASE SuspendWrite(r)
  <2>1. Owners \ {u} \subseteq NowOwners /\ suspended' \subseteq Users /\ role' = role
    BY <1>1, <1>3 DEF SuspendWrite
  <2>2. Written(r, Revoking(r)) /\ Demotes(req[r])
    BY <1>3 DEF SuspendWrite, Demotes
  <2> HIDE DEF Owners, NowOwners
  <2>3. QED
    BY <1>1, <1>2, <2>1, <2>2, WriteStep
<1>4. CASE ReactivateWrite(r)
  <2>1. Owners \subseteq NowOwners /\ suspended' \subseteq Users /\ role' = role
    BY <1>1, <1>4 DEF ReactivateWrite
  <2>2. Written(r, Idle)
    BY <1>4 DEF ReactivateWrite
  <2> HIDE DEF Owners, NowOwners
  <2>3. QED
    BY <1>1, <1>2, <2>1, <2>2, WriteStep
<1>5. CASE RemoveWrite(r)
  <2>1. Owners \ {u} \subseteq NowOwners /\ suspended' \subseteq Users
        /\ role' \in [Users -> Roles \cup {"none", "unknown"}]
    BY <1>1, <1>5 DEF RemoveWrite
  <2>2. Written(r, Revoking(r)) /\ Demotes(req[r])
    BY <1>5 DEF RemoveWrite, Demotes
  <2> HIDE DEF Owners, NowOwners
  <2>3. QED
    BY <1>1, <1>2, <2>1, <2>2, WriteStep
<1>6. CASE RoleWrite(r)
  <2>1. Owners \ {u} \subseteq NowOwners /\ suspended' \subseteq Users
        /\ role' \in [Users -> Roles \cup {"none", "unknown"}]
    BY <1>1, <1>6 DEF RoleWrite, RequestRecord
  <2>2. Demotes(req[r]) \/ Owners \subseteq NowOwners
    BY <1>1, <1>6 DEF RoleWrite, Demotes
  <2>3. Written(r, Revoking(r))
    BY <1>6 DEF RoleWrite
  <2> HIDE DEF Owners, NowOwners
  <2>4. QED
    BY <1>1, <1>2, <2>1, <2>2, <2>3, WriteStep
<1>7. QED
  BY <1>3, <1>4, <1>5, <1>6

\* An approval may make the only owner a member; that is excused.
LEMMA ApproveStep ==
    ASSUME OwnerInv, NEW u \in Users, Approve(u)
    PROVE  OwnerInv'
<1>1. Owners \ {u} \subseteq NowOwners
      /\ role' \in [Users -> Roles \cup {"none", "unknown"}] /\ suspended' \subseteq Users
  BY DEF Approve, OwnerInv, Typed, Owners, Active, Members, NowOwners, Roles
<1>2. Typed'
  BY <1>1, AfterIsRequest DEF Approve, OwnerInv, Typed
<1>3. OwnerStays'
  <2>1. SUFFICES ASSUME ~excused' PROVE NowOwners # {}
    BY NextOwners DEF OwnerStays
  <2>2. Owners # {} /\ Owners # {u}
    BY <2>1 DEF Approve, OwnerInv, OwnerStays, Typed
  <2>3. QED
    BY <1>1, <2>2
<1>4. CountsStand'
  <2>1. SUFFICES ASSUME NEW t \in Requests, Demotes(req'[t]), ~req'[t].stale
                 PROVE  req'[t].user # NowOwners
    BY NextOwners DEF CountsStand, Demotes
  <2>2. req'[t] = After(t)
    BY DEF Approve
  <2>3. QED
    BY <2>1, <2>2, AfterCounts
<1>5. QED
  BY <1>2, <1>3, <1>4 DEF OwnerInv

LEMMA CrashStep == ASSUME OwnerInv, ApiCrash PROVE OwnerInv'
<1>1. Owners' = Owners
  BY DEF Owners, Active, Members, ApiCrash, people
<1>2. \A r \in Requests : req'[r] = Idle
  BY DEF ApiCrash
<1>3. Typed'
  BY IdleIsRequest DEF OwnerInv, Typed, ApiCrash, people
<1>4. CountsStand'
  BY <1>2, IdleIsRequest DEF CountsStand, Demotes
<1>5. QED
  BY <1>1, <1>3, <1>4 DEF OwnerInv, OwnerStays, ApiCrash

LEMMA InitOwnerInv == Init => OwnerInv
<1> SUFFICES ASSUME Init PROVE OwnerInv
  OBVIOUS
<1>1. PICK u \in Users : role = [v \in Users |-> IF v = u THEN "owner" ELSE "unknown"]
  BY DEF Init
<1>2. u \in Owners
  BY <1>1 DEF Init, Owners, Active, Members, Roles
<1>3. Typed
  BY <1>1, IdleIsRequest DEF Init, Typed, Roles
<1>4. CountsStand
  BY IdleIsRequest DEF Init, CountsStand
<1>5. QED
  BY <1>2, <1>3, <1>4 DEF OwnerInv, OwnerStays

LEMMA NextOwnerInv == OwnerInv /\ [Next]_vars => OwnerInv'
<1> SUFFICES ASSUME OwnerInv, [Next]_vars PROVE OwnerInv'
  OBVIOUS
<1>1. ASSUME NEW r \in Requests, NEW actor \in Users, NEW u \in Users,
             \/ SuspendRead(r, actor, u) \/ ReactivateRead(r, actor, u)
             \/ RemoveRead(r, actor, u)
             \/ \E to \in Roles : RoleRead(r, actor, u, to)
      PROVE  OwnerInv'
  <2>1. "member" \in Roles
    BY DEF Roles
  <2>2. QED
    BY <1>1, <2>1, ReadStep
<1>2. ASSUME NEW r \in Requests, NEW u \in Users, LoginRead(r, u) PROVE OwnerInv'
  <2>1. "login" \in Ops
    BY DEF Ops
  <2>2. QED
    BY <1>2, <2>1, StartStep DEF LoginRead, people
<1>3. ASSUME NEW r \in Requests, NEW u \in Users, NEW s \in Sessions,
             RevokeOthers(r, u, s) \/ EndSession(r, u, s)
      PROVE  OwnerInv'
  <2>1. {"others", "end"} \subseteq Ops
    BY DEF Ops
  <2>2. QED
    BY <1>3, <2>1, DeleteStep DEF RevokeOthers, EndSession
<1>4. ASSUME NEW r \in Requests, NEW u \in Users, Reset(r, u) PROVE OwnerInv'
  <2>1. "reset" \in Ops
    BY DEF Ops
  <2>2. QED
    BY <1>4, <2>1, DeleteStep DEF Reset
<1>5. ASSUME NEW r \in Requests, NEW s \in Sessions, LoginCreate(r, s) PROVE OwnerInv'
  BY <1>5, EndStep DEF LoginCreate, people
<1>6. ASSUME NEW r \in Requests, Revoke(r) \/ Reject(r) PROVE OwnerInv'
  BY <1>6, EndStep DEF Revoke, Reject, people
<1>7. ASSUME NEW r \in Requests,
             \/ SuspendWrite(r) \/ ReactivateWrite(r) \/ RemoveWrite(r) \/ RoleWrite(r)
      PROVE  OwnerInv'
  BY <1>7, MemberWriteStep
<1>8. ASSUME NEW u \in Users, Apply(u) \/ Readdress(u) \/ Drop(u) \/ BreakGlass(u)
      PROVE  OwnerInv'
  BY <1>8, SameStep DEF Apply, Readdress, Drop, BreakGlass, people
<1>9. ASSUME NEW u \in Users, Approve(u) PROVE OwnerInv'
  BY <1>9, ApproveStep
<1>10. ASSUME NEW s \in Sessions, Expire(s) PROVE OwnerInv'
  BY <1>10, SameStep DEF Expire, people
<1>11. ASSUME NEW c \in Sockets,
              \/ \E s \in Sessions : Connect(c, s)
              \/ Register(c) \/ Disconnect(c) \/ Message(c)
       PROVE  OwnerInv'
  BY <1>11, SameStep DEF Connect, Register, Disconnect, Message, people
<1>12. CASE ApiCrash
  BY <1>12, CrashStep
<1>13. CASE UNCHANGED vars
  BY <1>13, SameStep DEF vars, people
<1>14. QED
  BY <1>1, <1>2, <1>3, <1>4, <1>5, <1>6, <1>7, <1>8, <1>9, <1>10, <1>11, <1>12, <1>13
  DEF Next

\* A community keeps an active owner (isLastActiveOwner), however suspensions,
\* removals, changes of role and reviews overlap, unless a write acted on a
\* count that another one had changed, or an approval demoted the only owner.
THEOREM OwnerAlwaysStays == Spec => []OwnerStays
<1>1. OwnerInv => OwnerStays
  BY DEF OwnerInv
<1>2. QED
  BY <1>1, InitOwnerInv, NextOwnerInv, PTL DEF Spec
-------------------------------------------------------------------------------
(***************************************************************************)
(* Sockets.  SocketsAreLive speaks of registered sockets; a socket that is *)
(* still being connected is as live as one (SocketsServed), or marked late *)
(* by the request that missed it.  A message on a dead socket deletes the  *)
(* row of its session: that harms no other socket, because a session's     *)
(* sockets are all its user's (SessionsKept), its id being a new one.      *)
(***************************************************************************)
SocketRecord == [state : {"closed", "asking", "open"}, user : SUBSET Users,
                 session : SUBSET Sessions, late : BOOLEAN]

Live(c) ==
    \E u \in Active, s \in Sessions :
        socket[c].user = {u} /\ Holds(c, s) /\ session[s] = {u}
Ending(c) == \E r \in Requests : req[r].pc = "revoke" /\ Reached(r, c)
Served(c) == socket[c].state # "closed" /\ ~socket[c].late => Live(c) \/ Ending(c)
Kept(c) == \A s \in Sessions : Holds(c, s) => session[s] = {} \/ session[s] = socket[c].user

SocketInv ==
    /\ socket \in [Sockets -> SocketRecord] /\ session \in [Sessions -> SUBSET Users]
    /\ \A c \in Sockets : Served(c) /\ Kept(c)

\* The requests that are about to tell the registry still are after the step.
RevokesGoOn == \A r \in Requests : req[r].pc = "revoke" => req'[r] = req[r]

\* A socket nobody touched, of a session and a user nobody touched.
LEMMA EndingStays ==
    ASSUME NEW c \in Sockets, Ending(c), RevokesGoOn, socket'[c] = socket[c]
    PROVE  Ending(c)'
BY DEF Ending, RevokesGoOn, Reached, Covers

LEMMA ServedStays ==
    ASSUME NEW c \in Sockets, Served(c), RevokesGoOn, socket'[c] = socket[c],
           Live(c) => Live(c)' \/ Ending(c)'
    PROVE  Served(c)'
BY EndingStays DEF Served

\* Steps that take nobody's membership away, and touch no session or socket.
LEMMA QuietSockets ==
    ASSUME SocketInv, UNCHANGED <<session, socket>>, Active \subseteq Active', RevokesGoOn
    PROVE  SocketInv'
<1>1. ASSUME NEW c \in Sockets PROVE Served(c)' /\ Kept(c)'
  <2>1. Live(c) => Live(c)' BY DEF Live, Holds
  <2>2. Served(c)' BY <2>1, ServedStays DEF SocketInv
  <2> QED BY <2>2 DEF SocketInv, Kept, Holds
<1> QED BY <1>1 DEF SocketInv

\* A request that has written a suspension, a removal or a role is about to
\* close the sockets of the member.
LEMMA LeavingSockets ==
    ASSUME SocketInv, UNCHANGED <<session, socket>>, RevokesGoOn, NEW r \in Requests, NEW u \in Users,
           req[r].user = {u}, req'[r] = Revoking(r), Active \ {u} \subseteq Active'
    PROVE  SocketInv'
<1>1. req'[r].pc = "revoke" /\ req'[r].op = "reset" /\ req'[r].user = {u}
  BY DEF Revoking, Idle
<1>2. ASSUME NEW c \in Sockets PROVE Served(c)' /\ Kept(c)'
  <2>1. ASSUME Live(c) PROVE Live(c)' \/ Ending(c)'
    <3>1. PICK v \in Active, s \in Sessions :
            socket[c].user = {v} /\ Holds(c, s) /\ session[s] = {v}
      BY <2>1 DEF Live
    <3>2. CASE v = u
      <4>1. v \in Users BY DEF Active, Members
      <4>2. Reached(r, c)' BY <1>1, <3>1, <3>2, <4>1 DEF Reached, Covers, Holds
      <4> QED BY <1>1, <4>2 DEF Ending
    <3>3. CASE v # u
      BY <3>1, <3>3 DEF Live, Holds
    <3> QED BY <3>2, <3>3
  <2>2. Served(c)' BY <2>1, ServedStays DEF SocketInv
  <2> QED BY <2>2 DEF SocketInv, Kept, Holds
<1> QED BY <1>2 DEF SocketInv
\* A deletion of sessions is about to close their sockets.
LEMMA DeletionSockets ==
    ASSUME SocketInv, Typed, NEW r \in Requests, NEW op, NEW u \in Users, NEW S,
           DeleteSessions(r, op, u, S)
    PROVE  SocketInv'
<1> DEFINE t == [Idle EXCEPT !.op = op, !.pc = "revoke", !.user = {u}, !.session = S]
<1>1. /\ req[r] = Idle /\ req' = [req EXCEPT ![r] = t] /\ UNCHANGED <<role, suspended, socket>>
      /\ session' = [s \in Sessions |-> IF session[s] = {u} /\ Covers(t, u, s) THEN {} ELSE session[s]]
  BY DEF DeleteSessions, people
<1>2. t.pc = "revoke" BY DEF Idle
<1> HIDE DEF t
<1>3. req'[r] = t BY <1>1 DEF Typed
<1>4. RevokesGoOn BY <1>1, IdleIsRequest DEF RevokesGoOn, Typed
<1>5. Active' = Active BY <1>1 DEF Active, Members
<1>6. session' \in [Sessions -> SUBSET Users] BY <1>1 DEF SocketInv
<1>7. ASSUME NEW c \in Sockets PROVE Served(c)' /\ Kept(c)'
  <2>1. ASSUME Live(c) PROVE Live(c)' \/ Ending(c)'
    <3>1. PICK v \in Active, s \in Sessions :
            socket[c].user = {v} /\ Holds(c, s) /\ session[s] = {v}
      BY <2>1 DEF Live
    <3>2. CASE v = u /\ Covers(t, u, s)
      <4>1. Covers(req'[r], u, s) /\ socket'[c].user = {u} /\ socket'[c].session = {s}
        BY <1>1, <1>3, <3>1, <3>2 DEF Holds
      <4>2. Reached(r, c)' BY <4>1 DEF Reached, Covers
      <4> QED BY <1>2, <1>3, <4>2 DEF Ending
    <3>3. CASE ~(v = u /\ Covers(t, u, s))
      <4>1. session'[s] = session[s] BY <1>1, <3>1, <3>3
      <4> QED BY <1>1, <1>5, <3>1, <4>1 DEF Live, Holds
    <3> QED BY <3>2, <3>3
  <2>2. Served(c)' BY <1>1, <1>4, <2>1, ServedStays DEF SocketInv
  <2> QED BY <1>1, <2>2 DEF SocketInv, Kept, Holds
<1> QED BY <1>1, <1>6, <1>7 DEF SocketInv

\* A new session has a new id.
LEMMA LoginSockets ==
    ASSUME SocketInv, Typed, NEW r \in Requests, NEW s \in Sessions, LoginCreate(r, s)
    PROVE  SocketInv'
<1>1. /\ req[r].pc = "write" /\ req[r].user \in SUBSET Users /\ Unused(s)
      /\ session' = [session EXCEPT ![s] = req[r].user] /\ req' = [req EXCEPT ![r] = Idle]
      /\ UNCHANGED <<role, suspended, socket>>
  BY DEF LoginCreate, Is, people, Typed, RequestRecord
<1>2. RevokesGoOn BY <1>1 DEF RevokesGoOn, Typed
<1>3. Active' = Active BY <1>1 DEF Active, Members
<1>4. session' \in [Sessions -> SUBSET Users] BY <1>1 DEF SocketInv
<1>5. ASSUME NEW c \in Sockets PROVE Served(c)' /\ Kept(c)'
  <2>1. \A z \in Sessions : Holds(c, z) => session'[z] = session[z]
    BY <1>1 DEF Unused, Holds, SocketInv
  <2>2. Live(c) => Live(c)' BY <1>1, <1>3, <2>1 DEF Live, Holds
  <2>3. Served(c)' BY <1>1, <1>2, <2>2, ServedStays DEF SocketInv
  <2> QED BY <1>1, <2>1, <2>3 DEF SocketInv, Kept, Holds
<1> QED BY <1>1, <1>4, <1>5 DEF SocketInv

\* The registry closes what it has, and misses what is being connected.
LEMMA RevokeSockets ==
    ASSUME SocketInv, Typed, NEW r \in Requests, Revoke(r)
    PROVE  SocketInv'
<1>1. /\ socket' = [c \in Sockets |->
                      IF ~Reached(r, c) THEN socket[c]
                      ELSE IF socket[c].state = "open" THEN Closed
                      ELSE [socket[c] EXCEPT !.late = TRUE]]
      /\ req' = [req EXCEPT ![r] = Idle] /\ UNCHANGED <<role, suspended, session>>
  BY DEF Revoke, people
<1>2. Active' = Active BY <1>1 DEF Active, Members
<1>3. \A t \in Requests \ {r} : req'[t] = req[t] BY <1>1 DEF Typed
<1>4. ASSUME NEW c \in Sockets PROVE socket'[c] \in SocketRecord /\ Served(c)' /\ Kept(c)'
  <2>1. CASE ~Reached(r, c)
    <3>1. socket'[c] = socket[c] BY <1>1, <2>1
    <3>2. Live(c) => Live(c)' BY <1>1, <1>2, <3>1 DEF Live, Holds
    <3>3. Ending(c) => Ending(c)' BY <1>3, <2>1, <3>1 DEF Ending, Reached, Covers
    <3>4. Served(c)' BY <3>1, <3>2, <3>3 DEF SocketInv, Served
    <3> QED BY <1>1, <3>1, <3>4 DEF SocketInv, Kept, Holds
  <2>2. CASE Reached(r, c) /\ socket[c].state = "open"
    <3>1. socket'[c] = Closed BY <1>1, <2>2
    <3> QED BY <3>1 DEF Closed, SocketRecord, Served, Kept, Holds
  <2>3. CASE Reached(r, c) /\ socket[c].state # "open"
    <3> DEFINE n == [socket[c] EXCEPT !.late = TRUE]
    <3>1. socket'[c] = n BY <1>1, <2>3
    <3>2. n \in SocketRecord /\ n.late /\ n.user = socket[c].user /\ n.session = socket[c].session
      BY DEF SocketInv, SocketRecord
    <3> HIDE DEF n
    <3> QED BY <1>1, <3>1, <3>2 DEF SocketInv, Served, Kept, Holds
  <2> QED BY <2>1, <2>2, <2>3
<1>5. socket' \in [Sockets -> SocketRecord] BY <1>1, <1>4
<1> QED BY <1>1, <1>4, <1>5 DEF SocketInv
\* What the deletion of sessions leaves of a socket: it is closed, marked late,
\* or not live by a session that is deleted.
Left(c) ==
    \/ socket'[c] = Closed
    \/ /\ socket'[c].late /\ socket'[c].user = socket[c].user
       /\ socket'[c].session = socket[c].session
    \/ /\ socket'[c] = socket[c]
       /\ Live(c) => \A s \in Sessions : Holds(c, s) => session'[s] = session[s]

LEMMA DeletedSockets ==
    ASSUME SocketInv, UNCHANGED <<role, suspended, req>>,
           socket' \in [Sockets -> SocketRecord], session' \in [Sessions -> SUBSET Users],
           \A s \in Sessions : session'[s] \in {session[s], {}},
           \A c \in Sockets : Left(c)
    PROVE  SocketInv'
<1>1. Active' = Active BY DEF Active, Members
<1>2. ASSUME NEW c \in Sockets PROVE Served(c)' /\ Kept(c)'
  <2>1. CASE socket'[c] = Closed
    BY <2>1 DEF Closed, Served, Kept, Holds
  <2>2. CASE /\ socket'[c].late /\ socket'[c].user = socket[c].user
             /\ socket'[c].session = socket[c].session
    BY <2>2 DEF SocketInv, Served, Kept, Holds
  <2>3. CASE /\ socket'[c] = socket[c]
             /\ Live(c) => \A s \in Sessions : Holds(c, s) => session'[s] = session[s]
    <3>1. Live(c) => Live(c)' BY <1>1, <2>3 DEF Live, Holds
    <3>2. RevokesGoOn BY DEF RevokesGoOn
    <3>3. Served(c)' BY <2>3, <3>1, <3>2, ServedStays DEF SocketInv
    <3> QED BY <2>3, <3>3 DEF SocketInv, Kept, Holds
  <2> QED BY <2>1, <2>2, <2>3 DEF Left
<1> QED BY <1>2 DEF SocketInv

LEMMA LateSockets ==
    ASSUME SocketInv, NEW S \in SUBSET Sessions
    PROVE  /\ Late(S) \in [Sockets -> SocketRecord]
           /\ \A c \in Sockets :
                 \/ /\ \E s \in S : Holds(c, s)
                    /\ Late(S)[c].late /\ Late(S)[c].user = socket[c].user
                    /\ Late(S)[c].session = socket[c].session
                 \/ (\A s \in S : ~Holds(c, s)) /\ Late(S)[c] = socket[c]
<1>1. ASSUME NEW c \in Sockets
      PROVE  LET n == [socket[c] EXCEPT !.late = TRUE] IN
             /\ n \in SocketRecord /\ n.late
             /\ n.user = socket[c].user /\ n.session = socket[c].session
  BY DEF SocketInv, SocketRecord
<1> QED BY <1>1 DEF Late, SocketInv

LEMMA DyingSockets ==
    ASSUME SocketInv,
           \/ \E u \in Users : BreakGlass(u)
           \/ \E s \in Sessions : Expire(s)
           \/ \E c \in Sockets : Disconnect(c) \/ Message(c)
    PROVE  SocketInv'
<1> USE DEF people
<1>1. Closed \in SocketRecord BY DEF Closed, SocketRecord
<1>2. ASSUME NEW u \in Users, BreakGlass(u) PROVE SocketInv'
  <2>1. /\ socket' = Late(SessionsOf(u)) /\ UNCHANGED <<role, suspended, req>>
        /\ session' = [s \in Sessions |-> IF session[s] = {u} THEN {} ELSE session[s]]
    BY <1>2 DEF BreakGlass
  <2>2. SessionsOf(u) \in SUBSET Sessions BY DEF SessionsOf
  <2>3. \A c \in Sockets : Left(c) BY <2>1, <2>2, LateSockets DEF Left, SessionsOf
  <2>4. socket' \in [Sockets -> SocketRecord] BY <2>1, <2>2, LateSockets
  <2>5. /\ session' \in [Sessions -> SUBSET Users]
        /\ \A s \in Sessions : session'[s] \in {session[s], {}}
    BY <2>1 DEF SocketInv
  <2> QED BY <2>1, <2>3, <2>4, <2>5, DeletedSockets
<1>3. ASSUME NEW s \in Sessions, Expire(s) PROVE SocketInv'
  <2>1. /\ session' = [session EXCEPT ![s] = {}] /\ UNCHANGED <<role, suspended, req>>
        /\ socket' = IF \E u \in Active : session[s] = {u} THEN Late({s}) ELSE socket
    BY <1>3 DEF Expire
  <2>2. \A c \in Sockets : Left(c)
    <3>1. CASE \E u \in Active : session[s] = {u}
      BY <2>1, <3>1, LateSockets DEF Left, SocketInv
    <3>2. CASE ~ \E u \in Active : session[s] = {u}
      BY <2>1, <3>2 DEF Left, SocketInv, Live, Holds
    <3> QED BY <3>1, <3>2
  <2>3. socket' \in [Sockets -> SocketRecord] BY <2>1, LateSockets DEF SocketInv
  <2>4. /\ session' \in [Sessions -> SUBSET Users]
        /\ \A z \in Sessions : session'[z] \in {session[z], {}}
    BY <2>1 DEF SocketInv
  <2> QED BY <2>1, <2>2, <2>3, <2>4, DeletedSockets
<1>4. ASSUME NEW c \in Sockets, Disconnect(c) PROVE SocketInv'
  <2>1. socket' = [socket EXCEPT ![c] = Closed] /\ UNCHANGED <<role, suspended, req, session>>
    BY <1>4 DEF Disconnect
  <2>2. \A d \in Sockets : Left(d) BY <2>1 DEF Left, SocketInv
  <2> QED BY <1>1, <2>1, <2>2, DeletedSockets DEF SocketInv
<1>5. ASSUME NEW c \in Sockets, Message(c) PROVE SocketInv'
  <2>1. /\ ~Live(c) /\ socket' = [socket EXCEPT ![c] = Closed] /\ UNCHANGED <<role, suspended, req>>
        /\ session' = [s \in Sessions |-> IF Holds(c, s) THEN {} ELSE session[s]]
    BY <1>5 DEF Message, Live
  <2>2. ASSUME NEW d \in Sockets \ {c} PROVE Left(d)
    \* A live socket of the same session would make this one live too.
    <3>1. ASSUME Live(d), NEW s \in Sessions, Holds(d, s), Holds(c, s) PROVE FALSE
      <4>1. PICK u \in Active : socket[d].user = {u} /\ session[s] = {u}
        BY <3>1 DEF Live, Holds
      <4>2. socket[c].user = {u} BY <3>1, <4>1 DEF SocketInv, Kept
      <4> QED BY <2>1, <3>1, <4>1, <4>2 DEF Live
    <3> QED BY <2>1, <3>1 DEF Left, SocketInv
  <2>3. \A d \in Sockets : Left(d) BY <2>1, <2>2 DEF Left, SocketInv
  <2>4. /\ session' \in [Sessions -> SUBSET Users]
        /\ \A s \in Sessions : session'[s] \in {session[s], {}}
    BY <2>1 DEF SocketInv
  <2> QED BY <1>1, <2>1, <2>3, <2>4, DeletedSockets DEF SocketInv
<1> QED BY <1>2, <1>3, <1>4, <1>5

\* A connection begins on a live session, and is registered as what it is.
LEMMA ConnectingSockets ==
    ASSUME SocketInv, NEW c \in Sockets, Register(c) \/ \E s \in Sessions : Connect(c, s)
    PROVE  SocketInv'
<1> USE DEF people
<1>1. UNCHANGED <<role, suspended, session, req>> BY DEF Register, Connect
<1>2. Active' = Active BY <1>1 DEF Active, Members
<1>3. PICK n \in SocketRecord :
        /\ socket' = [socket EXCEPT ![c] = n]
        /\ \/ /\ n.user = socket[c].user /\ n.session = socket[c].session
              /\ n.late = socket[c].late /\ socket[c].state # "closed"
           \/ \E u \in Active, s \in Sessions : n.user = {u} /\ n.session = {s} /\ session[s] = {u}
  <2>1. CASE Register(c)
    <3> DEFINE n == [socket[c] EXCEPT !.state = "open"]
    <3>1. socket' = [socket EXCEPT ![c] = n] BY <2>1 DEF Register
    <3>2. /\ n \in SocketRecord /\ n.user = socket[c].user /\ n.session = socket[c].session
          /\ n.late = socket[c].late
      BY DEF SocketInv, SocketRecord
    <3>3. socket[c].state # "closed" BY <2>1 DEF Register
    <3> HIDE DEF n
    <3> QED BY <3>1, <3>2, <3>3
  <2>2. CASE \E s \in Sessions : Connect(c, s)
    <3>1. PICK s \in Sessions, u \in Active :
            /\ session[s] = {u}
            /\ socket' = [socket EXCEPT ![c] = [state |-> "asking", user |-> {u},
                                                session |-> {s}, late |-> FALSE]]
      BY <2>2 DEF Connect
    <3> DEFINE n == [state |-> "asking", user |-> {u}, session |-> {s}, late |-> FALSE]
    <3>2. u \in Users BY DEF Active, Members
    <3>3. n \in SocketRecord /\ n.user = {u} /\ n.session = {s} BY <3>2 DEF SocketRecord
    <3> QED BY <3>1, <3>3
  <2> QED BY <2>1, <2>2
<1>4. /\ socket' \in [Sockets -> SocketRecord] /\ socket'[c] = n
      /\ \A d \in Sockets \ {c} : socket'[d] = socket[d]
  BY <1>3 DEF SocketInv
<1>5. ASSUME NEW d \in Sockets PROVE Served(d)' /\ Kept(d)'
  <2>1. CASE d = c /\ \E u \in Active, s \in Sessions :
                         n.user = {u} /\ n.session = {s} /\ session[s] = {u}
    BY <1>1, <1>2, <1>4, <2>1 DEF Served, Live, Kept, Holds
  <2>2. CASE d # c \/ /\ n.user = socket[c].user /\ n.session = socket[c].session
                      /\ n.late = socket[c].late /\ socket[c].state # "closed"
    <3>1. /\ socket'[d].user = socket[d].user /\ socket'[d].session = socket[d].session
          /\ socket'[d].late = socket[d].late
          /\ socket'[d].state # "closed" => socket[d].state # "closed"
      BY <1>4, <2>2
    <3>2. Live(d)' <=> Live(d) BY <1>1, <1>2, <3>1 DEF Live, Holds
    <3>3. Ending(d)' <=> Ending(d) BY <1>1, <3>1 DEF Ending, Reached, Covers
    <3> QED BY <1>1, <3>1, <3>2, <3>3 DEF SocketInv, Served, Kept, Holds
  <2> QED BY <1>3, <2>1, <2>2
<1> QED BY <1>1, <1>4, <1>5 DEF SocketInv
\* A write of a membership leaves the requests alone that are about to tell.
LEMMA WritingSockets ==
    ASSUME SocketInv, Typed, NEW r \in Requests,
           \/ SuspendWrite(r) \/ ReactivateWrite(r) \/ RemoveWrite(r) \/ RoleWrite(r)
    PROVE  SocketInv'
<1>1. /\ req[r].pc = "write" /\ UNCHANGED <<session, socket>>
      /\ \A t \in Requests \ {r} : req'[t] = After(t)
  BY DEF SuspendWrite, ReactivateWrite, RemoveWrite, RoleWrite, Is, Written
<1>2. PICK u \in Users : req[r].user = {u} BY <1>1 DEF Typed
<1>3. RevokesGoOn BY <1>1 DEF RevokesGoOn, After
<1>4. CASE ReactivateWrite(r)
  <2>1. Active \subseteq Active' BY <1>4 DEF ReactivateWrite, Active, Members
  <2> QED BY <1>1, <1>3, <2>1, QuietSockets
<1>5. CASE SuspendWrite(r) \/ RemoveWrite(r) \/ RoleWrite(r)
  <2>1. req'[r] = Revoking(r) BY <1>5 DEF SuspendWrite, RemoveWrite, RoleWrite, Written
  <2>2. Active \ {u} \subseteq Active'
    BY <1>2, <1>5 DEF SuspendWrite, RemoveWrite, RoleWrite, Active, Members
  <2> QED BY <1>1, <1>2, <1>3, <2>1, <2>2, LeavingSockets
<1> QED BY <1>4, <1>5

\* Requests that read, are refused or review change no socket.
LEMMA ReadingSockets ==
    ASSUME SocketInv, Typed, UNCHANGED <<role, suspended, session, socket>>,
           NEW r \in Requests, NEW t, req[r].pc # "revoke", req' = [req EXCEPT ![r] = t]
    PROVE  SocketInv'
<1>1. RevokesGoOn BY DEF RevokesGoOn, Typed
<1>2. Active' = Active BY DEF Active, Members
<1> QED BY <1>1, <1>2, QuietSockets

LEMMA ApproveSockets ==
    ASSUME SocketInv, Typed, NEW u \in Users, Approve(u)
    PROVE  SocketInv'
<1>1. RevokesGoOn BY DEF Approve, RevokesGoOn, After
<1>2. Active \subseteq Active' BY DEF Approve, Active, Members, Roles, Typed
<1> QED BY <1>1, <1>2, QuietSockets DEF Approve

LEMMA CrashSockets ==
    ASSUME SocketInv, ApiCrash
    PROVE  SocketInv'
BY DEF SocketInv, ApiCrash, people, Closed, SocketRecord, Served, Kept, Holds

LEMMA NextSocketInv == SocketInv /\ Typed /\ [Next]_vars => SocketInv'
<1> SUFFICES ASSUME SocketInv, Typed, [Next]_vars PROVE SocketInv'
  OBVIOUS
<1> USE DEF people
<1>1. ASSUME NEW r \in Requests,
             \/ \E actor, u \in Users :
                   \/ SuspendRead(r, actor, u) \/ ReactivateRead(r, actor, u)
                   \/ RemoveRead(r, actor, u)
                   \/ \E to \in Roles : RoleRead(r, actor, u, to)
             \/ \E u \in Users : LoginRead(r, u)
             \/ Reject(r)
      PROVE  SocketInv'
  <2>1. req[r].pc # "revoke"
    BY <1>1, IdleIsRequest
    DEF SuspendRead, ReactivateRead, RemoveRead, RoleRead, LoginRead, Reject, Start
  <2>2. PICK t : req' = [req EXCEPT ![r] = t]
    BY <1>1 DEF SuspendRead, ReactivateRead, RemoveRead, RoleRead, LoginRead, Reject, Start
  <2>3. UNCHANGED <<role, suspended, session, socket>>
    BY <1>1 DEF SuspendRead, ReactivateRead, RemoveRead, RoleRead, LoginRead, Reject
  <2> QED BY <2>1, <2>2, <2>3, ReadingSockets
<1>2. ASSUME NEW r \in Requests,
             \/ \E u \in Users : Reset(r, u)
             \/ \E u \in Users, s \in Sessions : RevokeOthers(r, u, s) \/ EndSession(r, u, s)
      PROVE  SocketInv'
  BY <1>2, DeletionSockets DEF Reset, RevokeOthers, EndSession
<1>3. ASSUME NEW r \in Requests,
             \/ \E s \in Sessions : LoginCreate(r, s)
             \/ SuspendWrite(r) \/ ReactivateWrite(r) \/ RemoveWrite(r) \/ RoleWrite(r)
             \/ Revoke(r)
      PROVE  SocketInv'
  BY <1>3, LoginSockets, WritingSockets, RevokeSockets
<1>4. ASSUME NEW u \in Users, Apply(u) \/ Readdress(u) \/ Drop(u) PROVE SocketInv'
  <2>1. UNCHANGED <<role, suspended, session, socket, req>>
    BY <1>4 DEF Apply, Readdress, Drop
  <2>2. RevokesGoOn /\ Active' = Active BY <2>1 DEF RevokesGoOn, Active, Members
  <2> QED BY <2>1, <2>2, QuietSockets
<1>5. ASSUME NEW u \in Users, Approve(u) PROVE SocketInv'
  BY <1>5, ApproveSockets
<1>6. ASSUME \/ \E u \in Users : BreakGlass(u)
             \/ \E s \in Sessions : Expire(s)
             \/ \E c \in Sockets : Disconnect(c) \/ Message(c)
      PROVE  SocketInv'
  BY <1>6, DyingSockets
<1>7. ASSUME NEW c \in Sockets, Register(c) \/ \E s \in Sessions : Connect(c, s)
      PROVE  SocketInv'
  BY <1>7, ConnectingSockets
<1>8. CASE ApiCrash BY <1>8, CrashSockets
<1>9. CASE UNCHANGED vars
  <2>1. RevokesGoOn /\ Active' = Active BY <1>9 DEF vars, RevokesGoOn, Active, Members
  <2> QED BY <1>9, <2>1, QuietSockets DEF vars
<1> QED BY <1>1, <1>2, <1>3, <1>4, <1>5, <1>6, <1>7, <1>8, <1>9 DEF Next

\* A registered socket belongs to a live session of an active member, or the
\* request that ended it is about to close it (realtimeSessionRegistry), unless
\* it was marked late: its connection overlapped that request, its session
\* expired, or the command-line recovery ended it.
THEOREM SocketsStayLive == Spec => []SocketsAreLive
<1>1. Init => SocketInv
  BY DEF Init, SocketInv, Closed, SocketRecord, Served, Kept, Holds
<1>2. SocketInv => SocketsAreLive
  BY DEF SocketInv, Served, Live, Ending, SocketsAreLive
<1>3. OwnerInv => Typed
  BY DEF OwnerInv
<1>4. QED
  BY <1>1, <1>2, <1>3, NextSocketInv, InitOwnerInv, NextOwnerInv, PTL DEF Spec
=============================================================================
