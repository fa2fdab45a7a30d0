------------------------------- MODULE Accounts -------------------------------
(***************************************************************************)
(* The memberships of one community, the sessions of its members and the   *)
(* sockets opened with them: apps/api/src/admin/admin.service.ts,          *)
(* registration/registration-submission.service.ts, auth/*.service.ts,     *)
(* owner-break-glass and the socket gateways.                              *)
(*                                                                         *)
(* An administrator's request reads the rows and decides, writes by row id *)
(* in a transaction, and only then tells the registry of this process      *)
(* whose sockets to close.  A connecting socket reads its session and is   *)
(* registered later.  All of these steps interleave.                       *)
(***************************************************************************)
EXTENDS Naturals, FiniteSets, TLC

CONSTANTS
    Users, Requests, Sessions, Sockets,
    MaxPending  \* bound: applications at a time

VARIABLES
    role,       \* a membership's role; "none": an account without one; or "unknown"
    suspended,  \* members whose status is SUSPENDED
    pending,    \* users whose address a pending application carries
    session,    \* the user of each session row, as a set; {} without a row
    socket,     \* the sockets and the registry's record of them
    req,        \* the requests under way
    excused     \* a stale write removed an owner, or an approval the only one

people == <<role, suspended, pending>>
vars == <<role, suspended, pending, session, socket, req, excused>>

Roles == {"member", "admin", "owner"}
Guarded == {"suspend", "remove", "role"}   \* they ask for the last active owner
Ops == Guarded \cup {"idle", "reactivate", "login", "reset", "others", "end"}
Idle == [op |-> "idle", pc |-> "idle", user |-> {}, to |-> "none", session |-> {},
         stale |-> FALSE]
Closed == [state |-> "closed", user |-> {}, session |-> {}, late |-> FALSE]

Members == {u \in Users : role[u] \in Roles}
Active == Members \ suspended
Owners == {u \in Active : role[u] = "owner"}
SessionsOf(u) == {s \in Sessions : session[s] = {u}}

TypeOK ==
    /\ role \in [Users -> Roles \cup {"none", "unknown"}]
    /\ suspended \subseteq Members /\ pending \subseteq Users
    /\ \A s \in Sessions : session[s] = {} \/ \E u \in Users : session[s] = {u}
    /\ \A c \in Sockets :
          /\ socket[c].state \in {"closed", "asking", "open"}
          /\ socket[c] # Closed => /\ \E u \in Users : socket[c].user = {u}
                                   /\ \E s \in Sessions : socket[c].session = {s}
    /\ \A r \in Requests :
          /\ req[r].op \in Ops /\ req[r].pc \in {"idle", "write", "revoke"}
          /\ req[r] # Idle => \E u \in Users : req[r].user = {u}
    /\ excused \in BOOLEAN

\* The setup creates the community with its owner.
Init ==
    /\ \E u \in Users : role = [v \in Users |-> IF v = u THEN "owner" ELSE "unknown"]
    /\ suspended = {} /\ pending = {}
    /\ session = [s \in Sessions |-> {}]
    /\ socket = [c \in Sockets |-> Closed]
    /\ req = [r \in Requests |-> Idle]
    /\ excused = FALSE

-------------------------------------------------------------------------------
Start(r, op, u) ==
    /\ req[r] = Idle
    /\ req' = [req EXCEPT ![r] = [Idle EXCEPT !.op = op, !.pc = "write", !.user = {u}]]
Is(r, op) == req[r].op = op /\ req[r].pc = "write"

\* assertCanModifyMembership: owners and administrators only answer to owners.
MayModify(actor, u) ==
    /\ actor \in Active /\ role[actor] \in {"admin", "owner"} /\ u \in Members
    /\ role[u] \in {"admin", "owner"} => role[actor] = "owner"

\* IsLastActiveOwner that counts suspended owners as well.
IsLastOwnerRow(u) == {v \in Members : role[v] = "owner"} = {u}
IsLastActiveOwner(u) == Owners = {u}

SuspendRead(r, actor, u) ==
    /\ MayModify(actor, u) /\ actor # u
    /\ u \in Active /\ ~IsLastActiveOwner(u)
    /\ Start(r, "suspend", u)
    /\ UNCHANGED <<people, session, socket, excused>>

ReactivateRead(r, actor, u) ==
    /\ MayModify(actor, u) /\ actor # u
    /\ u \in suspended
    /\ Start(r, "reactivate", u)
    /\ UNCHANGED <<people, session, socket, excused>>

RemoveRead(r, actor, u) ==
    /\ MayModify(actor, u) /\ actor # u
    /\ ~IsLastActiveOwner(u)
    /\ Start(r, "remove", u)
    /\ UNCHANGED <<people, session, socket, excused>>

\* One may change one's own role.
RoleRead(r, actor, u, to) ==
    /\ MayModify(actor, u)
    /\ to = "owner" => role[actor] = "owner"
    /\ to # "owner" => ~IsLastActiveOwner(u)
    /\ req[r] = Idle
    /\ req' = [req EXCEPT ![r] = [Idle EXCEPT !.op = "role", !.pc = "write",
                                              !.user = {u}, !.to = to]]
    /\ UNCHANGED <<people, session, socket, excused>>

\* A write of a membership.  A guarded request that counted other active owners
\* is stale from then on.  One whose row is deleted fails: it updates by row id.
NowOwners == {u \in Users : role'[u] = "owner" /\ u \notin suspended'}
After(t) ==
    IF req[t].pc # "write" \/ req[t].op \notin Guarded \cup {"reactivate"} THEN req[t]
    ELSE IF \E u \in Members : req[t].user = {u} /\ role'[u] = "none" THEN Idle
    ELSE [req[t] EXCEPT !.stale = @ \/ (req[t].op \in Guarded /\ NowOwners # Owners)]
Written(r, next) ==
    /\ req' = [t \in Requests |-> IF t = r THEN next ELSE After(t)]
    /\ excused' = (excused \/ (req[r].stale /\ ~(Owners \subseteq NowOwners)))
\* Revoking when the registry is not told.
RevokingNothing(r) == Idle
Revoking(r) == [Idle EXCEPT !.op = "reset", !.pc = "revoke", !.user = req[r].user]

SuspendWrite(r) ==
    /\ Is(r, "suspend")
    /\ suspended' = suspended \cup req[r].user
    /\ UNCHANGED <<role, pending, session, socket>>
    /\ Written(r, Revoking(r))

ReactivateWrite(r) ==
    /\ Is(r, "reactivate")
    /\ suspended' = suspended \ req[r].user
    /\ UNCHANGED <<role, pending, session, socket>>
    /\ Written(r, Idle)

\* The sessions of a removed member stay until they are used.
RemoveWrite(r) ==
    /\ Is(r, "remove")
    /\ role' = [u \in Users |-> IF req[r].user = {u} THEN "none" ELSE role[u]]
    /\ suspended' = suspended \ req[r].user
    /\ UNCHANGED <<pending, session, socket>>
    /\ Written(r, Revoking(r))

RoleWrite(r) ==
    /\ Is(r, "role")
    /\ role' = [u \in Users |-> IF req[r].user = {u} THEN req[r].to ELSE role[u]]
    /\ UNCHANGED <<suspended, pending, session, socket>>
    /\ Written(r, Revoking(r))

-------------------------------------------------------------------------------
\* An application is created only for an address without an account ...
Apply(u) ==
    /\ role[u] = "unknown" /\ u \notin pending /\ Cardinality(pending) < MaxPending
    /\ pending' = pending \cup {u}
    /\ UNCHANGED <<role, suspended, session, socket, req, excused>>

\* ... but a change of e-mail does not ask for applications.
Readdress(u) ==
    /\ role[u] # "unknown" /\ u \notin pending /\ Cardinality(pending) < MaxPending
    /\ pending' = pending \cup {u}
    /\ UNCHANGED <<role, suspended, session, socket, req, excused>>

\* Another submission supersedes the application of an active member, and a
\* reviewer rejects one.
Drop(u) ==
    /\ u \in pending
    /\ pending' = pending \ {u}
    /\ UNCHANGED <<role, suspended, session, socket, req, excused>>

\* review: the membership is created, or made an active member's.
Approve(u) ==
    /\ u \in pending
    /\ pending' = pending \ {u}
    /\ role' = [role EXCEPT ![u] = "member"]
    /\ suspended' = suspended \ {u}
    /\ excused' = (excused \/ Owners = {u})
    /\ req' = [t \in Requests |-> After(t)]
    /\ UNCHANGED <<session, socket>>

-------------------------------------------------------------------------------
\* login and completeTwoFactorLogin up to the last read of the membership.
LoginRead(r, u) ==
    /\ u \in Active
    /\ Start(r, "login", u)
    /\ UNCHANGED <<people, session, socket, excused>>

\* A session's id is a new one: no socket or request refers to it.
Unused(s) ==
    /\ session[s] = {}
    /\ \A c \in Sockets : socket[c].session # {s}
    /\ \A r \in Requests : req[r].session # {s}

LoginCreate(r, s) ==
    /\ Is(r, "login") /\ Unused(s)
    /\ session' = [session EXCEPT ![s] = req[r].user]
    /\ req' = [req EXCEPT ![r] = Idle]
    /\ UNCHANGED <<people, socket, excused>>

\* What a request that ends sessions is about: every session of a user, all but
\* the one it came with, or only one.
Covers(t, u, s) ==
    /\ t.user = {u}
    /\ t.op = "others" => t.session # {s}
    /\ t.op = "end" => t.session = {s}

\* The sessions are deleted, whatever was read before: that only names the user
\* and the session.
DeleteSessions(r, op, u, kept) ==
    LET t == [Idle EXCEPT !.op = op, !.pc = "revoke", !.user = {u}, !.session = kept] IN
    /\ req[r] = Idle
    /\ session' = [s \in Sessions |->
                     IF session[s] = {u} /\ Covers(t, u, s) THEN {} ELSE session[s]]
    /\ req' = [req EXCEPT ![r] = t]
    /\ UNCHANGED <<people, socket, excused>>

\* resetPassword with a token, and an administrator's reset of a password or of
\* the second factor.
Reset(r, u) == role[u] # "unknown" /\ DeleteSessions(r, "reset", u, {})

\* revokeOtherSessions, and the verification of a new e-mail.
RevokeOthers(r, u, s) ==
    /\ u \in Active /\ session[s] = {u}
    /\ DeleteSessions(r, "others", u, {s})

\* logout, and revokeSession for another one of one's sessions.
EndSession(r, u, s) == session[s] = {u} /\ DeleteSessions(r, "end", u, {s})

Reached(r, c) ==
    \E u \in Users, s \in Sessions :
        socket[c].user = {u} /\ socket[c].session = {s} /\ Covers(req[r], u, s)

\* realtimeSessionRegistry: the registered sockets are closed; one that has read
\* its session and is not registered yet is missed.
Revoke(r) ==
    /\ req[r].pc = "revoke"
    /\ socket' = [c \in Sockets |->
                    IF ~Reached(r, c) THEN socket[c]
                    ELSE IF socket[c].state = "open" THEN Closed
                    ELSE [socket[c] EXCEPT !.late = TRUE]]
    /\ req' = [req EXCEPT ![r] = Idle]
    /\ UNCHANGED <<people, session, excused>>

\* A request is refused, or its transaction fails.
Reject(r) ==
    /\ req[r].pc = "write"
    /\ req' = [req EXCEPT ![r] = Idle]
    /\ UNCHANGED <<people, session, socket, excused>>

-------------------------------------------------------------------------------
Holds(c, s) == socket[c].session = {s}
Late(S) == [c \in Sockets |->
              IF \E s \in S : Holds(c, s) THEN [socket[c] EXCEPT !.late = TRUE]
              ELSE socket[c]]

\* recover runs in a process of its own: its registry holds no sockets.
BreakGlass(u) ==
    /\ u \in Owners
    /\ session' = [s \in Sessions |-> IF session[s] = {u} THEN {} ELSE session[s]]
    /\ socket' = Late(SessionsOf(u))
    /\ UNCHANGED <<people, req, excused>>

\* A session that has expired, or whose member is not active any more, is
\* deleted when it is used, or by the retention; the registry is not told.
Expire(s) ==
    /\ session[s] # {}
    /\ session' = [session EXCEPT ![s] = {}]
    /\ socket' = IF \E u \in Active : session[s] = {u} THEN Late({s}) ELSE socket
    /\ UNCHANGED <<people, req, excused>>

\* handleConnection: userFromCookie, and the registration after it.
Connect(c, s) ==
    /\ socket[c] = Closed
    /\ \E u \in Active :
          /\ session[s] = {u}
          /\ socket' = [socket EXCEPT ![c] = [state |-> "asking", user |-> {u},
                                              session |-> {s}, late |-> FALSE]]
    /\ UNCHANGED <<people, session, req, excused>>

Register(c) ==
    /\ socket[c].state = "asking"
    /\ socket' = [socket EXCEPT ![c].state = "open"]
    /\ UNCHANGED <<people, session, req, excused>>

Disconnect(c) ==
    /\ socket[c].state = "open"
    /\ socket' = [socket EXCEPT ![c] = Closed]
    /\ UNCHANGED <<people, session, req, excused>>

\* userOrDisconnect asks again for the session and the membership.
Message(c) ==
    /\ socket[c].state = "open"
    /\ ~ \E u \in Active, s \in Sessions :
            socket[c].user = {u} /\ Holds(c, s) /\ session[s] = {u}
    /\ session' = [s \in Sessions |-> IF Holds(c, s) THEN {} ELSE session[s]]
    /\ socket' = [socket EXCEPT ![c] = Closed]
    /\ UNCHANGED <<people, req, excused>>

\* The API process ends with its registry, its sockets and its requests.
ApiCrash ==
    /\ socket' = [c \in Sockets |-> Closed]
    /\ req' = [r \in Requests |-> Idle]
    /\ UNCHANGED <<people, session, excused>>

-------------------------------------------------------------------------------
Next ==
    \/ \E r \in Requests :
          \/ \E actor, u \in Users :
                \/ SuspendRead(r, actor, u) \/ ReactivateRead(r, actor, u)
                \/ RemoveRead(r, actor, u)
                \/ \E to \in Roles : RoleRead(r, actor, u, to)
          \/ \E u \in Users : LoginRead(r, u) \/ Reset(r, u)
          \/ \E u \in Users, s \in Sessions : RevokeOthers(r, u, s) \/ EndSession(r, u, s)
          \/ \E s \in Sessions : LoginCreate(r, s)
          \/ SuspendWrite(r) \/ ReactivateWrite(r) \/ RemoveWrite(r) \/ RoleWrite(r)
          \/ Revoke(r) \/ Reject(r)
    \/ \E u \in Users : Apply(u) \/ Readdress(u) \/ Drop(u) \/ Approve(u) \/ BreakGlass(u)
    \/ \E s \in Sessions : Expire(s)
    \/ \E c \in Sockets : \/ \E s \in Sessions : Connect(c, s)
                          \/ Register(c) \/ Disconnect(c) \/ Message(c)
    \/ ApiCrash

Spec == Init /\ [][Next]_vars

\* Users, requests and sessions are interchangeable.
Symmetry ==
    Permutations(Users) \cup Permutations(Requests) \cup Permutations(Sessions)

-------------------------------------------------------------------------------
\* A community keeps an active owner, whatever suspensions, removals, changes of
\* role and reviews its owners make, as long as no write acted on a count of
\* owners another one had changed and no approval made the only one a member.
OwnerStays == ~excused => Owners # {}

\* A registered socket belongs to a live session of an active member, or the
\* request that ended its session or membership is about to close it: unless
\* the connection overlapped that request, the session expired, or the
\* command-line recovery ended it.
SocketsAreLive ==
    \A c \in Sockets : socket[c].state = "open" /\ ~socket[c].late =>
        \/ \E u \in Active, s \in Sessions :
              socket[c].user = {u} /\ Holds(c, s) /\ session[s] = {u}
        \/ \E r \in Requests : req[r].pc = "revoke" /\ Reached(r, c)
===============================================================================
