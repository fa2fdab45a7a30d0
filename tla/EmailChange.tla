----------------------------- MODULE EmailChange -----------------------------
(***************************************************************************)
(* A member's change of e-mail address, and the verification of the first  *)
(* one: apps/api/src/auth/email-change.service.ts.  A request is a row     *)
(* with the hash of its newest token; the token is mailed to the new       *)
(* address after the row is committed.  Checks read first, and the         *)
(* transaction that follows names in its WHERE what it relies on.          *)
(* A transaction is one step; the unique columns refuse a second active    *)
(* row of a user, or for an address.                                       *)
(***************************************************************************)
EXTENDS Naturals, FiniteSets

CONSTANTS
    Users, Addresses,
    Initial,     \* the address of each user at first
    Requests,    \* HTTP requests at a time
    Rows,        \* bound: request rows, numbered as they are created
    Tokens       \* bound: tokens of a row, numbered as they are created

VARIABLES
    email,       \* User.email
    verified,    \* users with emailVerifiedAt
    row,         \* the EmailChangeRequest rows: once cancelled or verified, "over"
    mailed,      \* active rows whose newest token was mailed
    call,        \* the requests under way
    stale,       \* rows created with an address that was not the user's any more
    reset        \* rows created before a password reset

emailVars == <<email, verified, row, mailed, call, stale, reset>>

NoRow == [user |-> {}, old |-> "none", new |-> "none", state |-> "none", token |-> 0]
NoCall == [pc |-> "idle", user |-> {}, old |-> "none", new |-> "none", key |-> <<0, 0>>]

Created == {k \in Rows : row[k].state # "none"}
ActiveRows(u) == {k \in Rows : row[k].state = "active" /\ row[k].user = {u}}
Over(k) == [NoRow EXCEPT !.user = row[k].user, !.state = "over"]
Newest(u) == {k \in Created : /\ row[k].user = {u}
                              /\ \A l \in Created : row[l].user = {u} => l <= k}
Primary(k) == row[k].old = row[k].new

EmailInit ==
    /\ email = Initial /\ verified = {}
    /\ row = [k \in Rows |-> NoRow]
    /\ mailed = {} /\ stale = {} /\ reset = {}
    /\ call = [r \in Requests |-> NoCall]

Step(r, next) == call' = [call EXCEPT ![r] = next]
Ask(r, u, new) ==
    /\ call[r] = NoCall
    /\ Step(r, [NoCall EXCEPT !.pc = "create", !.user = {u}, !.old = email[u], !.new = new])

-------------------------------------------------------------------------------
\* request: the password and the address are read, and the new one is free: no
\* user has it, and no other user's active change.
RequestRead(r, u, new) ==
    /\ new # email[u]
    /\ \A v \in Users : email[v] # new
    /\ \A v \in Users \ {u} : \A k \in ActiveRows(v) : row[k].new # new \/ Primary(k)
    /\ Ask(r, u, new)
    /\ UNCHANGED <<email, verified, row, mailed, stale, reset>>

\* sendPrimaryVerification, and the approval of an application, which does not
\* ask for a pending change.
PrimaryRead(r, u) ==
    /\ u \notin verified
    /\ Ask(r, u, email[u])
    /\ UNCHANGED <<email, verified, row, mailed, stale, reset>>

CancelActive(u) == [k \in Rows |-> IF k \in ActiveRows(u) THEN Over(k) ELSE row[k]]

StillActive == {k \in mailed : row'[k].state = "active"}

\* The user's active request is cancelled and the new one created, unless the
\* unique activeUserId still has the user, or the unique activeNewEmail the address.
Create(r) ==
    \E u \in Users, k \in Rows :
        LET rest == CancelActive(u) IN
        /\ \A l \in Rows : rest[l].state = "active" => rest[l].user # {u}
        /\ call[r].pc = "create" /\ call[r].user = {u}
        /\ call[r].old # call[r].new =>
             \A v \in Users \ {u} : \A l \in ActiveRows(v) :
                 row[l].new # call[r].new \/ Primary(l)
        /\ k \notin Created /\ \A l \in Rows : l < k => l \in Created
        /\ row' = [rest EXCEPT
                     ![k] = [user |-> {u}, old |-> call[r].old, new |-> call[r].new,
                             state |-> "active", token |-> 1]]
        /\ mailed' = StillActive
        /\ stale' = stale \cup (IF email[u] = call[r].old THEN {} ELSE {k})
        /\ Step(r, [NoCall EXCEPT !.pc = "mail", !.key = <<k, 1>>])
    /\ UNCHANGED <<email, verified, reset>>

\* resend replaces the token of the active change.
Resend(r, k) ==
    /\ call[r] = NoCall
    /\ row[k].state = "active" /\ ~Primary(k) /\ row[k].token + 1 \in Tokens
    /\ row' = [row EXCEPT ![k].token = @ + 1]
    /\ mailed' = mailed \ {k}
    /\ Step(r, [NoCall EXCEPT !.pc = "mail", !.key = <<k, row[k].token + 1>>])
    /\ UNCHANGED <<email, verified, stale, reset>>

\* Mails are queued after the commit.
Mail(r) ==
    /\ call[r].pc = "mail"
    /\ mailed' = mailed \cup {k \in Rows : row[k].state = "active" /\ call[r].key = <<k, row[k].token>>}
    /\ Step(r, NoCall)
    /\ UNCHANGED <<email, verified, row, stale, reset>>

\* cancel by the user, and expireRequests.
Cancel(k) ==
    /\ row[k].state = "active"
    /\ row' = [row EXCEPT ![k] = Over(k)]
    /\ mailed' = StillActive
    /\ UNCHANGED <<email, verified, call, stale, reset>>

\* PasswordReset that leaves the request.
KeepActive(u) == row
\* resetPassword, changeRequiredPassword and resetMemberPassword.
AfterReset(u) == CancelActive(u)
PasswordReset(u) ==
    /\ row' = AfterReset(u)
    /\ reset' = reset \cup {k \in Created : row[k].user = {u}}
    /\ mailed' = StillActive
    /\ UNCHANGED <<email, verified, call, stale>>

-------------------------------------------------------------------------------
\* verify and verifyPrimary find the row by the token's hash, in the link that was mailed.
Found(k, n) == row[k].state = "active" /\ row[k].token = n /\ k \in mailed

VerifyRead(r, k, n) ==
    /\ call[r] = NoCall
    /\ Found(k, n)
    /\ Primary(k) => row[k].user \cap verified = {} /\ \E u \in Users : row[k].user = {u} /\ email[u] = row[k].new
    /\ Step(r, IF Primary(k) THEN [NoCall EXCEPT !.pc = "primary", !.key = <<k, n>>]
               ELSE [NoCall EXCEPT !.pc = "change", !.key = <<k, n>>,
                                   !.old = row[k].old, !.new = row[k].new])
    /\ UNCHANGED <<email, verified, row, mailed, stale, reset>>

\* Consumable without the hash of the token, and by the request's id alone.
ConsumableRow(k, n) == row[k].state = "active"
ConsumableById(k, n) == row[k].state # "none"
Consumable(k, n) == row[k].state = "active" /\ row[k].token = n

\* The request is consumed, and the address that was read is the user's if nobody has it.
VerifyStore(r) ==
    \E u \in Users, k \in Rows, n \in Tokens :
        /\ call[r].pc = "change" /\ call[r].key = <<k, n>>
        /\ Consumable(k, n) /\ row[k].user = {u}
        /\ \A v \in Users \ {u} : email[v] # call[r].new
        /\ row' = [row EXCEPT ![k] = Over(k)]
        /\ mailed' = StillActive
        /\ email' = [email EXCEPT ![u] = call[r].new]
        /\ verified' = verified \cup {u}
        /\ Step(r, NoCall)
        /\ UNCHANGED <<stale, reset>>

PrimaryStore(r) ==
    \E u \in Users, k \in Rows, n \in Tokens :
        /\ call[r].pc = "primary" /\ call[r].key = <<k, n>>
        /\ Consumable(k, n) /\ row[k].user = {u}
        /\ u \notin verified
        /\ row' = [row EXCEPT ![k] = Over(k)]
        /\ mailed' = StillActive
        /\ verified' = verified \cup {u}
        /\ Step(r, NoCall)
        /\ UNCHANGED <<email, stale, reset>>

\* A request is refused, fails or is cut off; one that has committed then mails
\* nothing.
Fail(r) ==
    /\ call[r] # NoCall
    /\ Step(r, NoCall)
    /\ UNCHANGED <<email, verified, row, mailed, stale, reset>>

EmailNext ==
    \/ \E r \in Requests :
          \/ \E u \in Users : PrimaryRead(r, u) \/ \E new \in Addresses : RequestRead(r, u, new)
          \/ \E k \in Rows : Resend(r, k) \/ \E n \in Tokens : VerifyRead(r, k, n)
          \/ Create(r) \/ Mail(r) \/ VerifyStore(r) \/ PrimaryStore(r) \/ Fail(r)
    \/ \E k \in Rows : Cancel(k)
    \/ \E u \in Users : PasswordReset(u)

-------------------------------------------------------------------------------
\* The request a step consumes when it changes the address of u.
Consumed(u) ==
    {k \in ActiveRows(u) : \E r \in Requests : /\ call[r].pc = "change" /\ call[r].key[1] = k
                                              /\ call'[r] = NoCall}

\* The notice of a completed change goes to the address that the verification read
\* from the request: that is the one the user has until then, however links are opened
\* late, unless the request had read it before an earlier change was completed.
OldAddressTold ==
    [][\A u \in Users : email'[u] # email[u] =>
         \E r \in Requests : /\ call[r].pc = "change" /\ call'[r] = NoCall
                             /\ call[r].old = email[u] \/ call[r].key[1] \in stale]_emailVars

\* However requests, resent tokens and verifications overlap, only the newest
\* token of the user's newest request changes the address.
NewestTokenOnly ==
    [][\A u \in Users : email'[u] # email[u] =>
         /\ Consumed(u) = Newest(u)
         /\ \E r \in Requests, k \in Newest(u) :
               call[r].key = <<k, row[k].token>> /\ call'[r] = NoCall]_emailVars

\* A request stored before a password reset never changes the address.
ResetCancels ==
    [][\A u \in Users : email'[u] # email[u] => Consumed(u) \cap reset = {}]_emailVars

EmailSpec == EmailInit /\ [][EmailNext]_emailVars
==============================================================================
