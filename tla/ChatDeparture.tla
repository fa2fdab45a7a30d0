---------------------------- MODULE ChatDeparture ----------------------------
(***************************************************************************)
(* What the documentation says of members who leave a group or are removed *)
(* from it (apps/site/lib/docs/feature-content.ts): that this ends their   *)
(* access.  ChatConversation does not tell a deletion for oneself from a   *)
(* departure, so the members who departed are noted here.                  *)
(***************************************************************************)
EXTENDS ChatConversation

VARIABLE departed   \* removed from the group, or left it

\* The rows this step deletes, if it is the write of a removal or a departure.
Departing ==
    {u \in gone' \ gone :
        \E r \in Requests : req[r].op \in {"remove", "leave"} /\ req'[r] = Idle}

DepartureInit == Init /\ departed = {}
DepartureNext == Next /\ departed' = departed \cup Departing
DepartureSpec == DepartureInit /\ [][DepartureNext]_<<vars, departed>>

-------------------------------------------------------------------------------
\* Leaving a group, or removal from it, ends access to it: who departed has no active row
\* again.  An invitation would not change that, it is refused for those with a deleted row.
\* The next message another member sends does: it clears deletedAt of all other rows.
RemovalEndsAccess == departed \cap Active = {}
===============================================================================
