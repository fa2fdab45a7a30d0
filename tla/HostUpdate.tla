----------------------------- MODULE HostUpdate -----------------------------
(***************************************************************************)
(* What the updater promises of the installations on one host, whatever    *)
(* crashes in between: at most one owns the host, none touches the         *)
(* database or the containers before it has recorded that it will, an      *)
(* outcome is recorded once, matches what was done and is never revised,   *)
(* and an installation that has ended, or was turned away, never returns,  *)
(* also when its record was pruned. The one way out of these promises is a *)
(* cancellation that loses an installation's record: of that one nothing   *)
(* is known from then on.                                                  *)
(***************************************************************************)
EXTENDS Integers

CONSTANTS
  Runs,    \* the installations
  NoRun    \* none of them

VARIABLES
  owner,    \* the installation in charge of the host, or NoRun
  stage,    \* how far each installation has got
  changed   \* the installations that have changed the host

vars == <<owner, stage, changed>>

\* "none": no record yet; "gone": none any more, and never again; "unknown": lost.
Ends == {"untouched", "installed", "failed"}
Stages == {"none", "preparing", "changing", "gone", "unknown"} \cup Ends

Init == owner = NoRun /\ stage = [r \in Runs |-> "none"] /\ changed = {}

Take(r) ==
  /\ owner = NoRun /\ stage[r] = "none" /\ owner' = r
  /\ UNCHANGED <<stage, changed>>

Prepare(r) ==
  /\ owner = r /\ stage[r] = "none" /\ stage' = [stage EXCEPT ![r] = "preparing"]
  /\ UNCHANGED <<owner, changed>>

Commit(r) ==
  /\ owner = r /\ stage[r] = "preparing" /\ stage' = [stage EXCEPT ![r] = "changing"]
  /\ UNCHANGED <<owner, changed>>

\* Requests that were turned away or lost, and outcomes whose records are pruned.
Vanish == \E gone \in SUBSET {r \in Runs : stage[r] \in {"none"} \cup Ends} :
  stage' = [r \in Runs |-> IF r \in gone THEN "gone" ELSE stage[r]]

Forget == UNCHANGED <<owner, changed>> /\ Vanish

\* A process that dies in the middle of a change takes the waiting requests with it.
Change(r) ==
  /\ owner = r /\ stage[r] = "changing" /\ changed' = changed \cup {r}
  /\ Vanish /\ UNCHANGED owner

\* An outcome the record may state of an installation that did, or did not, change the host.
Truthful(r, end) ==
  /\ end = "untouched" => r \notin changed
  /\ end = "installed" => r \in changed

End(r, end) ==
  /\ owner = r /\ stage[r] \in {"preparing", "changing"} /\ Truthful(r, end)
  /\ stage' = [stage EXCEPT ![r] = end] /\ owner' \in {r, NoRun}
  /\ UNCHANGED changed

\* The host is given up: after the end, or because a crash leaves nobody in charge.
GiveUp(r) == owner = r /\ owner' = NoRun /\ Vanish /\ UNCHANGED changed

\* A cancellation puts an old record over the one of an installation that has moved on, or
\* an outcome over the one it has just recorded: what the record says is no longer known,
\* nor what the installation does to the host.
Lose(r) ==
  /\ stage[r] \notin {"none", "unknown"} /\ stage' = [stage EXCEPT ![r] = "unknown"]
  /\ changed' = changed \ {r} /\ UNCHANGED owner

Next ==
  \/ Forget
  \/ \E r \in Runs :
       \/ Lose(r) \/ Take(r) \/ Prepare(r) \/ Commit(r) \/ Change(r) \/ GiveUp(r)
       \/ \E end \in Ends : End(r, end)

Spec == Init /\ [][Next]_vars
=============================================================================
