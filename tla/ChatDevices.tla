------------------------------ MODULE ChatDevices ------------------------------
(***************************************************************************)
(* One member's chat devices and encryption keys in                        *)
(* apps/api/src/chat/chat.service.ts: registerMyDeviceKey and revokeDevice *)
(* are transactions.  Those of the member himself exclude one another by   *)
(* an advisory lock on his id; an administrator's revocation locks the     *)
(* device's id instead, so it runs beside them and beside another one.     *)
(* What a transaction has written is seen by the others when it commits;   *)
(* the row it has updated stays locked until then.                         *)
(***************************************************************************)
EXTENDS Naturals, FiniteSets, TLC

CONSTANTS
    Devices,  \* device identifiers
    Legacy,   \* those of the first version: one may be taken over by a restore
    Keys,     \* key pairs a client can present
    Limits,   \* the values an administrator sets for maxActiveChatDevices
    Jobs      \* transactions at a time

ASSUME DevicesAssumption ==
    Legacy \subseteq Devices /\ Limits \subseteq Nat \ {0} /\ Limits # {}

VARIABLES
    device,   \* [status, key] of each device row, status "none" without a row
    key,      \* [status, version] of each key row
    limit,    \* maxActiveChatDevices
    job,      \* the transactions
    peak,     \* the highest limit so far
    overlapped, \* an administrator's revocation ran beside another transaction
    readmitted  \* a revoked device came back when the limit was reached

vars == <<device, key, limit, job, peak, overlapped, readmitted>>

NoJob == [op |-> "none", pc |-> "none", device |-> {}, row |-> {}, key |-> {},
          admin |-> FALSE, last |-> FALSE]
NoDevice == [status |-> "none", key |-> {}]
ActiveDevices == {d \in Devices : device[d].status = "ACTIVE"}
DevicesOf(k) == {d \in ActiveDevices : device[d].key = {k}}
Known == {k \in Keys : key[k].status # "none"}
ActiveKeys == {k \in Keys : key[k].status = "ACTIVE"}
Latest == IF Known = {} THEN 0
          ELSE CHOOSE n \in 1..Cardinality(Keys) :
                 /\ \E k \in Known : key[k].version = n
                 /\ \A k \in Known : key[k].version <= n

\* A device row has a registered key; versions are distinct and positive.
TypeOK ==
    /\ \A d \in Devices :
          /\ device[d].status \in {"none", "ACTIVE", "REVOKED"}
          /\ \/ device[d] = NoDevice
             \/ device[d].status # "none" /\ \E k \in Known : device[d].key = {k}
    /\ \A k \in Keys :
          /\ key[k].status \in {"none", "ACTIVE", "RETIRED", "REVOKED"}
          /\ key[k].version \in 0..Cardinality(Keys)
          /\ (key[k].version = 0) = (key[k].status = "none")
    /\ \A k, l \in Known : key[k].version = key[l].version => k = l
    /\ limit \in Limits /\ peak \in Limits /\ limit <= peak
    /\ \A j \in Jobs : job[j].op \in {"none", "initial", "restore", "rotate", "revoke"}
    /\ overlapped \in BOOLEAN /\ readmitted \in BOOLEAN

\* A member without devices, or one of the first version with a device that
\* was given a generated identifier.
Init ==
    /\ \/ /\ device = [d \in Devices |-> NoDevice]
          /\ key = [k \in Keys |-> [status |-> "none", version |-> 0]]
       \/ \E d \in Legacy, k \in Keys :
             /\ device = [e \in Devices |-> IF e = d
                            THEN [status |-> "ACTIVE", key |-> {k}] ELSE NoDevice]
             /\ key = [l \in Keys |-> IF l = k
                         THEN [status |-> "ACTIVE", version |-> 1]
                         ELSE [status |-> "none", version |-> 0]]
    /\ limit \in Limits /\ peak = limit
    /\ job = [j \in Jobs |-> NoJob]
    /\ overlapped = FALSE /\ readmitted = FALSE

-------------------------------------------------------------------------------
Running == {j \in Jobs : job[j] # NoJob}

\* EnrollmentFree without the lock.
EnrollmentUnlocked == TRUE

\* lockChatDeviceEnrollment: the member's own transactions hold his id, an
\* administrator's the id of the device.
EnrollmentFree == \A j \in Running : job[j].admin
RevocationFree(d) == \A j \in Running : ~(job[j].admin /\ job[j].device = {d})

\* A transaction that has updated a row holds it until it commits.
RowFree(d, j) ==
    \A t \in Running \ {j} : ~(job[t].pc = "commit" /\ job[t].device = {d})

Begin(j, new) ==
    /\ job[j] = NoJob
    /\ job' = [job EXCEPT ![j] = new]
    /\ overlapped' = (overlapped \/ (Running # {} /\ (new.admin \/ \E t \in Running : job[t].admin)))

\* restore finds an active device of the first version with this key when the
\* identifier is unknown: the row is taken over.
RowOf(mode, d, k) ==
    IF device[d].status # "none" THEN {d}
    ELSE IF mode = "restore" /\ DevicesOf(k) \cap Legacy # {}
    THEN {CHOOSE l \in DevicesOf(k) \cap Legacy : TRUE}
    ELSE {}

\* The limit is passed by one: a device is counted after it is created.
WithinLimitLate(row) == row # {} \/ Cardinality(ActiveDevices) <= limit

\* The limit is asked for a row that is to be created.
WithinLimit(row) == row # {} \/ Cardinality(ActiveDevices) < limit

\* An initial registration with the key an active device has changes nothing.
InitialAllowed(d, k) ==
    /\ device[d].status # "ACTIVE"
    /\ IF k \in Known THEN key[k].status = "ACTIVE" ELSE Known = {}
RestoreAllowed(k) == k \in ActiveKeys
RotateAllowed(k) == k \notin Known

\* registerMyDeviceKey: everything the transaction reads.
RegisterRead(j, mode, d, k) ==
    LET row == RowOf(mode, d, k) IN
    /\ EnrollmentFree
    /\ WithinLimit(row)
    /\ \/ mode = "initial" /\ InitialAllowed(d, k)
       \/ mode = "restore" /\ RestoreAllowed(k)
       \/ mode = "rotate" /\ RotateAllowed(k)
    /\ Begin(j, [op |-> mode, pc |-> "store", device |-> {d}, row |-> row,
                 key |-> {k}, admin |-> FALSE, last |-> FALSE])
    /\ UNCHANGED <<device, key, limit, peak, readmitted>>

\* StoredKeys without the updateMany that retires the earlier key.
StoredKeysOnly(j) ==
    [k \in Keys |->
       IF {k} = job[j].key /\ key[k].status = "none"
       THEN [status |-> "ACTIVE", version |-> Latest + 1] ELSE key[k]]

\* A rotation creates the next version and retires what is active then.
StoredKeys(j) ==
    [k \in Keys |->
       IF {k} = job[j].key /\ key[k].status = "none"
       THEN [status |-> "ACTIVE", version |-> Latest + 1]
       ELSE IF job[j].op = "rotate" /\ k \in ActiveKeys
       THEN [key[k] EXCEPT !.status = "RETIRED"] ELSE key[k]]

\* The row is updated by its id, whatever happened to it since it was read; a
\* revocation that has read a row taken over goes on with it.
RegisterStore(j) ==
    /\ job[j].pc = "store"
    /\ \A d \in job[j].row : RowFree(d, j)
    /\ key' = StoredKeys(j)
    /\ device' = [d \in Devices |->
                    IF {d} = job[j].device
                    THEN [status |-> "ACTIVE", key |-> job[j].key]
                    ELSE IF {d} = job[j].row THEN NoDevice ELSE device[d]]
    /\ job' = [t \in Jobs |->
                 IF t = j THEN NoJob
                 ELSE IF job[t].row = job[j].row /\ job[t].row # {}
                 THEN [job[t] EXCEPT !.device = job[j].device, !.row = job[j].device]
                 ELSE job[t]]
    /\ readmitted' = (readmitted \/ (/\ \E d \in job[j].row : device[d].status = "REVOKED"
                                     /\ Cardinality(ActiveDevices) >= limit))
    /\ UNCHANGED <<limit, peak, overlapped>>

\* revokeDevice by the member or by an administrator.
RevokeRead(j, d, admin) ==
    /\ IF admin THEN RevocationFree(d) ELSE EnrollmentFree
    /\ device[d].status = "ACTIVE"
    /\ Begin(j, [op |-> "revoke", pc |-> "update", device |-> {d}, row |-> {d},
                 key |-> device[d].key, admin |-> admin, last |-> FALSE])
    /\ UNCHANGED <<device, key, limit, peak, readmitted>>

\* The update takes the row's lock; the count that follows sees this device
\* revoked and every other one as it was last committed.
RevokeUpdate(j) ==
    /\ job[j].pc = "update"
    /\ \A d \in job[j].row : RowFree(d, j)
    /\ job' = [job EXCEPT ![j].pc = "commit",
                 ![j].last = \A k \in Keys : {k} = job[j].key
                                => DevicesOf(k) \subseteq job[j].row]
    /\ UNCHANGED <<device, key, limit, peak, overlapped, readmitted>>

RevokeCommit(j) ==
    /\ job[j].pc = "commit"
    /\ device' = [d \in Devices |-> IF {d} = job[j].row
                    THEN [device[d] EXCEPT !.status = "REVOKED"] ELSE device[d]]
    /\ key' = [k \in Keys |-> IF {k} = job[j].key /\ job[j].last
                 THEN [key[k] EXCEPT !.status = "REVOKED"] ELSE key[k]]
    /\ job' = [job EXCEPT ![j] = NoJob]
    /\ UNCHANGED <<limit, peak, overlapped, readmitted>>

\* updateChatGovernanceSettings: no device is revoked when the limit goes down.
SetLimit(n) ==
    /\ limit' = n
    /\ peak' = IF n > peak THEN n ELSE peak
    /\ UNCHANGED <<device, key, job, overlapped, readmitted>>

\* A statement fails, or the connection is lost: nothing was written.
Abort(j) ==
    /\ j \in Running
    /\ job' = [job EXCEPT ![j] = NoJob]
    /\ UNCHANGED <<device, key, limit, peak, overlapped, readmitted>>

Next ==
    \/ \E j \in Jobs :
          \/ \E mode \in {"initial", "restore", "rotate"}, d \in Devices, k \in Keys :
                RegisterRead(j, mode, d, k)
          \/ \E d \in Devices, admin \in BOOLEAN : RevokeRead(j, d, admin)
          \/ RegisterStore(j) \/ RevokeUpdate(j) \/ RevokeCommit(j) \/ Abort(j)
    \/ \E n \in Limits : SetLimit(n)

Spec == Init /\ [][Next]_vars

\* Key pairs are interchangeable, and so are transactions.
Symmetry == Permutations(Keys) \cup Permutations(Jobs)

-------------------------------------------------------------------------------
\* A member has one key others may encrypt for: registrations, rotations and
\* revocations in any order never leave two.
OneActiveKey == \A k, l \in ActiveKeys : k = l

\* A key that is active is held by an active device, and no active device
\* holds a revoked one, as long as no administrator's revocation ran beside
\* another transaction of the same member.
KeysMatchDevices ==
    ~overlapped => /\ \A k \in ActiveKeys : DevicesOf(k) # {}
                   /\ \A d \in ActiveDevices, k \in Keys :
                         device[d].key = {k} => key[k].status # "REVOKED"

\* There are never more active devices than the highest limit so far, but for
\* a revoked device that registered again.
DeviceLimitHolds == ~readmitted => Cardinality(ActiveDevices) <= peak
===============================================================================
