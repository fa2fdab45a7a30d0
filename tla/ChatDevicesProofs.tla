--------------------------- MODULE ChatDevicesProofs ---------------------------
(***************************************************************************)
(* A member has at most one active key, active devices that match it, and  *)
(* no more of them than the limit: proofs for any number of devices, keys, *)
(* transactions and limits.                                                *)
(***************************************************************************)
EXTENDS ChatDevices, FiniteSetTheorems, TLAPS

JobRecord ==
    [op : {"none", "initial", "restore", "rotate", "revoke"},
     pc : {"none", "store", "update", "commit"},
     device : SUBSET Devices, row : SUBSET Devices, key : SUBSET Keys,
     admin : BOOLEAN, last : BOOLEAN]

\* What OneActiveKey depends on; of a version only that it is there.
Typed ==
    /\ device \in [Devices -> [status : {"none", "ACTIVE", "REVOKED"}, key : SUBSET Keys]]
    /\ key = [k \in Keys |-> [status |-> key[k].status, version |-> key[k].version]]
    /\ job \in [Jobs -> JobRecord]

\* Registrations are the member's own, and where each kind of transaction is.
Kinds ==
    \A j \in Jobs :
        /\ job[j].pc = "none" => job[j].op = "none"
        /\ job[j].pc = "store" => /\ job[j].op \in {"initial", "restore", "rotate"}
                                  /\ ~job[j].admin
                                  /\ \E k \in Keys : job[j].key = {k}
        /\ job[j].pc \in {"update", "commit"} => job[j].op = "revoke"

\* The member's own transactions exclude one another.
Own(j) == job[j].pc # "none" /\ ~job[j].admin
Alone == \A i, j \in Jobs : Own(i) /\ Own(j) => i = j

\* Devices, and the transactions that found a key, name keys that have a row.
KnownKeys ==
    /\ \A d \in Devices : device[d].key \subseteq Known
    /\ \A j \in Jobs : job[j].op \in {"restore", "revoke"} => job[j].key \subseteq Known

\* An initial registration of a new key is that of a member without keys.
FirstKey ==
    \A j \in Jobs : job[j].op = "initial" /\ ~(job[j].key \subseteq Known) => Known = {}

KeyInv == Typed /\ Kinds /\ Alone /\ KnownKeys /\ FirstKey /\ OneActiveKey

-------------------------------------------------------------------------------
LEMMA NoJobIsRecord == NoJob \in JobRecord /\ NoJob.pc = "none" /\ NoJob.op = "none"
BY DEF NoJob, JobRecord

LEMMA InitKeyInv == Init => KeyInv
<1> SUFFICES ASSUME Init PROVE KeyInv
  OBVIOUS
<1>1. \A j \in Jobs : job[j] = NoJob
  BY DEF Init
<1>2. job \in [Jobs -> JobRecord] /\ Kinds /\ Alone
  BY <1>1, NoJobIsRecord DEF Init, Kinds, Alone, Own
<1>3. CASE /\ device = [d \in Devices |-> NoDevice]
           /\ key = [k \in Keys |-> [status |-> "none", version |-> 0]]
  <2>1. Known = {} /\ ActiveKeys = {}
    BY <1>3 DEF Known, ActiveKeys
  <2>2. QED
    BY <1>1, <1>2, <1>3, <2>1, NoJobIsRecord
    DEF KeyInv, Typed, KnownKeys, FirstKey, OneActiveKey, NoDevice
<1>4. CASE \E d \in Legacy, k \in Keys :
             /\ device = [e \in Devices |-> IF e = d
                            THEN [status |-> "ACTIVE", key |-> {k}] ELSE NoDevice]
             /\ key = [l \in Keys |-> IF l = k
                         THEN [status |-> "ACTIVE", version |-> 1]
                         ELSE [status |-> "none", version |-> 0]]
  <2>1. PICK d \in Legacy, k \in Keys :
             /\ device = [e \in Devices |-> IF e = d
                            THEN [status |-> "ACTIVE", key |-> {k}] ELSE NoDevice]
             /\ key = [l \in Keys |-> IF l = k
                         THEN [status |-> "ACTIVE", version |-> 1]
                         ELSE [status |-> "none", version |-> 0]]
    BY <1>4
  <2>2. Known = {k} /\ ActiveKeys = {k}
    BY <2>1 DEF Known, ActiveKeys
  <2>3. Typed
    BY <1>2, <2>1 DEF Typed, NoDevice
  <2>4. KnownKeys /\ FirstKey /\ OneActiveKey
    BY <1>1, <2>1, <2>2, NoJobIsRecord DEF KnownKeys, FirstKey, OneActiveKey, NoDevice
  <2>5. QED
    BY <1>2, <2>3, <2>4 DEF KeyInv
<1>5. QED
  BY <1>3, <1>4 DEF Init

\* Steps that change no device and no key: the transaction that moves keeps to
\* its kind, and one that begins as the member's own finds no other.
LEMMA JobStep ==
    ASSUME KeyInv, UNCHANGED <<device, key>>, NEW j \in Jobs, NEW t \in JobRecord,
           job' = [job EXCEPT ![j] = t],
           t.pc = "none" => t.op = "none",
           t.pc = "store" => t.op \in {"initial", "restore", "rotate"} /\ ~t.admin,
           t.pc = "store" => \E k \in Keys : t.key = {k},
           t.pc \in {"update", "commit"} => t.op = "revoke",
           t.pc # "none" /\ ~t.admin => Own(j) \/ \A i \in Jobs : ~Own(i),
           t.op \in {"restore", "revoke"} => t.key \subseteq Known,
           t.op = "initial" /\ ~(t.key \subseteq Known) => Known = {}
    PROVE  KeyInv'
<1>1. Known' = Known /\ ActiveKeys' = ActiveKeys
  BY DEF Known, ActiveKeys
<1>2. job \in [Jobs -> JobRecord]
  BY DEF KeyInv, Typed
<1>3. Typed'
  BY <1>2 DEF KeyInv, Typed
<1>4. Kinds'
  BY <1>2 DEF KeyInv, Kinds
<1>5. Alone'
  BY <1>2 DEF KeyInv, Alone, Own
<1>6. KnownKeys'
  BY <1>1, <1>2 DEF KeyInv, KnownKeys
<1>7. FirstKey'
  BY <1>1, <1>2 DEF KeyInv, FirstKey
<1>8. QED
  BY <1>1, <1>3, <1>4, <1>5, <1>6, <1>7 DEF KeyInv, OneActiveKey

\* No transaction and one that moved are told apart by where they are.
LEMMA RunningOrNot ==
    ASSUME KeyInv, NEW j \in Jobs
    PROVE  /\ job[j] \in JobRecord
           /\ job[j] = NoJob => job[j].pc = "none"
           /\ Own(j) => j \in Running /\ ~job[j].admin
BY NoJobIsRecord DEF KeyInv, Typed, Own, Running

LEMMA RowIsADevice ==
    ASSUME NEW mode, NEW d \in Devices, NEW k \in Keys
    PROVE  RowOf(mode, d, k) \subseteq Devices
<1>1. ASSUME DevicesOf(k) \cap Legacy # {}
      PROVE  (CHOOSE l \in DevicesOf(k) \cap Legacy : TRUE) \in Devices
  <2>1. \E l : l \in DevicesOf(k) \cap Legacy
    BY <1>1
  <2>2. (CHOOSE l \in DevicesOf(k) \cap Legacy : TRUE) \in DevicesOf(k) \cap Legacy
    BY <2>1
  <2>3. QED
    BY <2>2 DEF DevicesOf, ActiveDevices
<1>2. QED
  BY <1>1 DEF RowOf

LEMMA RegisterReadStep ==
    ASSUME KeyInv, NEW j \in Jobs, NEW mode \in {"initial", "restore", "rotate"},
           NEW d \in Devices, NEW k \in Keys, RegisterRead(j, mode, d, k)
    PROVE  KeyInv'
<1> DEFINE t == [op |-> mode, pc |-> "store", device |-> {d}, row |-> RowOf(mode, d, k),
                 key |-> {k}, admin |-> FALSE, last |-> FALSE]
<1>1. RowOf(mode, d, k) \subseteq Devices
  BY RowIsADevice
<1>2. t \in JobRecord
  BY <1>1 DEF JobRecord
<1>3. UNCHANGED <<device, key>> /\ job' = [job EXCEPT ![j] = t]
  BY DEF RegisterRead, Begin
<1>4. \A i \in Jobs : ~Own(i)
  BY RunningOrNot DEF RegisterRead, EnrollmentFree
<1>5. t.op \in {"restore", "revoke"} => t.key \subseteq Known
  BY DEF RegisterRead, RestoreAllowed, ActiveKeys, Known
<1>6. t.op = "initial" /\ ~(t.key \subseteq Known) => Known = {}
  BY DEF RegisterRead, InitialAllowed
<1>7. /\ t.pc = "store" /\ t.op = mode /\ t.admin = FALSE
      /\ \E l \in Keys : t.key = {l}
  OBVIOUS
<1>8. QED
  <2> HIDE DEF t
  <2> QED
    BY <1>2, <1>3, <1>4, <1>5, <1>6, <1>7, JobStep

LEMMA RevokeReadStep ==
    ASSUME KeyInv, NEW j \in Jobs, NEW d \in Devices, NEW admin \in BOOLEAN,
           RevokeRead(j, d, admin)
    PROVE  KeyInv'
<1> DEFINE t == [op |-> "revoke", pc |-> "update", device |-> {d}, row |-> {d},
                 key |-> device[d].key, admin |-> admin, last |-> FALSE]
<1>1. device[d].key \in SUBSET Keys
  BY DEF KeyInv, Typed
<1>2. t \in JobRecord
  BY <1>1 DEF JobRecord
<1>3. UNCHANGED <<device, key>> /\ job' = [job EXCEPT ![j] = t]
  BY DEF RevokeRead, Begin
<1>4. ~admin => \A i \in Jobs : ~Own(i)
  BY RunningOrNot DEF RevokeRead, EnrollmentFree
<1>5. t.key \subseteq Known
  BY DEF RevokeRead, KeyInv, KnownKeys
<1>6. t.pc = "update" /\ t.op = "revoke" /\ t.admin = admin
  OBVIOUS
<1>7. QED
  <2> HIDE DEF t
  <2> QED
    BY <1>2, <1>3, <1>4, <1>5, <1>6, JobStep

LEMMA RevokeUpdateStep ==
    ASSUME KeyInv, NEW j \in Jobs, RevokeUpdate(j)
    PROVE  KeyInv'
<1> DEFINE b == \A k \in Keys : {k} = job[j].key => DevicesOf(k) \subseteq job[j].row
           t == [[job[j] EXCEPT !.pc = "commit"] EXCEPT !.last = b]
<1>1. job \in [Jobs -> JobRecord] /\ job[j] \in JobRecord
  BY DEF KeyInv, Typed
<1>2. job[j].pc = "update" /\ UNCHANGED <<device, key>>
  BY DEF RevokeUpdate
<1>3. b \in BOOLEAN
  OBVIOUS
<1>4. job' = [job EXCEPT ![j].pc = "commit", ![j].last = b]
  BY DEF RevokeUpdate
<1> HIDE DEF b
<1>5. /\ t \in JobRecord /\ t.pc = "commit" /\ t.op = job[j].op
      /\ t.key = job[j].key /\ t.admin = job[j].admin
  BY <1>1, <1>3 DEF JobRecord
<1>6. job' = [job EXCEPT ![j] = t]
  BY <1>1, <1>3, <1>4
<1>7. job[j].op = "revoke" /\ job[j].key \subseteq Known
  BY <1>2 DEF KeyInv, Kinds, KnownKeys
<1>8. ~t.admin => Own(j)
  BY <1>2, <1>5 DEF Own
<1>9. QED
  <2> HIDE DEF t
  <2> QED
    BY <1>2, <1>5, <1>6, <1>7, <1>8, JobStep

LEMMA AbortStep ==
    ASSUME KeyInv, NEW j \in Jobs, Abort(j)
    PROVE  KeyInv'
<1>1. UNCHANGED <<device, key>> /\ job' = [job EXCEPT ![j] = NoJob]
  BY DEF Abort
<1>2. QED
  BY <1>1, NoJobIsRecord, JobStep

LEMMA QuietStep ==
    ASSUME KeyInv, UNCHANGED <<device, key, job>>
    PROVE  KeyInv'
<1>1. Known' = Known /\ ActiveKeys' = ActiveKeys
  BY DEF Known, ActiveKeys
<1>2. QED
  BY <1>1 DEF KeyInv, Typed, Kinds, Alone, Own, KnownKeys, FirstKey, OneActiveKey

-------------------------------------------------------------------------------
\* A key row that changes its status keeps its version.
LEMMA NewStatus ==
    ASSUME NEW r, r = [status |-> r.status, version |-> r.version], NEW s
    PROVE  [r EXCEPT !.status = s] = [status |-> s, version |-> r.version]
OBVIOUS

\* The keys after a registration.
LEMMA RegisteredKeys ==
    ASSUME KeyInv, NEW j \in Jobs, NEW a \in Keys, job[j].key = {a},
           key' = StoredKeys(j)
    PROVE  /\ key' = [k \in Keys |-> [status |-> key'[k].status, version |-> key'[k].version]]
           /\ Known' = Known \cup {a}
           /\ job[j].op = "rotate" => ActiveKeys' \subseteq {a}
           /\ a \in Known => ActiveKeys' \subseteq ActiveKeys
           /\ ActiveKeys' \subseteq ActiveKeys \cup {a}
           /\ \A k \in Keys : key'[k].status = "REVOKED" => key[k].status = "REVOKED"
<1>1. \A k \in Keys : key[k] = [status |-> key[k].status, version |-> key[k].version]
  BY DEF KeyInv, Typed
<1>2. \A k \in Keys :
        key'[k] = IF k = a /\ key[k].status = "none"
                  THEN [status |-> "ACTIVE", version |-> Latest + 1]
                  ELSE IF job[j].op = "rotate" /\ k \in ActiveKeys
                  THEN [status |-> "RETIRED", version |-> key[k].version] ELSE key[k]
  <2> SUFFICES ASSUME NEW k \in Keys
               PROVE  key'[k] = IF k = a /\ key[k].status = "none"
                  THEN [status |-> "ACTIVE", version |-> Latest + 1]
                  ELSE IF job[j].op = "rotate" /\ k \in ActiveKeys
                  THEN [status |-> "RETIRED", version |-> key[k].version] ELSE key[k]
    OBVIOUS
  <2>1. ({k} = job[j].key) = (k = a)
    OBVIOUS
  <2>2. [key[k] EXCEPT !.status = "RETIRED"] = [status |-> "RETIRED", version |-> key[k].version]
    BY <1>1, NewStatus
  <2>3. QED
    BY <2>1, <2>2 DEF StoredKeys
<1>3. /\ key' = [k \in Keys |-> key'[k]]
      /\ \A k \in Keys :
           key'[k].status = IF k = a /\ key[k].status = "none" THEN "ACTIVE"
                            ELSE IF job[j].op = "rotate" /\ k \in ActiveKeys
                            THEN "RETIRED" ELSE key[k].status
  <2>1. key' = [k \in Keys |-> key'[k]]
    BY <1>2 DEF StoredKeys
  <2>2. ASSUME NEW k \in Keys, k = a /\ key[k].status = "none"
        PROVE  key'[k].status = "ACTIVE"
    <3>1. key'[k] = [status |-> "ACTIVE", version |-> Latest + 1]
      BY <1>2, <2>2
    <3>2. QED
      BY <3>1
  <2>3. ASSUME NEW k \in Keys, ~(k = a /\ key[k].status = "none"),
               job[j].op = "rotate" /\ k \in ActiveKeys
        PROVE  key'[k].status = "RETIRED"
    <3>1. key'[k] = [status |-> "RETIRED", version |-> key[k].version]
      BY <1>2, <2>3
    <3>2. QED
      BY <3>1
  <2>4. ASSUME NEW k \in Keys, ~(k = a /\ key[k].status = "none"),
               ~(job[j].op = "rotate" /\ k \in ActiveKeys)
        PROVE  key'[k].status = key[k].status
    BY <1>2, <2>4
  <2>5. QED
    BY <2>1, <2>2, <2>3, <2>4
<1>4. \A k \in Keys : key'[k] = [status |-> key'[k].status, version |-> key'[k].version]
  BY <1>1, <1>2
<1>5. key' = [k \in Keys |-> [status |-> key'[k].status, version |-> key'[k].version]]
  BY <1>3, <1>4
<1>6. \A k \in Keys : k \in Known' <=> k \in Known \/ k = a
  BY <1>3 DEF Known, ActiveKeys
<1>7. \A k \in ActiveKeys' :
         \/ k = a /\ a \notin Known
         \/ job[j].op # "rotate" /\ k \in ActiveKeys
  BY <1>3 DEF ActiveKeys, Known
<1>8. QED
  <2>1. Known' = Known \cup {a}
    BY <1>6 DEF Known
  <2>2. \A k \in Keys : key'[k].status = "REVOKED" => key[k].status = "REVOKED"
    BY <1>3
  <2>3. QED
    BY <1>5, <1>7, <2>1, <2>2

LEMMA RegisterStoreStep ==
    ASSUME KeyInv, NEW j \in Jobs, RegisterStore(j)
    PROVE  KeyInv'
<1>1. /\ job \in [Jobs -> JobRecord]
      /\ device \in [Devices -> [status : {"none", "ACTIVE", "REVOKED"}, key : SUBSET Keys]]
  BY DEF KeyInv, Typed
<1>2. PICK a \in Keys : job[j].key = {a}
  BY DEF RegisterStore, KeyInv, Kinds
<1>3. job[j].op \in {"initial", "restore", "rotate"} /\ Own(j)
  BY DEF RegisterStore, KeyInv, Kinds, Own
<1>4. key' = StoredKeys(j)
  BY DEF RegisterStore
<1>5. /\ key' = [k \in Keys |-> [status |-> key'[k].status, version |-> key'[k].version]]
      /\ Known' = Known \cup {a}
      /\ job[j].op = "rotate" => ActiveKeys' \subseteq {a}
      /\ a \in Known => ActiveKeys' \subseteq ActiveKeys
      /\ ActiveKeys' \subseteq ActiveKeys \cup {a}
  BY <1>2, <1>4, RegisteredKeys
<1>6. job' \in [Jobs -> JobRecord]
  <2>1. \A t \in Jobs : [job[t] EXCEPT !.device = job[j].device, !.row = job[j].device]
                            \in JobRecord
    BY <1>1 DEF JobRecord
  <2>2. QED
    BY <1>1, <2>1, NoJobIsRecord DEF RegisterStore
<1>7. /\ job'[j] = NoJob
      /\ \A t \in Jobs \ {j} : /\ job'[t].op = job[t].op /\ job'[t].pc = job[t].pc
                               /\ job'[t].key = job[t].key /\ job'[t].admin = job[t].admin
  <2>1. \A t \in Jobs :
          LET r == [job[t] EXCEPT !.device = job[j].device, !.row = job[j].device]
          IN  /\ r.op = job[t].op /\ r.pc = job[t].pc
              /\ r.key = job[t].key /\ r.admin = job[t].admin
    BY <1>1 DEF JobRecord
  <2>2. QED
    BY <2>1 DEF RegisterStore
<1>8. device' \in [Devices -> [status : {"none", "ACTIVE", "REVOKED"}, key : SUBSET Keys]]
  BY <1>1, <1>2 DEF RegisterStore, NoDevice
<1>9. Typed'
  BY <1>5, <1>6, <1>8 DEF Typed
<1>10. Kinds' /\ Alone'
  <2>1. Kinds'
    BY <1>7, NoJobIsRecord DEF KeyInv, Kinds
  <2>2. Alone'
    BY <1>7, NoJobIsRecord DEF KeyInv, Alone, Own
  <2>3. QED
    BY <2>1, <2>2
<1>11. KnownKeys'
  <2>1. \A d \in Devices : device'[d].key \subseteq Known'
    BY <1>2, <1>5 DEF RegisterStore, NoDevice, KeyInv, KnownKeys
  <2>2. \A t \in Jobs : job'[t].op \in {"restore", "revoke"} => job'[t].key \subseteq Known'
    BY <1>5, <1>7, NoJobIsRecord DEF KeyInv, KnownKeys
  <2>3. QED
    BY <2>1, <2>2 DEF KnownKeys
<1>12. FirstKey'
  <2>1. \A t \in Jobs \ {j} : job[t].op # "initial"
    BY <1>1, <1>3 DEF KeyInv, Kinds, Alone, Own, JobRecord
  <2>2. QED
    BY <1>7, <2>1, NoJobIsRecord DEF FirstKey
<1>13. OneActiveKey'
  <2>1. CASE job[j].op = "rotate"
    BY <1>5, <2>1 DEF OneActiveKey
  <2>2. CASE a \in Known
    BY <1>5, <2>2 DEF OneActiveKey, KeyInv
  <2>3. CASE job[j].op # "rotate" /\ a \notin Known
    <3>1. Known = {}
      BY <1>2, <1>3, <2>3 DEF KeyInv, KnownKeys, FirstKey
    <3>2. ActiveKeys = {}
      BY <3>1 DEF ActiveKeys, Known
    <3>3. QED
      BY <1>5, <3>2 DEF OneActiveKey
  <2>4. QED
    BY <2>1, <2>2, <2>3
<1>14. QED
  BY <1>9, <1>10, <1>11, <1>12, <1>13 DEF KeyInv

LEMMA RevokeCommitStep ==
    ASSUME KeyInv, NEW j \in Jobs, RevokeCommit(j)
    PROVE  KeyInv'
<1>1. /\ job \in [Jobs -> JobRecord]
      /\ device \in [Devices -> [status : {"none", "ACTIVE", "REVOKED"}, key : SUBSET Keys]]
      /\ \A k \in Keys : key[k] = [status |-> key[k].status, version |-> key[k].version]
  BY DEF KeyInv, Typed
<1>2. job[j].key \subseteq Known
  BY DEF RevokeCommit, KeyInv, Kinds, KnownKeys
<1>3. \A k \in Keys :
        key'[k] = IF {k} = job[j].key /\ job[j].last
                  THEN [status |-> "REVOKED", version |-> key[k].version] ELSE key[k]
  BY <1>1, NewStatus DEF RevokeCommit
<1>4. key' = [k \in Keys |-> [status |-> key'[k].status, version |-> key'[k].version]]
  <2>1. key' = [k \in Keys |-> key'[k]]
    BY DEF RevokeCommit
  <2>2. ASSUME NEW k \in Keys
        PROVE  key'[k] = [status |-> key'[k].status, version |-> key'[k].version]
    <3>1. CASE {k} = job[j].key /\ job[j].last
      <4>1. key'[k] = [status |-> "REVOKED", version |-> key[k].version]
        BY <1>3, <3>1
      <4>2. QED
        BY <4>1
    <3>2. CASE ~({k} = job[j].key /\ job[j].last)
      BY <1>1, <1>3, <3>2
    <3>3. QED
      BY <3>1, <3>2
  <2>3. QED
    BY <2>1, <2>2
<1>5. Known' = Known /\ ActiveKeys' \subseteq ActiveKeys
  <2>1. \A k \in Keys : {k} = job[j].key => key[k].status # "none"
    BY <1>2 DEF Known
  <2>2. ASSUME NEW k \in Keys
        PROVE  (k \in Known' <=> k \in Known) /\ (k \in ActiveKeys' => k \in ActiveKeys)
    <3>1. CASE {k} = job[j].key /\ job[j].last
      <4>1. key'[k] = [status |-> "REVOKED", version |-> key[k].version]
        BY <1>3, <3>1
      <4>2. key'[k].status = "REVOKED"
        BY <4>1
      <4>3. QED
        BY <2>1, <3>1, <4>2 DEF Known, ActiveKeys
    <3>2. CASE ~({k} = job[j].key /\ job[j].last)
      BY <1>3, <3>2 DEF Known, ActiveKeys
    <3>3. QED
      BY <3>1, <3>2
  <2>3. QED
    BY <2>2 DEF Known, ActiveKeys
<1>6. /\ device' \in [Devices -> [status : {"none", "ACTIVE", "REVOKED"}, key : SUBSET Keys]]
      /\ \A d \in Devices : device'[d].key = device[d].key
  BY <1>1 DEF RevokeCommit
<1>7. job' = [job EXCEPT ![j] = NoJob]
  BY DEF RevokeCommit
<1>8. Typed'
  BY <1>1, <1>4, <1>6, <1>7, NoJobIsRecord DEF Typed
<1>9. Kinds'
  BY <1>1, <1>7, NoJobIsRecord DEF KeyInv, Kinds
<1>10. Alone'
  BY <1>1, <1>7, NoJobIsRecord DEF KeyInv, Alone, Own
<1>11. KnownKeys'
  <2>1. \A d \in Devices : device'[d].key \subseteq Known'
    BY <1>5, <1>6 DEF KeyInv, KnownKeys
  <2>2. \A t \in Jobs : job'[t].op \in {"restore", "revoke"} => job'[t].key \subseteq Known'
    BY <1>1, <1>5, <1>7, NoJobIsRecord DEF KeyInv, KnownKeys
  <2>3. QED
    BY <2>1, <2>2 DEF KnownKeys
<1>12. FirstKey'
  BY <1>1, <1>5, <1>7, NoJobIsRecord DEF KeyInv, FirstKey
<1>13. OneActiveKey'
  BY <1>5 DEF KeyInv, OneActiveKey
<1>14. QED
  BY <1>8, <1>9, <1>10, <1>11, <1>12, <1>13 DEF KeyInv

-------------------------------------------------------------------------------
LEMMA NextKeyInv == KeyInv /\ [Next]_vars => KeyInv'
<1> SUFFICES ASSUME KeyInv, [Next]_vars PROVE KeyInv'
  OBVIOUS
<1>1. ASSUME NEW j \in Jobs, NEW mode \in {"initial", "restore", "rotate"},
             NEW d \in Devices, NEW k \in Keys, RegisterRead(j, mode, d, k)
      PROVE  KeyInv'
  BY <1>1, RegisterReadStep
<1>2. ASSUME NEW j \in Jobs, NEW d \in Devices, NEW admin \in BOOLEAN,
             RevokeRead(j, d, admin)
      PROVE  KeyInv'
  BY <1>2, RevokeReadStep
<1>3. ASSUME NEW j \in Jobs, RegisterStore(j) PROVE KeyInv'
  BY <1>3, RegisterStoreStep
<1>4. ASSUME NEW j \in Jobs, RevokeUpdate(j) PROVE KeyInv'
  BY <1>4, RevokeUpdateStep
<1>5. ASSUME NEW j \in Jobs, RevokeCommit(j) PROVE KeyInv'
  BY <1>5, RevokeCommitStep
<1>6. ASSUME NEW j \in Jobs, Abort(j) PROVE KeyInv'
  BY <1>6, AbortStep
<1>7. CASE \E n \in Limits : SetLimit(n)
  BY <1>7, QuietStep DEF SetLimit
<1>8. CASE UNCHANGED vars
  BY <1>8, QuietStep DEF vars
<1>9. QED
  BY <1>1, <1>2, <1>3, <1>4, <1>5, <1>6, <1>7, <1>8 DEF Next

\* A member never has two keys that others may encrypt for, in whatever order
\* his registrations and rotations and everybody's revocations run: the
\* enrollment lock of registerMyDeviceKey is enough for it.
THEOREM OneKey == Spec => []OneActiveKey
<1>1. Init => KeyInv
  BY InitKeyInv
<1>2. KeyInv /\ [Next]_vars => KeyInv'
  BY NextKeyInv
<1>3. KeyInv => OneActiveKey
  BY DEF KeyInv
<1>4. QED
  BY <1>1, <1>2, <1>3, PTL DEF Spec
-------------------------------------------------------------------------------
(***************************************************************************)
(* The limit.  A registration that found no row was within the limit when  *)
(* it counted, and stores alone: until then only revocations, which lower  *)
(* the count, and changes of the limit come between.  One that found a row *)
(* takes its place, unless the row was revoked meanwhile or before: then   *)
(* it is counted as readmitted if the limit is reached.                    *)
(***************************************************************************)
Counted(j) ==
    job[j].pc = "store" =>
        /\ \E d \in Devices : job[j].device = {d}
        /\ \/ job[j].row = {} /\ (~readmitted => Cardinality(ActiveDevices) < peak)
           \/ \E d \in Devices : job[j].row = {d} /\ device[d].status # "none"

LimitInv ==
    /\ IsFiniteSet(ActiveDevices)
    /\ limit \in Limits /\ peak \in Limits /\ limit <= peak /\ readmitted \in BOOLEAN
    /\ DeviceLimitHolds
    /\ \A j \in Jobs : Counted(j)

(***************************************************************************)
(* Keys and devices.  As long as overlapped is FALSE one transaction runs  *)
(* at a time (Single), so that what it has read still stands when it       *)
(* writes: a registration adds a device to the one active key or makes the *)
(* key, and a revocation counts right whether its device is the last.      *)
(***************************************************************************)
Single == \A i, j \in Running : i = j

Matched ==
    /\ \A k \in ActiveKeys : DevicesOf(k) # {}
    /\ \A d \in ActiveDevices, k \in Keys :
          device[d].key = {k} => key[k].status # "REVOKED"

LastOf(j) == \A k \in Keys : {k} = job[j].key => DevicesOf(k) \subseteq job[j].row

ReadStands(j) ==
    /\ job[j].pc = "store" => \A k \in Keys : job[j].key = {k} =>
          \/ k \notin Known /\ (job[j].op = "rotate" \/ Known = {})
          \/ k \in ActiveKeys /\ job[j].op # "rotate"
    /\ job[j].pc \in {"update", "commit"} =>
          \E d \in ActiveDevices : job[j].row = {d} /\ job[j].key = device[d].key
    /\ job[j].pc = "commit" => job[j].last = LastOf(j)

MatchInv ==
    /\ overlapped \in BOOLEAN
    /\ ~overlapped => Single /\ Matched /\ \A j \in Jobs : ReadStands(j)
-------------------------------------------------------------------------------
LEMMA LimitsAreNumbers ==
    ASSUME LimitInv
    PROVE  limit \in Nat /\ peak \in Nat /\ Cardinality(ActiveDevices) \in Nat
<1>1. Limits \subseteq Nat BY DevicesAssumption
<1>2. Cardinality(ActiveDevices) \in Nat BY FS_CardinalityType DEF LimitInv
<1> QED BY <1>1, <1>2 DEF LimitInv

\* Steps that change no device: a transaction that comes to its store was
\* counted, or found a row.
LEMMA SameDevices ==
    ASSUME LimitInv, KeyInv, UNCHANGED <<device, limit, peak, readmitted>>,
           NEW j \in Jobs, NEW t, job' = [job EXCEPT ![j] = t], Counted(j)'
    PROVE  LimitInv'
<1>1. ActiveDevices' = ActiveDevices BY DEF ActiveDevices
<1>2. job \in [Jobs -> JobRecord] BY DEF KeyInv, Typed
<1>3. \A i \in Jobs \ {j} : job'[i] = job[i] BY <1>2
<1>4. ASSUME NEW i \in Jobs PROVE Counted(i)'
  <2>1. CASE i = j BY <2>1
  <2>2. CASE i # j
    <3>1. Counted(i) /\ job'[i] = job[i] BY <1>3, <2>2 DEF LimitInv
    <3> QED BY <1>1, <3>1 DEF Counted
  <2> QED BY <2>1, <2>2
<1>5. DeviceLimitHolds' BY <1>1 DEF LimitInv, DeviceLimitHolds
<1> QED BY <1>1, <1>4, <1>5 DEF LimitInv

LEMMA RowIsOne ==
    ASSUME NEW mode, NEW d \in Devices, NEW k \in Keys
    PROVE  \/ RowOf(mode, d, k) = {}
           \/ \E l \in Devices : RowOf(mode, d, k) = {l} /\ device[l].status # "none"
<1>1. CASE DevicesOf(k) \cap Legacy # {}
  <2> DEFINE l == CHOOSE l \in DevicesOf(k) \cap Legacy : TRUE
  <2>1. l \in DevicesOf(k) \cap Legacy BY <1>1
  <2>2. l \in Devices /\ device[l].status # "none" BY <2>1 DEF DevicesOf, ActiveDevices
  <2> HIDE DEF l
  <2>3. RowOf(mode, d, k) = IF device[d].status # "none" THEN {d}
                            ELSE IF mode = "restore" THEN {l} ELSE {}
    BY <1>1 DEF RowOf, l
  <2> QED BY <2>2, <2>3
<1>2. CASE DevicesOf(k) \cap Legacy = {}
  BY <1>2 DEF RowOf
<1> QED BY <1>1, <1>2

LEMMA LimitRead ==
    ASSUME LimitInv, KeyInv, NEW j \in Jobs, NEW mode, NEW d \in Devices, NEW k \in Keys,
           RegisterRead(j, mode, d, k)
    PROVE  LimitInv'
<1> DEFINE row == RowOf(mode, d, k)
           t == [op |-> mode, pc |-> "store", device |-> {d}, row |-> row,
                 key |-> {k}, admin |-> FALSE, last |-> FALSE]
<1>1. /\ UNCHANGED <<device, limit, peak, readmitted>> /\ WithinLimit(row)
      /\ job' = [job EXCEPT ![j] = t]
  BY DEF RegisterRead, Begin
<1>2. \/ row = {} \/ \E l \in Devices : row = {l} /\ device[l].status # "none"
  BY RowIsOne
<1> HIDE DEF row
<1>3. row = {} => Cardinality(ActiveDevices) < limit BY <1>1 DEF WithinLimit
<1>4. limit \in Nat /\ peak \in Nat /\ Cardinality(ActiveDevices) \in Nat BY LimitsAreNumbers
<1>5. row = {} => Cardinality(ActiveDevices) < peak BY <1>3, <1>4 DEF LimitInv
<1>6. job'[j] = t BY <1>1 DEF KeyInv, Typed
<1>7. t.device = {d} /\ t.row = row OBVIOUS
<1> HIDE DEF t
<1>8. ActiveDevices' = ActiveDevices BY <1>1 DEF ActiveDevices
<1>9. Counted(j)' BY <1>1, <1>2, <1>5, <1>6, <1>7, <1>8 DEF Counted
<1> QED BY <1>1, <1>9, SameDevices

\* Transactions that are not registrations, or end.
LEMMA LimitJob ==
    ASSUME LimitInv, KeyInv, NEW j \in Jobs, RevokeUpdate(j) \/ Abort(j)
                             \/ \E d \in Devices, admin \in BOOLEAN : RevokeRead(j, d, admin)
    PROVE  LimitInv'
<1>1. UNCHANGED <<device, limit, peak, readmitted>>
  BY DEF RevokeUpdate, Abort, RevokeRead
<1>2. PICK t : job' = [job EXCEPT ![j] = t] /\ t.pc # "store"
  <2>1. CASE RevokeUpdate(j)
    <3> DEFINE b == \A k \in Keys : {k} = job[j].key => DevicesOf(k) \subseteq job[j].row
               t == [[job[j] EXCEPT !.pc = "commit"] EXCEPT !.last = b]
    <3>1. job[j] \in JobRecord BY DEF KeyInv, Typed
    <3>2. job' = [job EXCEPT ![j].pc = "commit", ![j].last = b] BY <2>1 DEF RevokeUpdate
    <3>3. b \in BOOLEAN OBVIOUS
    <3> HIDE DEF b
    <3>4. t.pc = "commit" BY <3>1, <3>3 DEF JobRecord
    <3>5. job' = [job EXCEPT ![j] = t] BY <3>2 DEF KeyInv, Typed
    <3> HIDE DEF t
    <3> QED BY <3>4, <3>5
  <2>2. CASE Abort(j) BY <2>2, NoJobIsRecord DEF Abort
  <2>3. CASE \E d \in Devices, admin \in BOOLEAN : RevokeRead(j, d, admin)
    <3>1. PICK d \in Devices, admin \in BOOLEAN : RevokeRead(j, d, admin) BY <2>3
    <3> DEFINE t == [op |-> "revoke", pc |-> "update", device |-> {d}, row |-> {d},
                     key |-> device[d].key, admin |-> admin, last |-> FALSE]
    <3>2. job' = [job EXCEPT ![j] = t] BY <3>1 DEF RevokeRead, Begin
    <3>3. t.pc = "update" OBVIOUS
    <3> HIDE DEF t
    <3> QED BY <3>2, <3>3
  <2> QED BY <2>1, <2>2, <2>3
<1>3. job'[j] = t BY <1>2 DEF KeyInv, Typed
<1>4. Counted(j)' BY <1>2, <1>3 DEF Counted
<1> QED BY <1>1, <1>2, <1>4, SameDevices

\* The peak never falls.
LEMMA LimitSet ==
    ASSUME LimitInv, NEW n \in Limits, SetLimit(n)
    PROVE  LimitInv'
<1>1. /\ UNCHANGED <<device, job, readmitted>> /\ limit' = n
      /\ peak' = IF n > peak THEN n ELSE peak
  BY DEF SetLimit
<1>2. ActiveDevices' = ActiveDevices BY <1>1 DEF ActiveDevices
<1>3. n \in Nat BY DevicesAssumption
<1>4. limit \in Nat /\ peak \in Nat /\ Cardinality(ActiveDevices) \in Nat BY LimitsAreNumbers
<1>5. peak' \in Limits /\ peak <= peak' /\ limit' <= peak' BY <1>1, <1>3, <1>4 DEF LimitInv
<1>6. peak' \in Nat BY <1>5, DevicesAssumption
<1>7. \A c \in Nat : (c <= peak => c <= peak') /\ (c < peak => c < peak')
  BY <1>4, <1>5, <1>6
<1>8. DeviceLimitHolds' BY <1>1, <1>2, <1>4, <1>7 DEF LimitInv, DeviceLimitHolds
<1>9. ASSUME NEW j \in Jobs PROVE Counted(j)'
  <2>1. Counted(j) BY DEF LimitInv
  <2> QED BY <1>1, <1>2, <1>4, <1>7, <2>1 DEF Counted
<1> QED BY <1>1, <1>2, <1>5, <1>8, <1>9 DEF LimitInv

\* A revocation takes a device out of the count.
LEMMA LimitRevoke ==
    ASSUME LimitInv, KeyInv, NEW j \in Jobs, RevokeCommit(j)
    PROVE  LimitInv'
<1>1. /\ UNCHANGED <<limit, peak, readmitted>> /\ job' = [job EXCEPT ![j] = NoJob]
      /\ device' = [d \in Devices |-> IF {d} = job[j].row
                      THEN [device[d] EXCEPT !.status = "REVOKED"] ELSE device[d]]
  BY DEF RevokeCommit
<1>2. \A d \in Devices : device'[d].status \in {device[d].status, "REVOKED"}
  BY <1>1 DEF KeyInv, Typed
<1>3. ActiveDevices' \in SUBSET ActiveDevices BY <1>2 DEF ActiveDevices
<1>4. IsFiniteSet(ActiveDevices') /\ Cardinality(ActiveDevices') <= Cardinality(ActiveDevices)
  BY <1>3, FS_Subset DEF LimitInv
<1>5. Cardinality(ActiveDevices') \in Nat BY <1>4, FS_CardinalityType
<1>6. limit \in Nat /\ peak \in Nat /\ Cardinality(ActiveDevices) \in Nat BY LimitsAreNumbers
<1>7. /\ Cardinality(ActiveDevices) <= peak => Cardinality(ActiveDevices') <= peak
      /\ Cardinality(ActiveDevices) < peak => Cardinality(ActiveDevices') < peak
  BY <1>4, <1>5, <1>6
<1>8. DeviceLimitHolds' BY <1>1, <1>7 DEF LimitInv, DeviceLimitHolds
<1>9. job'[j].pc = "none" /\ \A i \in Jobs \ {j} : job'[i] = job[i]
  BY <1>1, NoJobIsRecord DEF KeyInv, Typed
<1>10. ASSUME NEW i \in Jobs PROVE Counted(i)'
  <2>1. CASE i = j BY <1>9, <2>1 DEF Counted
  <2>2. CASE i # j
    <3>1. Counted(i) /\ job'[i] = job[i] BY <1>9, <2>2 DEF LimitInv
    <3> QED BY <1>1, <1>2, <1>7, <3>1 DEF Counted
  <2> QED BY <2>1, <2>2
<1> QED BY <1>1, <1>4, <1>8, <1>10 DEF LimitInv

\* A registration puts its device in the place of the row it found, or adds it.
LEMMA LimitStore ==
    ASSUME LimitInv, KeyInv, NEW j \in Jobs, RegisterStore(j)
    PROVE  LimitInv'
<1> DEFINE back == \E d \in job[j].row : device[d].status = "REVOKED"
<1>1. /\ job[j].pc = "store" /\ UNCHANGED <<limit, peak>>
      /\ device' = [d \in Devices |->
                    IF {d} = job[j].device
                    THEN [status |-> "ACTIVE", key |-> job[j].key]
                    ELSE IF {d} = job[j].row THEN NoDevice ELSE device[d]]
      /\ job' = [t \in Jobs |->
                 IF t = j THEN NoJob
                 ELSE IF job[t].row = job[j].row /\ job[t].row # {}
                 THEN [job[t] EXCEPT !.device = job[j].device, !.row = job[j].device]
                 ELSE job[t]]
      /\ readmitted' = (readmitted \/ (back /\ Cardinality(ActiveDevices) >= limit))
  BY DEF RegisterStore
<1>2. PICK d \in Devices : job[j].device = {d} BY <1>1 DEF LimitInv, Counted
<1>3. ActiveDevices' \in SUBSET ((ActiveDevices \ job[j].row) \cup {d})
  <2>1. job[j].row = {} \/ \E l \in Devices : job[j].row = {l}
    BY <1>1 DEF LimitInv, Counted
  <2>2. ASSUME NEW e \in ActiveDevices', e # d PROVE e \in ActiveDevices \ job[j].row
    <3>1. e \in Devices /\ device'[e].status = "ACTIVE" BY DEF ActiveDevices
    <3>2. {e} # job[j].device BY <1>2, <2>2
    <3>3. device'[e] = IF {e} = job[j].row THEN NoDevice ELSE device[e] BY <1>1, <3>1, <3>2
    <3>4. {e} # job[j].row /\ device'[e] = device[e] BY <3>1, <3>3 DEF NoDevice
    <3> QED BY <2>1, <3>1, <3>4 DEF ActiveDevices
  <2> QED BY <2>2
<1>4. limit \in Nat /\ peak \in Nat /\ Cardinality(ActiveDevices) \in Nat BY LimitsAreNumbers
<1>5. PICK A : /\ IsFiniteSet(A) /\ ActiveDevices' \in SUBSET (A \cup {d})
               /\ Cardinality(A) \in Nat
               /\ ~readmitted' => Cardinality(A) < peak
  <2>1. CASE job[j].row = {} /\ (~readmitted => Cardinality(ActiveDevices) < peak)
    <3>1. ActiveDevices' \in SUBSET (ActiveDevices \cup {d}) BY <1>3, <2>1
    <3>2. ~readmitted' => ~readmitted BY <1>1
    <3> QED BY <1>4, <2>1, <3>1, <3>2 DEF LimitInv
  <2>2. ASSUME NEW l \in Devices, job[j].row = {l}, device[l].status # "none"
        PROVE  /\ IsFiniteSet(ActiveDevices \ {l})
               /\ ActiveDevices' \in SUBSET ((ActiveDevices \ {l}) \cup {d})
               /\ Cardinality(ActiveDevices \ {l}) \in Nat
               /\ ~readmitted' => Cardinality(ActiveDevices \ {l}) < peak
    <3>1. /\ IsFiniteSet(ActiveDevices \ {l})
          /\ Cardinality(ActiveDevices \ {l}) =
               IF l \in ActiveDevices THEN Cardinality(ActiveDevices) - 1
               ELSE Cardinality(ActiveDevices)
      BY FS_RemoveElement DEF LimitInv
    <3>2. Cardinality(ActiveDevices \ {l}) \in Nat BY <3>1, FS_CardinalityType
    <3>3. ASSUME ~readmitted' PROVE Cardinality(ActiveDevices \ {l}) < peak
      <4>1. ~readmitted BY <1>1, <3>3
      <4>2. CASE l \in ActiveDevices
        <5>1. Cardinality(ActiveDevices) <= peak BY <4>1 DEF LimitInv, DeviceLimitHolds
        <5> QED BY <1>4, <3>1, <4>2, <5>1
      <4>3. CASE l \notin ActiveDevices
        <5>1. device[l].status = "REVOKED" BY <2>2, <4>3 DEF KeyInv, Typed, ActiveDevices
        <5>2. back BY <2>2, <5>1
        <5>3. ~(Cardinality(ActiveDevices) >= limit) BY <1>1, <3>3, <5>2
        <5> QED BY <1>4, <3>1, <4>3, <5>3 DEF LimitInv
      <4> QED BY <4>2, <4>3
    <3> QED BY <1>3, <2>2, <3>1, <3>2, <3>3
  <2> QED BY <1>1, <2>1, <2>2 DEF LimitInv, Counted
<1>6. /\ IsFiniteSet(A \cup {d})
      /\ Cardinality(A \cup {d}) <= Cardinality(A) + 1
  <2>1. /\ IsFiniteSet(A \cup {d})
        /\ Cardinality(A \cup {d}) = IF d \in A THEN Cardinality(A) ELSE Cardinality(A) + 1
    BY <1>5, FS_AddElement
  <2>2. Cardinality(A) \in Nat BY <1>5
  <2> QED BY <2>1, <2>2
<1>7. /\ IsFiniteSet(ActiveDevices')
      /\ Cardinality(ActiveDevices') <= Cardinality(A \cup {d})
  BY <1>5, <1>6, FS_Subset
<1>8. Cardinality(ActiveDevices') \in Nat /\ Cardinality(A \cup {d}) \in Nat
  BY <1>6, <1>7, FS_CardinalityType
<1>9. DeviceLimitHolds'
  <2>1. ~readmitted' => Cardinality(ActiveDevices') <= peak BY <1>4, <1>5, <1>6, <1>7, <1>8
  <2> QED BY <1>1, <2>1 DEF DeviceLimitHolds
<1>10. ASSUME NEW i \in Jobs PROVE Counted(i)'
  <2>1. CASE i = j BY <1>1, <2>1, NoJobIsRecord DEF Counted
  <2>2. CASE i # j
    <3>1. job[i].pc # "store" BY <1>1, <2>2 DEF KeyInv, Kinds, Alone, Own
    <3>2. job'[i].pc = job[i].pc BY <1>1, <2>2 DEF KeyInv, Typed, JobRecord
    <3> QED BY <3>1, <3>2 DEF Counted
  <2> QED BY <2>1, <2>2
<1>11. readmitted' \in BOOLEAN BY <1>1 DEF LimitInv
<1> QED BY <1>1, <1>7, <1>9, <1>10, <1>11 DEF LimitInv
-------------------------------------------------------------------------------
LEMMA SameStands ==
    ASSUME UNCHANGED <<device, key>>, NEW i \in Jobs, ReadStands(i), job'[i] = job[i]
    PROVE  ReadStands(i)'
<1>1. /\ Known' = Known /\ ActiveKeys' = ActiveKeys /\ ActiveDevices' = ActiveDevices
      /\ \A k \in Keys : DevicesOf(k)' = DevicesOf(k)
  BY DEF Known, ActiveKeys, ActiveDevices, DevicesOf
<1>2. LastOf(i)' = LastOf(i) BY <1>1 DEF LastOf
<1>3. job[i].pc = "commit" => job'[i].last = LastOf(i)' BY <1>2 DEF ReadStands
<1> QED BY <1>1, <1>3 DEF ReadStands

\* Steps that change no device and no key: a transaction that begins beside
\* another one is overlapped, and one that moves on has read what stands.
LEMMA MatchJob ==
    ASSUME MatchInv, KeyInv, UNCHANGED <<device, key>>, NEW j \in Jobs, NEW t,
           job' = [job EXCEPT ![j] = t], overlapped' \in BOOLEAN,
           ~overlapped' => ~overlapped /\ ReadStands(j)',
           ~overlapped' => j \in Running \/ Running = {} \/ t = NoJob
    PROVE  MatchInv'
<1>1. job'[j] = t /\ \A i \in Jobs \ {j} : job'[i] = job[i] BY DEF KeyInv, Typed
<1>2. ASSUME ~overlapped' PROVE Single' /\ Matched' /\ \A i \in Jobs : ReadStands(i)'
  <2>1. Single /\ Matched /\ \A i \in Jobs : ReadStands(i) BY <1>2 DEF MatchInv
  <2>2. Single' BY <1>1, <1>2, <2>1 DEF Single, Running
  <2>3. Matched' BY <2>1 DEF Matched, ActiveKeys, ActiveDevices, DevicesOf
  <2>4. \A i \in Jobs : ReadStands(i)' BY <1>1, <1>2, <2>1, SameStands
  <2> QED BY <2>2, <2>3, <2>4
<1> QED BY <1>2 DEF MatchInv

LEMMA MatchRead ==
    ASSUME MatchInv, KeyInv, NEW j \in Jobs, NEW mode \in {"initial", "restore", "rotate"},
           NEW d \in Devices, NEW k \in Keys, RegisterRead(j, mode, d, k)
    PROVE  MatchInv'
<1> DEFINE t == [op |-> mode, pc |-> "store", device |-> {d}, row |-> RowOf(mode, d, k),
                 key |-> {k}, admin |-> FALSE, last |-> FALSE]
<1>1. /\ UNCHANGED <<device, key>> /\ job' = [job EXCEPT ![j] = t]
      /\ overlapped' = (overlapped \/ (Running # {} /\ (t.admin \/ \E i \in Running : job[i].admin)))
  BY DEF RegisterRead, Begin
<1>2. t.pc = "store" /\ t.op = mode /\ t.key = {k} OBVIOUS
<1> HIDE DEF t
<1>3. ~overlapped' => ~overlapped /\ Running = {}
  BY <1>1 DEF RegisterRead, EnrollmentFree
<1>4. \/ k \notin Known /\ (mode = "rotate" \/ Known = {})
      \/ k \in ActiveKeys /\ mode # "rotate"
  BY DEF RegisterRead, InitialAllowed, RestoreAllowed, RotateAllowed, ActiveKeys, Known
<1>5. job'[j] = t BY <1>1 DEF KeyInv, Typed
<1>6. Known' = Known /\ ActiveKeys' = ActiveKeys BY <1>1 DEF Known, ActiveKeys
<1>7. ReadStands(j)' BY <1>2, <1>4, <1>5, <1>6 DEF ReadStands
<1>8. overlapped' \in BOOLEAN BY <1>1 DEF MatchInv
<1> QED BY <1>1, <1>3, <1>7, <1>8, MatchJob

LEMMA MatchRevokeRead ==
    ASSUME MatchInv, KeyInv, NEW j \in Jobs, NEW d \in Devices, NEW admin \in BOOLEAN,
           RevokeRead(j, d, admin)
    PROVE  MatchInv'
<1> DEFINE t == [op |-> "revoke", pc |-> "update", device |-> {d}, row |-> {d},
                 key |-> device[d].key, admin |-> admin, last |-> FALSE]
<1>1. /\ UNCHANGED <<device, key>> /\ job' = [job EXCEPT ![j] = t]
      /\ overlapped' = (overlapped \/ (Running # {} /\ (t.admin \/ \E i \in Running : job[i].admin)))
  BY DEF RevokeRead, Begin
<1>2. t.pc = "update" /\ t.row = {d} /\ t.key = device[d].key /\ t.admin = admin OBVIOUS
<1> HIDE DEF t
<1>3. ~overlapped' => ~overlapped /\ Running = {}
  BY <1>1, <1>2 DEF RevokeRead, EnrollmentFree
<1>4. d \in ActiveDevices BY DEF RevokeRead, ActiveDevices
<1>5. job'[j] = t BY <1>1 DEF KeyInv, Typed
<1>6. ActiveDevices' = ActiveDevices BY <1>1 DEF ActiveDevices
<1>7. ReadStands(j)' BY <1>1, <1>2, <1>4, <1>5, <1>6 DEF ReadStands
<1>8. overlapped' \in BOOLEAN BY <1>1 DEF MatchInv
<1> QED BY <1>1, <1>3, <1>7, <1>8, MatchJob

LEMMA MatchRevokeUpdate ==
    ASSUME MatchInv, KeyInv, NEW j \in Jobs, RevokeUpdate(j)
    PROVE  MatchInv'
<1> DEFINE t == [[job[j] EXCEPT !.pc = "commit"] EXCEPT !.last = LastOf(j)]
<1>1. /\ UNCHANGED <<device, key, overlapped>> /\ job[j].pc = "update"
      /\ job' = [job EXCEPT ![j].pc = "commit", ![j].last = LastOf(j)]
  BY DEF RevokeUpdate, LastOf
<1>2. job[j] \in JobRecord /\ LastOf(j) \in BOOLEAN BY DEF KeyInv, Typed, LastOf
<1>3. job' = [job EXCEPT ![j] = t] BY <1>1 DEF KeyInv, Typed
<1>4. /\ t.pc = "commit" /\ t.row = job[j].row /\ t.key = job[j].key
      /\ t.last = LastOf(j)
  BY <1>2 DEF JobRecord
<1> HIDE DEF t
<1>5. job'[j] = t BY <1>3 DEF KeyInv, Typed
<1>6. ActiveDevices' = ActiveDevices /\ \A k \in Keys : DevicesOf(k)' = DevicesOf(k)
  BY <1>1 DEF ActiveDevices, DevicesOf
<1>7. LastOf(j)' <=> LastOf(j) BY <1>4, <1>5, <1>6 DEF LastOf
<1>8. ASSUME ~overlapped' PROVE ReadStands(j)'
  <2>1. \E d \in ActiveDevices : job[j].row = {d} /\ job[j].key = device[d].key
    BY <1>1, <1>8 DEF MatchInv, ReadStands
  <2>2. t.last = LastOf(j)' BY <1>2, <1>4, <1>7 DEF LastOf
  <2> QED BY <1>1, <1>4, <1>5, <1>6, <2>1, <2>2 DEF ReadStands
<1>9. j \in Running BY <1>1, NoJobIsRecord DEF Running
<1> QED BY <1>1, <1>3, <1>8, <1>9, MatchJob DEF MatchInv

LEMMA MatchAbort ==
    ASSUME MatchInv, KeyInv, NEW j \in Jobs, Abort(j)
    PROVE  MatchInv'
<1>1. UNCHANGED <<device, key, overlapped>> /\ job' = [job EXCEPT ![j] = NoJob]
  BY DEF Abort
<1>2. job'[j].pc = "none" BY <1>1, NoJobIsRecord DEF KeyInv, Typed
<1>3. ReadStands(j)' BY <1>2 DEF ReadStands
<1> QED BY <1>1, <1>3, MatchJob DEF MatchInv

\* Nothing runs beside the one transaction that writes, and nothing after it.
LEMMA WritesAlone ==
    ASSUME MatchInv, KeyInv, ~overlapped, NEW j \in Jobs, job[j].pc # "none",
           job'[j] = NoJob, \A i \in Jobs : job[i] = NoJob => job'[i] = NoJob
    PROVE  Single' /\ \A i \in Jobs : ReadStands(i)'
<1>1. \A i \in Jobs : job'[i] = NoJob
  BY NoJobIsRecord DEF MatchInv, Single, Running
<1>2. Single' BY <1>1 DEF Single, Running
<1>3. \A i \in Jobs : ReadStands(i)' BY <1>1, NoJobIsRecord DEF ReadStands
<1> QED BY <1>2, <1>3

\* After a registration its key is the only active one, and its device has it.
LEMMA MatchStore ==
    ASSUME MatchInv, LimitInv, KeyInv, NEW j \in Jobs, RegisterStore(j)
    PROVE  MatchInv'
<1>1. /\ job[j].pc = "store" /\ overlapped' = overlapped /\ key' = StoredKeys(j)
      /\ device' = [d \in Devices |->
                    IF {d} = job[j].device
                    THEN [status |-> "ACTIVE", key |-> job[j].key]
                    ELSE IF {d} = job[j].row THEN NoDevice ELSE device[d]]
      /\ job' = [t \in Jobs |->
                 IF t = j THEN NoJob
                 ELSE IF job[t].row = job[j].row /\ job[t].row # {}
                 THEN [job[t] EXCEPT !.device = job[j].device, !.row = job[j].device]
                 ELSE job[t]]
  BY DEF RegisterStore
<1>2. PICK d \in Devices : job[j].device = {d} BY <1>1 DEF LimitInv, Counted
<1>3. PICK a \in Keys : job[j].key = {a} BY <1>1 DEF KeyInv, Kinds
<1>4. /\ job[j].op = "rotate" => ActiveKeys' \subseteq {a}
      /\ a \in Known => ActiveKeys' \subseteq ActiveKeys
      /\ ActiveKeys' \subseteq ActiveKeys \cup {a}
      /\ \A k \in Keys : key'[k].status = "REVOKED" => key[k].status = "REVOKED"
  BY <1>1, <1>3, RegisteredKeys
<1>5. device'[d] = [status |-> "ACTIVE", key |-> {a}] BY <1>1, <1>2, <1>3
<1>6. d \in DevicesOf(a)' BY <1>5 DEF DevicesOf, ActiveDevices
<1>7. ASSUME ~overlapped PROVE Matched'
  <2>1. \/ a \notin Known /\ (job[j].op = "rotate" \/ Known = {})
        \/ a \in ActiveKeys /\ job[j].op # "rotate"
    BY <1>1, <1>3, <1>7 DEF MatchInv, ReadStands
  <2>2. ActiveKeys \subseteq Known BY DEF ActiveKeys, Known
  <2>3. ActiveKeys' \subseteq {a}
    BY <1>4, <2>1, <2>2 DEF KeyInv, OneActiveKey
  <2>4. key[a].status # "REVOKED" BY <2>1 DEF ActiveKeys, Known
  <2>5. ASSUME NEW e \in ActiveDevices', NEW k \in Keys, device'[e].key = {k}
        PROVE  key'[k].status # "REVOKED"
    <3>1. CASE e = d
      <4>1. k = a BY <1>5, <2>5, <3>1
      <4> QED BY <1>4, <2>4, <4>1
    <3>2. CASE e # d
      <4>1. e \in Devices /\ device'[e].status = "ACTIVE" BY DEF ActiveDevices
      <4>2. {e} # job[j].device BY <1>2, <3>2
      <4>3. device'[e] = IF {e} = job[j].row THEN NoDevice ELSE device[e] BY <1>1, <4>1, <4>2
      <4>4. device'[e] = device[e] BY <4>1, <4>3 DEF NoDevice
      <4>5. e \in ActiveDevices /\ device[e].key = {k} BY <2>5, <4>1, <4>4 DEF ActiveDevices
      <4>6. key[k].status # "REVOKED" BY <1>7, <4>5 DEF MatchInv, Matched
      <4> QED BY <1>4, <4>6
    <3> QED BY <3>1, <3>2
  <2> QED BY <1>6, <2>3, <2>5 DEF Matched
<1>8. ~overlapped => Single' /\ \A i \in Jobs : ReadStands(i)'
  <2>1. job'[j] = NoJob /\ \A i \in Jobs : job[i] = NoJob => job'[i] = NoJob
    <3>1. job'[j] = NoJob BY <1>1
    <3>2. ASSUME NEW i \in Jobs, i # j, job[i] = NoJob PROVE job'[i] = NoJob
      <4>1. job[i].row = {} BY <3>2 DEF NoJob
      <4> QED BY <1>1, <3>2, <4>1
    <3> QED BY <3>1, <3>2
  <2> QED BY <1>1, <2>1, WritesAlone
<1> QED BY <1>1, <1>7, <1>8 DEF MatchInv

\* A revocation counted the other devices of its key, and they still have it.
LEMMA MatchRevokeCommit ==
    ASSUME MatchInv, KeyInv, NEW j \in Jobs, RevokeCommit(j)
    PROVE  MatchInv'
<1>1. /\ job[j].pc = "commit" /\ overlapped' = overlapped
      /\ job' = [job EXCEPT ![j] = NoJob]
      /\ device' = [d \in Devices |-> IF {d} = job[j].row
                      THEN [device[d] EXCEPT !.status = "REVOKED"] ELSE device[d]]
      /\ key' = [k \in Keys |-> IF {k} = job[j].key /\ job[j].last
                   THEN [key[k] EXCEPT !.status = "REVOKED"] ELSE key[k]]
  BY DEF RevokeCommit
<1>2. ASSUME ~overlapped PROVE Matched'
  <2>1. PICK d \in ActiveDevices : job[j].row = {d} /\ job[j].key = device[d].key
    BY <1>1, <1>2 DEF MatchInv, ReadStands
  <2>2. job[j].last = LastOf(j) BY <1>1, <1>2 DEF MatchInv, ReadStands
  <2>3. /\ \A e \in Devices \ {d} : device'[e] = device[e]
        /\ device'[d].status = "REVOKED"
    BY <1>1, <2>1 DEF KeyInv, Typed, ActiveDevices
  <2>4. /\ ActiveDevices' = ActiveDevices \ {d}
        /\ \A k \in Keys : DevicesOf(k)' = DevicesOf(k) \ {d}
    BY <2>3 DEF ActiveDevices, DevicesOf
  <2>5. \A k \in Keys :
           /\ {k} = job[j].key /\ LastOf(j) => key'[k].status = "REVOKED"
           /\ ~({k} = job[j].key /\ LastOf(j)) => key'[k].status = key[k].status
    <3>1. ASSUME NEW k \in Keys PROVE [key[k] EXCEPT !.status = "REVOKED"].status = "REVOKED"
      <4>1. key[k] = [status |-> key[k].status, version |-> key[k].version]
        BY DEF KeyInv, Typed
      <4> QED BY <4>1, NewStatus
    <3> QED BY <1>1, <2>2, <3>1
  <2>6. ASSUME NEW k \in ActiveKeys' PROVE DevicesOf(k)' # {}
    <3>1. k \in Keys /\ ~({k} = job[j].key /\ LastOf(j)) /\ k \in ActiveKeys
      BY <2>5 DEF ActiveKeys
    <3>2. PICK e \in DevicesOf(k) : TRUE BY <1>2, <3>1 DEF MatchInv, Matched
    <3>3. CASE e # d BY <2>4, <3>1, <3>2, <3>3
    <3>4. CASE e = d
      <4>1. {k} = job[j].key BY <2>1, <3>2, <3>4 DEF DevicesOf
      <4>2. ~LastOf(j) BY <3>1, <4>1
      <4>3. ~(DevicesOf(k) \subseteq {d}) BY <2>1, <4>1, <4>2 DEF LastOf
      <4> QED BY <2>4, <3>1, <4>3
    <3> QED BY <3>3, <3>4
  <2>7. ASSUME NEW e \in ActiveDevices', NEW k \in Keys, device'[e].key = {k}
        PROVE  key'[k].status # "REVOKED"
    <3>1. e \in ActiveDevices /\ e # d /\ device[e].key = {k}
      BY <2>3, <2>4, <2>7 DEF ActiveDevices
    <3>2. e \in DevicesOf(k) BY <3>1 DEF DevicesOf
    <3>3. ~({k} = job[j].key /\ LastOf(j)) BY <2>1, <3>1, <3>2 DEF LastOf
    <3>4. key[k].status # "REVOKED" BY <1>2, <3>1 DEF MatchInv, Matched
    <3> QED BY <2>5, <3>3, <3>4
  <2> QED BY <2>6, <2>7 DEF Matched
<1>3. ~overlapped => Single' /\ \A i \in Jobs : ReadStands(i)'
  <2>1. job'[j] = NoJob /\ \A i \in Jobs : job[i] = NoJob => job'[i] = NoJob
    BY <1>1 DEF KeyInv, Typed
  <2> QED BY <1>1, <2>1, WritesAlone
<1> QED BY <1>1, <1>2, <1>3 DEF MatchInv
-------------------------------------------------------------------------------
LEMMA InitLimitMatch == Init => LimitInv /\ MatchInv
<1> SUFFICES ASSUME Init PROVE LimitInv /\ MatchInv
  OBVIOUS
<1>1. /\ \A j \in Jobs : job[j].pc = "none" /\ job[j] = NoJob
      /\ limit \in Limits /\ peak = limit /\ ~overlapped /\ ~readmitted
      /\ overlapped \in BOOLEAN /\ readmitted \in BOOLEAN
  BY NoJobIsRecord DEF Init
<1>2. limit \in Nat \ {0} BY <1>1, DevicesAssumption
<1>3. /\ \A j \in Jobs : Counted(j) /\ ReadStands(j)
      /\ Single
  BY <1>1 DEF Counted, ReadStands, Single, Running
<1>4. CASE /\ device = [d \in Devices |-> NoDevice]
           /\ key = [k \in Keys |-> [status |-> "none", version |-> 0]]
  <2>1. ActiveDevices = {} /\ ActiveKeys = {}
    BY <1>4 DEF ActiveDevices, ActiveKeys, NoDevice
  <2>2. Cardinality(ActiveDevices) = 0 /\ IsFiniteSet(ActiveDevices) BY <2>1, FS_EmptySet
  <2>3. Matched BY <2>1 DEF Matched
  <2> QED BY <1>1, <1>2, <1>3, <2>2, <2>3 DEF LimitInv, MatchInv, DeviceLimitHolds
<1>5. CASE \E d \in Legacy, k \in Keys :
             /\ device = [e \in Devices |-> IF e = d
                            THEN [status |-> "ACTIVE", key |-> {k}] ELSE NoDevice]
             /\ key = [l \in Keys |-> IF l = k
                         THEN [status |-> "ACTIVE", version |-> 1]
                         ELSE [status |-> "none", version |-> 0]]
  <2>1. PICK d \in Legacy, k \in Keys :
             /\ device = [e \in Devices |-> IF e = d
                            THEN [status |-> "ACTIVE", key |-> {k}] ELSE NoDevice]
             /\ key = [l \in Keys |-> IF l = k
                         THEN [status |-> "ACTIVE", version |-> 1]
                         ELSE [status |-> "none", version |-> 0]]
    BY <1>5
  <2>2. d \in Devices BY DevicesAssumption
  <2>3. ActiveDevices = {d} /\ ActiveKeys = {k} /\ device[d].key = {k} /\ key[k].status = "ACTIVE"
    BY <2>1, <2>2 DEF ActiveDevices, ActiveKeys, NoDevice
  <2>4. Cardinality(ActiveDevices) = 1 /\ IsFiniteSet(ActiveDevices) BY <2>3, FS_Singleton
  <2>5. Matched BY <2>3 DEF Matched, DevicesOf
  <2>6. 1 <= limit BY <1>2
  <2> QED BY <1>1, <1>2, <1>3, <2>4, <2>5, <2>6 DEF LimitInv, MatchInv, DeviceLimitHolds
<1> QED BY <1>4, <1>5 DEF Init

LEMMA NextLimitMatch ==
    KeyInv /\ LimitInv /\ MatchInv /\ [Next]_vars => LimitInv' /\ MatchInv'
<1> SUFFICES ASSUME KeyInv, LimitInv, MatchInv, [Next]_vars PROVE LimitInv' /\ MatchInv'
  OBVIOUS
<1>1. ASSUME NEW j \in Jobs, NEW mode \in {"initial", "restore", "rotate"},
             NEW d \in Devices, NEW k \in Keys, RegisterRead(j, mode, d, k)
      PROVE  LimitInv' /\ MatchInv'
  BY <1>1, LimitRead, MatchRead
<1>2. ASSUME NEW j \in Jobs, NEW d \in Devices, NEW admin \in BOOLEAN,
             RevokeRead(j, d, admin)
      PROVE  LimitInv' /\ MatchInv'
  BY <1>2, LimitJob, MatchRevokeRead
<1>3. ASSUME NEW j \in Jobs, RegisterStore(j) PROVE LimitInv' /\ MatchInv'
  BY <1>3, LimitStore, MatchStore
<1>4. ASSUME NEW j \in Jobs, RevokeUpdate(j) PROVE LimitInv' /\ MatchInv'
  BY <1>4, LimitJob, MatchRevokeUpdate
<1>5. ASSUME NEW j \in Jobs, RevokeCommit(j) PROVE LimitInv' /\ MatchInv'
  BY <1>5, LimitRevoke, MatchRevokeCommit
<1>6. ASSUME NEW j \in Jobs, Abort(j) PROVE LimitInv' /\ MatchInv'
  BY <1>6, LimitJob, MatchAbort
<1>7. ASSUME UNCHANGED <<device, key, job, overlapped>> PROVE MatchInv'
  <2>1. ASSUME ~overlapped PROVE Single' /\ Matched' /\ \A i \in Jobs : ReadStands(i)'
    <3>1. Single /\ Matched /\ \A i \in Jobs : ReadStands(i) BY <2>1 DEF MatchInv
    <3>2. \A i \in Jobs : ReadStands(i)' BY <1>7, <3>1, SameStands
    <3>3. Single' /\ Matched'
      BY <1>7, <3>1 DEF Single, Running, Matched, ActiveKeys, ActiveDevices, DevicesOf
    <3> QED BY <3>2, <3>3
  <2> QED BY <1>7, <2>1 DEF MatchInv
<1>8. ASSUME NEW n \in Limits, SetLimit(n) PROVE LimitInv' /\ MatchInv'
  BY <1>7, <1>8, LimitSet DEF SetLimit
<1>9. CASE UNCHANGED vars
  <2>1. LimitInv'
    BY <1>9 DEF vars, LimitInv, DeviceLimitHolds, Counted, ActiveDevices
  <2> QED BY <1>7, <1>9, <2>1 DEF vars
<1> QED BY <1>1, <1>2, <1>3, <1>4, <1>5, <1>6, <1>8, <1>9 DEF Next

LEMMA AlwaysLimitMatch == Spec => [](LimitInv /\ MatchInv)
BY InitKeyInv, NextKeyInv, InitLimitMatch, NextLimitMatch, PTL DEF Spec

\* Registrations, restores of revoked devices apart, never leave a member more
\* active devices than the highest limit so far, whatever administrators revoke
\* or set meanwhile (the count of registerMyDeviceKey under its lock).
THEOREM LimitIsKept == Spec => []DeviceLimitHolds
<1>1. LimitInv => DeviceLimitHolds BY DEF LimitInv
<1> QED BY <1>1, AlwaysLimitMatch, PTL

\* An active key is held by an active device, and no active device holds a
\* revoked one, unless an administrator's revocation ran beside
\* another transaction of the member (the count of revokeDevice).
THEOREM DevicesAndKeysMatch == Spec => []KeysMatchDevices
<1>1. MatchInv => KeysMatchDevices BY DEF MatchInv, Matched, KeysMatchDevices
<1> QED BY <1>1, AlwaysLimitMatch, PTL
=============================================================================
