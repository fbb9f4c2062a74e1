----------------------- MODULE SnapshotUpload_proofs ------------------------
(*****************************************************************************)
(* What holds of the snapshots of a session, whichever operation of R2       *)
(* fails, times out or takes effect late, and whenever the object restarts,  *)
(* for every set of snapshots and every bound of the model.                  *)
(*                                                                           *)
(* None of the three invariants is inductive.  They rest on who may touch a  *)
(* key: a key is one attempt's, and an attempt is one upload's or one row's  *)
(* (KeysInv); an upload's state says what its key may hold and which         *)
(* operation the task that owns it awaits (AttemptsInv); an operation that   *)
(* nobody awaits any more deletes nothing but what was retired or given up   *)
(* (StraysInv).  A row is then published only when its object is stored      *)
(* (BucketInv), and retention lets go of no pinned row and not of the        *)
(* latest (LatestInv).                                                       *)
(*****************************************************************************)
EXTENDS SnapshotUpload, SequenceTheorems, TLAPS

(* The invariant *)

Row == [id : Ids, key : Keys, state : {"servable", "retired"}]
UploadRow == [state : {"none", "uncertain", "retired"} \cup Expirable \cup Recoverable,
              key : Keys \cup {0}, expired : BOOLEAN]
Contents == {"none", "open", "stored"}
Task == {Idle} \cup [pc : UploadPcs \cup MaintenancePcs, key : Keys]

StoreTypes ==
    /\ snapshot \in Seq(Row)
    /\ upload \in [Ids -> UploadRow]
    /\ DOMAIN session = {"latest", "recent", "candidates"}
    /\ session.latest \in Ids \cup {0}
    /\ usedKeys \in 0 .. MaxKeys
    /\ task \in [Ids -> Task]
    /\ bucket \in [Keys -> Contents]
    /\ strays \subseteq [op : {"complete", "abort", "delete"}, key : Keys]
    /\ pins \subseteq Ids

Uploading(id) == upload[id].state # "none"

\* A key is used once, by one row or one upload; every key that is spoken of was given out.
KeysInv ==
    /\ \A id \in Ids : Uploading(id) => upload[id].key \in 1 .. usedKeys
    /\ \A i \in DOMAIN snapshot : snapshot[i].key \in 1 .. usedKeys /\ ~Uploading(snapshot[i].id)
    /\ \A key \in Keys : key > usedKeys => bucket[key] = "none"
    /\ \A s \in strays : s.key \in 1 .. usedKeys
    /\ \A a, b \in Ids : Uploading(a) /\ Uploading(b) /\ a # b => upload[a].key # upload[b].key
    /\ \A id \in Ids, i \in DOMAIN snapshot : Uploading(id) => upload[id].key # snapshot[i].key
    /\ \A i, j \in DOMAIN snapshot :
          i # j => snapshot[i].key # snapshot[j].key /\ snapshot[i].id # snapshot[j].id

\* The states of its upload in which the answer to a task's operation comes.
Awaited(pc) ==
    CASE pc \in {"probe", "create"} -> {"preparing"}
      [] pc \in {"part", "rejectAbort"} -> {"uploading"}
      [] pc \in {"complete", "confirm"} -> {"completing"}
      [] pc \in {"recoverAbort", "settle", "sweepAbort", "sweepSettle"} -> {"uploading", "completing"}
      [] pc \in {"rejectHead", "restartHead"} -> {"aborted"}
      [] pc = "uncertainHead" -> {"uncertain"}
      [] pc = "verifyCompleted" -> {"completed"}
      [] OTHER -> {"retired", "aborted"}

\* The tasks that are not about an upload.
RowPcs == {"idle", "verifyPublished", "delete"}

\* An upload's record, what its key holds, and the task that owns the id.
Fits(row, content, t) ==
    /\ row.state = "preparing" => content = "none"
    /\ row.state \in {"completed", "aborted", "retired", "uncertain"} => content # "open"
    /\ t.pc \notin RowPcs => t.key = row.key /\ row.state \in Awaited(t.pc)
    /\ t.pc \in {"settle", "sweepSettle"} => content # "open"

AttemptsInv ==
    /\ \A id \in Ids : Uploading(id) => Fits(upload[id], bucket[upload[id].key], task[id])
    /\ \A id \in Ids : ~Uploading(id) => task[id].pc \in RowPcs
    /\ \A id \in Ids : At(id, "delete") => HasRow(id, Key(id), "retired")

\* What the bucket holds has a record, and a servable snapshot's object is there.
BucketInv ==
    /\ \A key \in Keys : bucket[key] # "none" =>
          \/ \E i \in DOMAIN snapshot : snapshot[i].key = key
          \/ \E id \in Ids : Uploading(id) /\ upload[id].key = key
    /\ \A i \in DOMAIN snapshot : snapshot[i].state = "servable" => bucket[snapshot[i].key] = "stored"

\* A deletion that may still come is of something nobody will want again.
StraysInv ==
    \A s \in strays : s.op = "delete" =>
        /\ \A i \in DOMAIN snapshot : snapshot[i].state = "servable" => snapshot[i].key # s.key
        /\ \A id \in Ids : Uploading(id) /\ upload[id].key = s.key => upload[id].state \in {"retired", "aborted"}

LatestInv ==
    /\ pins \cup ({session.latest} \ {0}) \subseteq Servable(snapshot)
    /\ session.latest = 0 => snapshot = <<>>
    /\ LatestIsNewest

Inv ==
    /\ StoreTypes
    /\ KeysInv
    /\ AttemptsInv
    /\ BucketInv
    /\ StraysInv
    /\ LatestInv

-----------------------------------------------------------------------------

LEMMA KeysAreNumbers == MaxKeys \in Nat /\ Keys \subseteq Nat \ {0} /\ Ids \subseteq Nat \ {0}
  BY SnapshotStoreAssumption DEF Keys

LEMMA RowTypes ==
  ASSUME StoreTypes, NEW i \in DOMAIN snapshot
  PROVE  /\ snapshot[i] \in Row
         /\ snapshot[i].id \in Ids /\ snapshot[i].key \in Keys
         /\ snapshot[i].state \in {"servable", "retired"}
<1>1. snapshot[i] \in Row
  BY ElementOfSeq, LenProperties DEF StoreTypes
<1>. QED BY <1>1 DEF Row

LEMMA InitInv == SnapshotInit => Inv
<1> SUFFICES ASSUME SnapshotInit PROVE Inv OBVIOUS
<1> USE DEF SnapshotInit, StoreInit
<1>1. /\ MaxKeys \in Nat
      /\ <<>> \in Seq(Row)
      /\ DOMAIN snapshot = {}
  BY KeysAreNumbers, EmptySeq, SnapshotInit
<1>2. StoreTypes
  <2>1. Idle \in Task
    BY DEF Task
  <2>2. NoUpload \in UploadRow
    BY DEF NoUpload, UploadRow
  <2>. QED BY <1>1, <2>1, <2>2 DEF StoreTypes, Contents
<1>3. \A id \in Ids : ~Uploading(id) /\ task[id].pc = "idle"
  BY DEF Uploading, NoUpload, Idle
<1>4. KeysInv
  BY <1>1, <1>3 DEF KeysInv
<1>5. AttemptsInv
  BY <1>3 DEF AttemptsInv, At, RowPcs
<1>6. BucketInv
  BY <1>1 DEF BucketInv
<1>7. StraysInv
  BY DEF StraysInv
<1>8. LatestInv
  BY <1>1 DEF LatestInv, LatestIsNewest, Servable
<1>. QED BY <1>2, <1>4, <1>5, <1>6, <1>7, <1>8 DEF Inv

-----------------------------------------------------------------------------
(* One upload and its task move *)

\* The rows, which of them is the latest, and the pins are not touched.
RowsStay ==
    /\ UNCHANGED <<snapshot, pins>>
    /\ session'.latest = session.latest
    /\ DOMAIN session' = DOMAIN session

LEMMA RowsStayLatest == ASSUME LatestInv, RowsStay PROVE LatestInv'
  BY DEF LatestInv, RowsStay, LatestIsNewest, Servable

LEMMA UploadMoves ==
  ASSUME Inv, NEW id \in Ids, Uploading(id),
         NEW row \in UploadRow, NEW content \in Contents, NEW t \in Task,
         row.key = upload[id].key, row.state # "none", t.pc # "delete",
         upload[id].state \in {"retired", "aborted"} => row.state \in {"retired", "aborted"},
         Fits(row, content, t),
         upload' = [upload EXCEPT ![id] = row],
         bucket' = [bucket EXCEPT ![upload[id].key] = content],
         task' = [task EXCEPT ![id] = t],
         RowsStay, UNCHANGED <<usedKeys, strays>>
  PROVE  Inv'
<1> DEFINE key == upload[id].key
<1>1. /\ StoreTypes /\ KeysInv /\ AttemptsInv /\ BucketInv /\ StraysInv /\ LatestInv
  BY DEF Inv
<1>2. key \in Keys /\ key \in 1 .. usedKeys
  BY <1>1, KeysAreNumbers DEF StoreTypes, KeysInv, Keys
<1>3. /\ \A o \in Ids : Uploading(o)' = Uploading(o)
      /\ \A o \in Ids : upload'[o].key = upload[o].key
      /\ \A o \in Ids : o # id => upload'[o] = upload[o] /\ task'[o] = task[o]
      /\ \A o \in Ids : o # id /\ Uploading(o) => bucket'[upload[o].key] = bucket[upload[o].key]
      /\ upload'[id] = row /\ task'[id] = t /\ bucket'[key] = content
  BY <1>1, <1>2 DEF StoreTypes, KeysInv, Uploading
<1>4. \A i \in DOMAIN snapshot : snapshot[i].key # key /\ snapshot[i].key \in Keys /\ snapshot[i].id \in Ids
  BY <1>1, RowTypes DEF KeysInv
<1>5. /\ snapshot' = snapshot /\ pins' = pins
      /\ session'.latest = session.latest /\ DOMAIN session' = DOMAIN session
  BY DEF RowsStay
<1>6. StoreTypes'
  BY <1>1, <1>2, <1>5 DEF StoreTypes
<1>7. KeysInv'
  <2>1. \A k \in Keys : k > usedKeys => bucket'[k] = "none"
    BY <1>1, <1>2, KeysAreNumbers DEF StoreTypes, KeysInv
  <2>. QED BY <1>1, <1>3, <1>4, <1>5, <2>1 DEF KeysInv
<1>8. AttemptsInv'
  <2>1. ASSUME NEW o \in Ids, Uploading(o)'
        PROVE  Fits(upload[o], bucket[upload[o].key], task[o])'
    <3>1. CASE o = id
      BY <1>3, <3>1 DEF Fits
    <3>2. CASE o # id
      BY <1>1, <1>3, <2>1, <3>2 DEF AttemptsInv, Fits
    <3>. QED BY <3>1, <3>2
  <2>2. ASSUME NEW o \in Ids, ~Uploading(o)'
        PROVE  task'[o].pc \in RowPcs
    BY <1>1, <1>3, <2>2 DEF AttemptsInv
  <2>3. ASSUME NEW o \in Ids, At(o, "delete")'
        PROVE  HasRow(o, Key(o), "retired")'
    BY <1>1, <1>3, <1>5, <2>3 DEF AttemptsInv, At, HasRow, Key
  <2>. QED BY <2>1, <2>2, <2>3 DEF AttemptsInv
<1>9. BucketInv'
  <2>1. \A k \in Keys : k # key => bucket'[k] = bucket[k]
    BY <1>1, <1>2 DEF StoreTypes
  <2>2. ASSUME NEW k \in Keys, bucket'[k] # "none"
        PROVE  \/ \E i \in DOMAIN snapshot : snapshot[i].key = k
               \/ \E o \in Ids : Uploading(o)' /\ upload'[o].key = k
    BY <1>1, <1>3, <2>1, <2>2 DEF BucketInv
  <2>3. \A i \in DOMAIN snapshot : bucket'[snapshot[i].key] = bucket[snapshot[i].key]
    BY <1>4, <2>1
  <2>. QED BY <1>1, <1>5, <2>2, <2>3 DEF BucketInv
<1>10. StraysInv'
  BY <1>1, <1>3, <1>5 DEF StraysInv
<1>11. LatestInv'
  BY <1>1, RowsStayLatest
<1>. QED BY <1>6, <1>7, <1>8, <1>9, <1>10, <1>11 DEF Inv

\* An upload of which the bucket holds nothing is forgotten.
LEMMA UploadEnds ==
  ASSUME Inv, NEW id \in Ids, Uploading(id), bucket[upload[id].key] = "none",
         upload' = [upload EXCEPT ![id] = NoUpload],
         task' = [task EXCEPT ![id] = Idle],
         RowsStay, UNCHANGED <<bucket, usedKeys, strays>>
  PROVE  Inv'
<1>1. /\ StoreTypes /\ KeysInv /\ AttemptsInv /\ BucketInv /\ StraysInv /\ LatestInv
  BY DEF Inv
<1>2. NoUpload \in UploadRow /\ Idle \in Task
  BY DEF NoUpload, UploadRow, Task
<1>3. /\ ~Uploading(id)' /\ task'[id] = Idle
      /\ \A o \in Ids : Uploading(o)' => o # id /\ Uploading(o)
      /\ \A o \in Ids : o # id => upload'[o] = upload[o] /\ task'[o] = task[o] /\ Uploading(o)' = Uploading(o)
  BY <1>1 DEF StoreTypes, Uploading, NoUpload
<1>5. /\ snapshot' = snapshot /\ pins' = pins
      /\ session'.latest = session.latest /\ DOMAIN session' = DOMAIN session
  BY DEF RowsStay
<1>6. StoreTypes'
  BY <1>1, <1>2, <1>5 DEF StoreTypes
<1>7. KeysInv'
  BY <1>1, <1>3, <1>5, RowTypes DEF KeysInv
<1>8. AttemptsInv'
  <2>1. ASSUME NEW o \in Ids, Uploading(o)'
        PROVE  Fits(upload[o], bucket[upload[o].key], task[o])'
    BY <1>1, <1>3, <2>1 DEF AttemptsInv, Fits
  <2>2. ASSUME NEW o \in Ids, ~Uploading(o)'
        PROVE  task'[o].pc \in RowPcs
    BY <1>1, <1>3, <2>2 DEF AttemptsInv, RowPcs, Idle
  <2>3. ASSUME NEW o \in Ids, At(o, "delete")'
        PROVE  HasRow(o, Key(o), "retired")'
    BY <1>1, <1>3, <1>5, <2>3 DEF AttemptsInv, At, HasRow, Key, Idle
  <2>. QED BY <2>1, <2>2, <2>3 DEF AttemptsInv
<1>9. BucketInv'
  BY <1>1, <1>3, <1>5 DEF BucketInv
<1>10. StraysInv'
  BY <1>1, <1>3, <1>5 DEF StraysInv
<1>11. LatestInv'
  BY <1>1, RowsStayLatest
<1>. QED BY <1>6, <1>7, <1>8, <1>9, <1>10, <1>11 DEF Inv

\* A reservation is made on a key that nothing has used.
LEMMA UploadBegins ==
  ASSUME Inv, NEW id \in Ids, id \notin RowIds(snapshot),
         Uploading(id) => bucket[upload[id].key] = "none",
         usedKeys < MaxKeys,
         upload' = Prepared(id), usedKeys' = FreshKey,
         task' = [task EXCEPT ![id] = [pc |-> "probe", key |-> FreshKey]],
         RowsStay, UNCHANGED <<bucket, strays>>
  PROVE  Inv'
<1>1. /\ StoreTypes /\ KeysInv /\ AttemptsInv /\ BucketInv /\ StraysInv /\ LatestInv
  BY DEF Inv
<1> DEFINE row == [state |-> "preparing", key |-> FreshKey, expired |-> FALSE]
           t == [pc |-> "probe", key |-> FreshKey]
<1>2. /\ usedKeys \in Nat /\ FreshKey \in Keys /\ FreshKey \in Nat /\ FreshKey > usedKeys
      /\ 1 .. usedKeys \subseteq 1 .. FreshKey /\ FreshKey \in 1 .. FreshKey /\ FreshKey \notin 1 .. usedKeys
      /\ usedKeys' \in 0 .. MaxKeys
  BY <1>1, KeysAreNumbers DEF StoreTypes, FreshKey, Keys
<1>3. row \in UploadRow /\ t \in Task
  BY <1>2 DEF UploadRow, Expirable, Task, UploadPcs
<1>4. /\ upload' = [upload EXCEPT ![id] = row] /\ task' = [task EXCEPT ![id] = t]
  BY DEF Prepared
<1> HIDE DEF row, t
<1>5. /\ upload'[id] = row /\ task'[id] = t
      /\ \A o \in Ids : o # id => upload'[o] = upload[o] /\ task'[o] = task[o] /\ Uploading(o)' = Uploading(o)
  BY <1>1, <1>4 DEF StoreTypes, Uploading
<1>6. /\ row.state = "preparing" /\ row.key = FreshKey /\ t.pc = "probe" /\ t.key = FreshKey
      /\ Uploading(id)'
  BY <1>5 DEF row, t, Uploading
<1>7. /\ snapshot' = snapshot /\ pins' = pins
      /\ session'.latest = session.latest /\ DOMAIN session' = DOMAIN session
  BY DEF RowsStay
<1>8. bucket[FreshKey] = "none"
  BY <1>1, <1>2 DEF KeysInv
<1>9. \A i \in DOMAIN snapshot : snapshot[i].id # id
  BY DEF RowIds
<1>10. StoreTypes'
  BY <1>1, <1>2, <1>3, <1>4, <1>7 DEF StoreTypes
<1>11. KeysInv'
  <2>1. /\ \A o \in Ids : o # id /\ Uploading(o) => upload[o].key \in 1 .. usedKeys /\ upload[o].key # FreshKey
        /\ \A i \in DOMAIN snapshot : snapshot[i].key \in 1 .. usedKeys /\ snapshot[i].key # FreshKey
    BY <1>1, <1>2 DEF KeysInv
  <2>2. \A o \in Ids : Uploading(o)' => upload'[o].key \in 1 .. usedKeys'
    BY <1>2, <1>5, <1>6, <2>1
  <2>3. \A i \in DOMAIN snapshot : snapshot[i].key \in 1 .. usedKeys' /\ ~Uploading(snapshot[i].id)'
    <3>. SUFFICES ASSUME NEW i \in DOMAIN snapshot
                  PROVE  snapshot[i].key \in 1 .. usedKeys' /\ ~Uploading(snapshot[i].id)'
      OBVIOUS
    <3>1. snapshot[i].id \in Ids /\ snapshot[i].id # id
      BY <1>1, <1>9, RowTypes
    <3>2. ~Uploading(snapshot[i].id)'
      BY <1>1, <1>5, <1>7, <3>1 DEF KeysInv
    <3>. QED BY <1>2, <2>1, <3>2
  <2>4. \A k \in Keys : k > usedKeys' => k > usedKeys
    BY <1>2, KeysAreNumbers
  <2>5. \A s \in strays : s.key \in 1 .. usedKeys'
    BY <1>1, <1>2 DEF KeysInv
  <2>6. \A a, b \in Ids : Uploading(a)' /\ Uploading(b)' /\ a # b => upload'[a].key # upload'[b].key
    BY <1>1, <1>5, <1>6, <2>1 DEF KeysInv
  <2>7. \A o \in Ids, i \in DOMAIN snapshot : Uploading(o)' => upload'[o].key # snapshot[i].key
    BY <1>1, <1>5, <1>6, <2>1 DEF KeysInv
  <2>. QED BY <1>1, <1>7, <2>2, <2>3, <2>4, <2>5, <2>6, <2>7 DEF KeysInv
<1>12. AttemptsInv'
  <2>1. ASSUME NEW o \in Ids, Uploading(o)'
        PROVE  Fits(upload[o], bucket[upload[o].key], task[o])'
    <3>1. CASE o = id
      BY <1>5, <1>6, <1>8, <3>1 DEF Fits, Awaited
    <3>2. CASE o # id
      BY <1>1, <1>5, <2>1, <3>2 DEF AttemptsInv, Fits
    <3>. QED BY <3>1, <3>2
  <2>2. ASSUME NEW o \in Ids, ~Uploading(o)'
        PROVE  task'[o].pc \in RowPcs
    BY <1>1, <1>5, <1>6, <2>2 DEF AttemptsInv
  <2>3. ASSUME NEW o \in Ids, At(o, "delete")'
        PROVE  HasRow(o, Key(o), "retired")'
    BY <1>1, <1>5, <1>6, <1>7, <2>3 DEF AttemptsInv, At, HasRow, Key
  <2>. QED BY <2>1, <2>2, <2>3 DEF AttemptsInv
<1>13. BucketInv'
  BY <1>1, <1>5, <1>7 DEF BucketInv
<1>14. StraysInv'
  <2>1. \A s \in strays : s.key # FreshKey
    BY <1>1, <1>2 DEF KeysInv
  <2>. QED BY <1>1, <1>5, <1>6, <1>7, <2>1 DEF StraysInv
<1>15. LatestInv'
  BY <1>1, RowsStayLatest
<1>. QED BY <1>10, <1>11, <1>12, <1>13, <1>14, <1>15 DEF Inv

\* Operations are no longer awaited, and R2 may still perform some of them.
LEMMA TasksEnd ==
  ASSUME Inv, NEW S \in SUBSET UNION {Mutation(id) : id \in Ids},
         task' \in [Ids -> Task], \A id \in Ids : task'[id] \in {Idle, task[id]},
         strays' = strays \cup S,
         RowsStay, UNCHANGED <<upload, bucket, usedKeys>>
  PROVE  Inv'
<1>1. /\ StoreTypes /\ KeysInv /\ AttemptsInv /\ BucketInv /\ StraysInv /\ LatestInv
  BY DEF Inv
<1>2. /\ snapshot' = snapshot /\ pins' = pins
      /\ session'.latest = session.latest /\ DOMAIN session' = DOMAIN session
  BY DEF RowsStay
<1>3. \A s \in S : \E id \in Ids : s \in Mutation(id)
  OBVIOUS
<1>4. ASSUME NEW id \in Ids, NEW s \in Mutation(id)
      PROVE  /\ s \in [op : {"complete", "abort", "delete"}, key : Keys]
             /\ s.key = Key(id)
             /\ s.key \in 1 .. usedKeys
             /\ s.op = "delete" => task[id].pc \in {"delete", "cleanDelete"}
  <2>1. task[id].pc \in {"complete", "rejectAbort", "recoverAbort", "sweepAbort", "delete", "cleanDelete"}
    BY <1>4 DEF Mutation
  <2>2. /\ s = [op |-> s.op, key |-> Key(id)] /\ s.op \in {"complete", "abort", "delete"}
        /\ s.op = "delete" => task[id].pc \in {"delete", "cleanDelete"}
        /\ s.key = Key(id)
    BY <1>4 DEF Mutation
  <2>3. task[id] \in Task /\ task[id] # Idle
    BY <1>1, <2>1 DEF StoreTypes, Idle
  <2>4. Key(id) \in Keys
    BY <2>3 DEF Task, Key
  <2>5. Key(id) \in 1 .. usedKeys
    <3>1. CASE At(id, "delete")
      <4>1. PICK i \in DOMAIN snapshot : snapshot[i] = [id |-> id, key |-> Key(id), state |-> "retired"]
        BY <1>1, <3>1 DEF AttemptsInv, HasRow
      <4>. QED BY <1>1, <4>1 DEF KeysInv
    <3>2. CASE ~At(id, "delete")
      <4>1. task[id].pc \notin RowPcs
        BY <2>1, <3>2 DEF RowPcs, At
      <4>2. Uploading(id) /\ Key(id) = upload[id].key
        BY <1>1, <4>1 DEF AttemptsInv, Fits, Key
      <4>. QED BY <1>1, <4>2 DEF KeysInv
    <3>. QED BY <3>1, <3>2
  <2>. QED BY <2>2, <2>4, <2>5
<1>5. StoreTypes'
  BY <1>1, <1>2, <1>3, <1>4 DEF StoreTypes
<1>6. KeysInv'
  BY <1>1, <1>2, <1>3, <1>4 DEF KeysInv, Uploading
<1>7. AttemptsInv'
  <2>1. ASSUME NEW o \in Ids, Uploading(o)'
        PROVE  Fits(upload[o], bucket[upload[o].key], task[o])'
    <3>1. Fits(upload[o], bucket[upload[o].key], task[o])
      BY <1>1, <2>1 DEF AttemptsInv, Uploading
    <3>2. CASE task'[o] = Idle
      BY <3>1, <3>2 DEF Fits, Idle, RowPcs
    <3>3. CASE task'[o] = task[o]
      BY <3>1, <3>3 DEF Fits
    <3>. QED BY <3>2, <3>3
  <2>2. ASSUME NEW o \in Ids, ~Uploading(o)'
        PROVE  task'[o].pc \in RowPcs
    BY <1>1, <2>2 DEF AttemptsInv, RowPcs, Idle, Uploading
  <2>3. ASSUME NEW o \in Ids, At(o, "delete")'
        PROVE  HasRow(o, Key(o), "retired")'
    BY <1>1, <1>2, <2>3 DEF AttemptsInv, At, HasRow, Key, Idle
  <2>. QED BY <2>1, <2>2, <2>3 DEF AttemptsInv
<1>8. BucketInv'
  BY <1>1, <1>2 DEF BucketInv, Uploading
<1>9. StraysInv'
  <2>1. ASSUME NEW id \in Ids, NEW s \in Mutation(id), s.op = "delete"
        PROVE  /\ \A i \in DOMAIN snapshot : snapshot[i].state = "servable" => snapshot[i].key # s.key
               /\ \A o \in Ids : Uploading(o) /\ upload[o].key = s.key => upload[o].state \in {"retired", "aborted"}
    <3>1. s.key = Key(id) /\ task[id].pc \in {"delete", "cleanDelete"}
      BY <1>4, <2>1
    <3>2. CASE At(id, "delete")
      <4>1. PICK j \in DOMAIN snapshot : snapshot[j] = [id |-> id, key |-> Key(id), state |-> "retired"]
        BY <1>1, <3>2 DEF AttemptsInv, HasRow
      <4>2. snapshot[j].key = s.key /\ snapshot[j].state = "retired"
        BY <3>1, <4>1
      <4>. QED BY <1>1, <4>2 DEF KeysInv
    <3>3. CASE ~At(id, "delete")
      <4>1. task[id].pc = "cleanDelete"
        BY <3>1, <3>3 DEF At
      <4>2. Uploading(id) /\ Key(id) = upload[id].key /\ upload[id].state \in {"retired", "aborted"}
        BY <1>1, <4>1 DEF AttemptsInv, Fits, Key, RowPcs, Awaited
      <4>. QED BY <1>1, <3>1, <4>2 DEF KeysInv
    <3>. QED BY <3>2, <3>3
  <2>2. ASSUME NEW s \in strays', s.op = "delete"
        PROVE  /\ \A i \in DOMAIN snapshot : snapshot[i].state = "servable" => snapshot[i].key # s.key
               /\ \A o \in Ids : Uploading(o) /\ upload[o].key = s.key => upload[o].state \in {"retired", "aborted"}
    <3>1. CASE s \in strays
      BY <1>1, <2>2, <3>1 DEF StraysInv
    <3>2. CASE s \in S
      BY <1>3, <2>1, <2>2, <3>2
    <3>. QED BY <3>1, <3>2
  <2>. QED BY <1>2, <2>2 DEF StraysInv, Uploading
<1>10. LatestInv'
  BY <1>1, RowsStayLatest
<1>. QED BY <1>5, <1>6, <1>7, <1>8, <1>9, <1>10 DEF Inv

-----------------------------------------------------------------------------
(* The steps of an upload and of a job that cleans up *)

\* What a task's pc says of its upload.
LEMMA TaskFits ==
  ASSUME Inv, NEW id \in Ids, task[id].pc \notin RowPcs
  PROVE  /\ Uploading(id) /\ Key(id) = upload[id].key /\ upload[id].state \in Awaited(task[id].pc)
         /\ Fits(upload[id], bucket[Key(id)], task[id])
         /\ Key(id) \in Keys /\ bucket[Key(id)] \in Contents
         /\ upload[id] \in UploadRow /\ task[id] \in Task /\ task[id] # Idle
<1>1. Uploading(id) /\ Fits(upload[id], bucket[upload[id].key], task[id])
  BY DEF Inv, AttemptsInv
<1>2. Key(id) = upload[id].key /\ upload[id].state \in Awaited(task[id].pc)
  BY <1>1 DEF Fits, Key
<1>3. task[id] \in Task /\ upload[id] \in UploadRow /\ task[id] # Idle
  BY DEF Inv, StoreTypes, RowPcs, Idle
<1>4. Key(id) \in Keys
  BY <1>3 DEF Task, Key
<1>5. bucket[Key(id)] \in Contents
  BY <1>4 DEF Inv, StoreTypes
<1>. QED BY <1>1, <1>2, <1>3, <1>4, <1>5

\* A record that moves on keeps its key.
LEMMA MovedRow ==
  ASSUME NEW row \in UploadRow, NEW to \in {"uploading", "completing", "aborted", "uncertain", "completed", "retired"}
  PROVE  \E moved \in UploadRow :
            /\ moved = [row EXCEPT !.state = to, !.expired = @ /\ to \in Expirable]
            /\ moved.state = to /\ moved.key = row.key
<1> DEFINE moved == [row EXCEPT !.state = to, !.expired = @ /\ to \in Expirable]
<1>1. moved \in UploadRow /\ moved.state = to /\ moved.key = row.key
  BY DEF UploadRow, Expirable, Recoverable
<1>. QED BY <1>1

LEMMA MovesTo ==
  ASSUME StoreTypes, NEW id \in Ids, NEW key, NEW from,
         NEW to \in {"uploading", "completing", "aborted", "uncertain", "completed", "retired"},
         Holds(id, key, from)
  PROVE  \E moved \in UploadRow :
            /\ Moved(id, key, from, to) = [upload EXCEPT ![id] = moved]
            /\ moved.state = to /\ moved.key = upload[id].key
<1>1. upload[id] \in UploadRow
  BY DEF StoreTypes
<1>2. PICK moved \in UploadRow :
            /\ moved = [upload[id] EXCEPT !.state = to, !.expired = @ /\ to \in Expirable]
            /\ moved.state = to /\ moved.key = upload[id].key
  BY <1>1, MovedRow
<1>3. [upload EXCEPT ![id].state = to, ![id].expired = @ /\ to \in Expirable] = [upload EXCEPT ![id] = moved]
  BY <1>2 DEF StoreTypes
<1>. QED BY <1>2, <1>3 DEF Moved

\* The task goes on to another operation of the same attempt, or ends.
LEMMA NextTask ==
  ASSUME Inv, NEW id \in Ids, task[id].pc \notin RowPcs,
         NEW pc \in UploadPcs \cup MaintenancePcs,
         task' = [task EXCEPT ![id].pc = pc]
  PROVE  \E t \in Task : task' = [task EXCEPT ![id] = t] /\ t.pc = pc /\ t.key = Key(id)
<1> DEFINE t == [pc |-> pc, key |-> Key(id)]
<1>1. Key(id) \in Keys /\ task[id] \in Task /\ task[id] # Idle
  BY TaskFits
<1>2. task[id] = [pc |-> task[id].pc, key |-> task[id].key]
  BY <1>1 DEF Task
<1>3. [task[id] EXCEPT !.pc = pc] = t
  BY <1>2 DEF Key
<1>4. task' = [task EXCEPT ![id] = t]
  BY <1>3
<1>5. t \in Task /\ t.pc = pc /\ t.key = Key(id)
  BY <1>1 DEF Task
<1>. HIDE DEF t
<1>. QED BY <1>4, <1>5

LEMMA IdleIsTask == Idle \in Task /\ Idle.pc = "idle" /\ Idle.pc \in RowPcs
  BY DEF Task, Idle, RowPcs

LEMMA ProbeInv ==
  ASSUME Inv, NEW id \in Ids, Probe(id) PROVE Inv'
<1>1. At(id, "probe") /\ task[id].pc \notin RowPcs
  BY DEF Probe, At, RowPcs
<1>2. /\ Uploading(id) /\ Key(id) = upload[id].key /\ upload[id].state = "preparing"
      /\ bucket[Key(id)] = "none" /\ upload[id] \in UploadRow
  BY <1>1, TaskFits DEF At, Awaited, Fits
<1>3. /\ upload' = upload /\ task' = [task EXCEPT ![id].pc = "create"]
  BY <1>2 DEF Probe, Stored, Becomes
<1>4. PICK t \in Task : task' = [task EXCEPT ![id] = t] /\ t.pc = "create" /\ t.key = Key(id)
  BY <1>1, <1>3, NextTask DEF UploadPcs
<1>5. RowsStay /\ UNCHANGED <<usedKeys, strays, bucket>>
  BY DEF Probe, RowsStay, keptByUpload
<1>6. Fits(upload[id], "none", t)
  BY <1>2, <1>4 DEF Fits, Awaited
<1>7. upload' = [upload EXCEPT ![id] = upload[id]] /\ bucket' = [bucket EXCEPT ![upload[id].key] = "none"]
  BY <1>2, <1>3, <1>5 DEF Inv, StoreTypes
<1>. QED BY <1>2, <1>4, <1>5, <1>6, <1>7, UploadMoves DEF Uploading, Contents

LEMMA CreateInv ==
  ASSUME Inv, NEW id \in Ids, Create(id) PROVE Inv'
<1>1. At(id, "create") /\ task[id].pc \notin RowPcs
  BY DEF Create, At, RowPcs
<1>2. /\ Uploading(id) /\ Key(id) = upload[id].key /\ upload[id].state = "preparing"
      /\ upload[id] \in UploadRow
  BY <1>1, TaskFits DEF At, Awaited, Fits
<1>3. Holds(id, Key(id), {"preparing"})
  BY <1>2 DEF Holds
<1>4. PICK moved \in UploadRow :
          upload' = [upload EXCEPT ![id] = moved] /\ moved.state = "uploading" /\ moved.key = upload[id].key
  BY <1>3, MovesTo, SMTT(30) DEF Create, MultipartCreated, Inv
<1>5. PICK t \in Task : /\ task' = [task EXCEPT ![id] = t]
                        /\ t.pc \in {"idle", "part"} /\ (t.pc = "part" => t.key = Key(id))
  <2>1. CASE task' = [task EXCEPT ![id].pc = "part"]
    BY <1>1, <2>1, NextTask, ZenonT(60) DEF UploadPcs
  <2>2. CASE task' = [task EXCEPT ![id] = Idle]
    BY <2>2, IdleIsTask
  <2>. QED BY <2>1, <2>2 DEF Create, Becomes, Answered
<1>6. RowsStay /\ UNCHANGED <<usedKeys, strays>> /\ bucket' = [bucket EXCEPT ![upload[id].key] = "open"]
  BY <1>2 DEF Create, RowsStay, keptByUpload, Puts
<1>7. Fits(moved, "open", t) /\ t.pc # "delete"
  BY <1>2, <1>4, <1>5 DEF Fits, Awaited, RowPcs
<1>. QED BY <1>2, <1>4, <1>5, <1>6, <1>7, UploadMoves DEF Uploading, Contents

\* The task is answered, and nothing else changes of what the invariant is about.
LEMMA TaskEnds ==
  ASSUME Inv, NEW id \in Ids, task' = [task EXCEPT ![id] = Idle],
         RowsStay, UNCHANGED <<upload, bucket, usedKeys, strays>>
  PROVE  Inv'
<1>1. task' \in [Ids -> Task] /\ \A o \in Ids : task'[o] \in {Idle, task[o]}
  BY IdleIsTask DEF Inv, StoreTypes
<1>2. strays' = strays \cup {} /\ {} \in SUBSET UNION {Mutation(o) : o \in Ids}
  OBVIOUS
<1>. QED BY <1>1, <1>2, TasksEnd

\* What is left alone.
LEMMA Unchanged ==
  ASSUME Inv, NEW id \in Ids, Uploading(id)
  PROVE  /\ upload = [upload EXCEPT ![id] = upload[id]]
         /\ bucket = [bucket EXCEPT ![upload[id].key] = bucket[upload[id].key]]
  BY DEF Inv, StoreTypes

LEMMA UploadPartInv ==
  ASSUME Inv, NEW id \in Ids, UploadPart(id) PROVE Inv'
<1>1. At(id, "part") /\ task[id].pc \notin RowPcs
  BY DEF UploadPart, At, RowPcs
<1>2. /\ Uploading(id) /\ Key(id) = upload[id].key /\ upload[id].state = "uploading"
      /\ upload[id] \in UploadRow /\ bucket[Key(id)] \in Contents
  BY <1>1, TaskFits DEF At, Awaited
<1>3. Holds(id, Key(id), {"uploading"})
  BY <1>2 DEF Holds
<1>4. RowsStay /\ UNCHANGED <<usedKeys, strays, bucket>>
  BY DEF UploadPart, RowsStay
<1>5. bucket' = [bucket EXCEPT ![upload[id].key] = bucket[Key(id)]]
  BY <1>2, <1>4, Unchanged
<1>6. CASE upload' = MultipartCompleting(id, Key(id)) /\ task' = [task EXCEPT ![id].pc = "complete"]
  <2>1. PICK moved \in UploadRow :
            upload' = [upload EXCEPT ![id] = moved] /\ moved.state = "completing" /\ moved.key = upload[id].key
    <3>1. StoreTypes /\ upload' = Moved(id, Key(id), {"uploading"}, "completing")
      BY <1>6 DEF MultipartCompleting, Inv
    <3>. QED BY <1>3, <3>1, MovesTo, SMTT(30)
  <2>2. PICK t \in Task : task' = [task EXCEPT ![id] = t] /\ t.pc = "complete" /\ t.key = Key(id)
    BY <1>1, <1>6, NextTask DEF UploadPcs
  <2>3. Fits(moved, bucket[Key(id)], t)
    BY <1>2, <2>1, <2>2 DEF Fits, Awaited
  <2>. QED BY <1>2, <1>4, <1>5, <2>1, <2>2, <2>3, UploadMoves
<1>7. CASE upload' = upload /\ task' = [task EXCEPT ![id].pc = "rejectAbort"]
  <2>1. upload' = [upload EXCEPT ![id] = upload[id]]
    BY <1>2, <1>7, Unchanged
  <2>2. PICK t \in Task : task' = [task EXCEPT ![id] = t] /\ t.pc = "rejectAbort" /\ t.key = Key(id)
    BY <1>1, <1>7, NextTask DEF UploadPcs
  <2>3. Fits(upload[id], bucket[Key(id)], t)
    BY <1>2, <2>2 DEF Fits, Awaited
  <2>. QED BY <1>2, <1>4, <1>5, <2>1, <2>2, <2>3, UploadMoves
<1>. QED BY <1>3, <1>6, <1>7 DEF UploadPart, Becomes

LEMMA CompleteInv ==
  ASSUME Inv, NEW id \in Ids, Complete(id) PROVE Inv'
<1>1. At(id, "complete") /\ task[id].pc \notin RowPcs
  BY DEF Complete, At, RowPcs
<1>2. /\ Uploading(id) /\ Key(id) = upload[id].key /\ upload[id].state = "completing"
      /\ upload[id] \in UploadRow
  BY <1>1, TaskFits DEF At, Awaited
<1>3. RowsStay /\ UNCHANGED <<usedKeys, strays, upload>>
  BY DEF Complete, RowsStay, storeVars, keptByUpload
<1>4. CASE Open(id)
  <2>1. upload' = [upload EXCEPT ![id] = upload[id]] /\ bucket' = [bucket EXCEPT ![upload[id].key] = "stored"]
    BY <1>2, <1>3, <1>4, Unchanged DEF Complete, Puts
  <2>2. PICK t \in Task : task' = [task EXCEPT ![id] = t] /\ t.pc = "confirm" /\ t.key = Key(id)
    BY <1>1, <1>4, NextTask DEF Complete, Becomes, UploadPcs
  <2>3. Fits(upload[id], "stored", t)
    BY <1>2, <2>2 DEF Fits, Awaited
  <2>. QED BY <1>2, <1>3, <2>1, <2>2, <2>3, UploadMoves DEF Contents
<1>5. CASE ~Open(id)
  BY <1>3, <1>5, TaskEnds DEF Complete, Answered
<1>. QED BY <1>4, <1>5

\* An attempt that is aborted while its multipart upload is open.
LEMMA AbortInv ==
  ASSUME Inv, NEW id \in Ids,
         task[id].pc \in {"rejectAbort", "recoverAbort", "sweepAbort"},
         NEW pc \in {"rejectHead", "restartHead", "cleanHead"},
         Puts(id, "none"), upload' = MultipartAborted(id, Key(id)), task' = [task EXCEPT ![id].pc = pc],
         RowsStay, UNCHANGED <<usedKeys, strays>>
  PROVE  Inv'
<1>1. task[id].pc \notin RowPcs /\ pc \in UploadPcs \cup MaintenancePcs
  BY DEF RowPcs, UploadPcs, MaintenancePcs
<1>2. /\ Uploading(id) /\ Key(id) = upload[id].key /\ upload[id].state \in {"uploading", "completing"}
      /\ upload[id] \in UploadRow
  BY <1>1, TaskFits DEF Awaited
<1>3. PICK moved \in UploadRow :
          upload' = [upload EXCEPT ![id] = moved] /\ moved.state = "aborted" /\ moved.key = upload[id].key
  <2> DEFINE from == {"uploading", "completing", "uncertain"}
  <2>1. StoreTypes /\ upload' = Moved(id, Key(id), from, "aborted")
    BY DEF MultipartAborted, Inv
  <2>2. Holds(id, Key(id), from)
    BY <1>2 DEF Holds
  <2> HIDE DEF from
  <2>. QED BY <2>1, <2>2, MovesTo
<1>4. PICK t \in Task : task' = [task EXCEPT ![id] = t] /\ t.pc = pc /\ t.key = Key(id)
  BY <1>1, NextTask
<1>5. Fits(moved, "none", t)
  BY <1>2, <1>3, <1>4 DEF Fits, Awaited
<1>6. bucket' = [bucket EXCEPT ![upload[id].key] = "none"]
  BY <1>2 DEF Puts
<1>. QED BY <1>2, <1>3, <1>4, <1>5, <1>6, UploadMoves DEF Contents

LEMMA RejectAbortInv ==
  ASSUME Inv, NEW id \in Ids, RejectAbort(id) PROVE Inv'
<1>1. RowsStay /\ UNCHANGED <<usedKeys, strays>> /\ task[id].pc = "rejectAbort"
  BY DEF RejectAbort, RowsStay, keptByUpload, At
<1>2. CASE Open(id)
  BY <1>1, <1>2, AbortInv DEF RejectAbort, Becomes
<1>3. CASE ~Open(id)
  BY <1>1, <1>3, TaskEnds DEF RejectAbort, Answered
<1>. QED BY <1>2, <1>3

\* The abort was refused: nothing is open under the key.
LEMMA SettlesInv ==
  ASSUME Inv, NEW id \in Ids,
         task[id].pc \in {"recoverAbort", "sweepAbort"}, ~Open(id),
         NEW pc \in {"settle", "sweepSettle"}, task' = [task EXCEPT ![id].pc = pc],
         RowsStay, UNCHANGED <<usedKeys, strays, upload, bucket>>
  PROVE  Inv'
<1>1. task[id].pc \notin RowPcs /\ pc \in UploadPcs \cup MaintenancePcs
  BY DEF RowPcs, UploadPcs, MaintenancePcs
<1>2. /\ Uploading(id) /\ Key(id) = upload[id].key /\ upload[id].state \in {"uploading", "completing"}
      /\ upload[id] \in UploadRow /\ bucket[Key(id)] \in Contents
  BY <1>1, TaskFits DEF Awaited
<1>3. PICK t \in Task : task' = [task EXCEPT ![id] = t] /\ t.pc = pc /\ t.key = Key(id)
  BY <1>1, NextTask
<1>4. Fits(upload[id], bucket[Key(id)], t)
  BY <1>2, <1>3 DEF Fits, Awaited, Open
<1>5. /\ upload' = [upload EXCEPT ![id] = upload[id]]
      /\ bucket' = [bucket EXCEPT ![upload[id].key] = bucket[Key(id)]]
  BY <1>2, Unchanged
<1>. QED BY <1>2, <1>3, <1>4, <1>5, UploadMoves, ZenonT(60)

LEMMA RecoverAbortInv ==
  ASSUME Inv, NEW id \in Ids, RecoverAbort(id) PROVE Inv'
<1>1. RowsStay /\ UNCHANGED <<usedKeys, strays>> /\ task[id].pc = "recoverAbort"
  BY DEF RecoverAbort, RowsStay, keptByUpload, At
<1>2. CASE Open(id)
  BY <1>1, <1>2, AbortInv DEF RecoverAbort, Becomes
<1>3. CASE ~Open(id)
  BY <1>1, <1>3, SettlesInv DEF RecoverAbort, Becomes
<1>. QED BY <1>2, <1>3

LEMMA SweepAbortInv ==
  ASSUME Inv, NEW id \in Ids, SweepAbort(id) PROVE Inv'
<1>1. RowsStay /\ UNCHANGED <<usedKeys, strays>> /\ task[id].pc = "sweepAbort"
  BY DEF SweepAbort, RowsStay, keptByUpload, At
<1>2. CASE Open(id)
  BY <1>1, <1>2, AbortInv DEF SweepAbort, Becomes
<1>3. CASE ~Open(id)
  BY <1>1, <1>3, SettlesInv DEF SweepAbort, Becomes
<1>. QED BY <1>2, <1>3

LEMMA CleanHeadInv ==
  ASSUME Inv, NEW id \in Ids, CleanHead(id) PROVE Inv'
<1> DEFINE pc == IF Stored(id) THEN "cleanDelete" ELSE "cleanCheck"
<1>1. At(id, "cleanHead") /\ task[id].pc \notin RowPcs /\ pc \in UploadPcs \cup MaintenancePcs
  BY DEF CleanHead, At, RowPcs, MaintenancePcs
<1>2. /\ Uploading(id) /\ Key(id) = upload[id].key /\ upload[id].state \in {"retired", "aborted"}
      /\ upload[id] \in UploadRow /\ bucket[Key(id)] \in Contents /\ bucket[Key(id)] # "open"
  BY <1>1, TaskFits DEF At, Awaited, Fits
<1>3. RowsStay /\ UNCHANGED <<usedKeys, strays, upload, bucket>>
  BY DEF CleanHead, RowsStay, storeVars, keptByUpload
<1>4. task' = [task EXCEPT ![id].pc = pc]
  BY DEF CleanHead, Becomes
<1>5. pc \in {"cleanDelete", "cleanCheck"}
  OBVIOUS
<1> HIDE DEF pc
<1>6. PICK t \in Task : task' = [task EXCEPT ![id] = t] /\ t.pc = pc /\ t.key = Key(id)
  BY <1>1, <1>4, NextTask
<1>7. Fits(upload[id], bucket[Key(id)], t) /\ t.pc # "delete"
  BY <1>2, <1>5, <1>6 DEF Fits, Awaited
<1>8. /\ upload' = [upload EXCEPT ![id] = upload[id]]
      /\ bucket' = [bucket EXCEPT ![upload[id].key] = bucket[Key(id)]]
  BY <1>2, <1>3, Unchanged
<1>. QED BY <1>2, <1>3, <1>6, <1>7, <1>8, UploadMoves

LEMMA CleanDeleteInv ==
  ASSUME Inv, NEW id \in Ids, CleanDelete(id) PROVE Inv'
<1>1. At(id, "cleanDelete") /\ task[id].pc \notin RowPcs
  BY DEF CleanDelete, At, RowPcs
<1>2. /\ Uploading(id) /\ Key(id) = upload[id].key /\ upload[id].state \in {"retired", "aborted"}
      /\ upload[id] \in UploadRow
  BY <1>1, TaskFits DEF At, Awaited, Fits
<1>3. RowsStay /\ UNCHANGED <<usedKeys, strays, upload>>
  BY DEF CleanDelete, RowsStay, storeVars, keptByUpload
<1>4. PICK t \in Task : task' = [task EXCEPT ![id] = t] /\ t.pc = "cleanCheck" /\ t.key = Key(id)
  BY <1>1, NextTask DEF CleanDelete, Becomes, MaintenancePcs
<1>5. Fits(upload[id], "none", t)
  BY <1>2, <1>4 DEF Fits, Awaited
<1>6. upload' = [upload EXCEPT ![id] = upload[id]] /\ bucket' = [bucket EXCEPT ![upload[id].key] = "none"]
  BY <1>2, <1>3, Unchanged DEF CleanDelete, Puts
<1>. QED BY <1>2, <1>3, <1>4, <1>5, <1>6, UploadMoves DEF Contents

\* The record of an attempt of which the bucket holds nothing is deleted.
LEMMA DeletedInv ==
  ASSUME Inv, NEW id \in Ids,
         task[id].pc \in {"rejectHead", "cleanCheck"},
         \/ Stored(id) /\ upload' = upload
         \/ ~Stored(id) /\ upload' = [upload EXCEPT ![id] = NoUpload],
         task' = [task EXCEPT ![id] = Idle],
         RowsStay, UNCHANGED <<bucket, usedKeys, strays>>
  PROVE  Inv'
<1>1. task[id].pc \notin RowPcs
  BY DEF RowPcs
<1>2. /\ Uploading(id) /\ Key(id) = upload[id].key
      /\ bucket[Key(id)] \in Contents /\ bucket[Key(id)] # "open"
  BY <1>1, TaskFits DEF Awaited, Fits
<1>3. CASE Stored(id) /\ upload' = upload
  BY <1>3, TaskEnds
<1>4. CASE ~Stored(id) /\ upload' = [upload EXCEPT ![id] = NoUpload]
  <2>1. bucket[upload[id].key] = "none"
    BY <1>2, <1>4 DEF Stored, Contents
  <2>. QED BY <1>2, <1>4, <2>1, UploadEnds
<1>. QED BY <1>3, <1>4

LEMMA RejectHeadInv ==
  ASSUME Inv, NEW id \in Ids, RejectHead(id) PROVE Inv'
<1>1. RowsStay /\ UNCHANGED <<bucket, usedKeys, strays>> /\ task[id].pc = "rejectHead"
  BY DEF RejectHead, RowsStay, keptByUpload, At
<1>2. Holds(id, Key(id), {"aborted"})
  BY <1>1, TaskFits DEF RowPcs, Awaited, Holds
<1>3. /\ \/ Stored(id) /\ upload' = upload
         \/ ~Stored(id) /\ upload' = [upload EXCEPT ![id] = NoUpload]
      /\ task' = [task EXCEPT ![id] = Idle]
  BY <1>2 DEF RejectHead, Answered, Deleted
<1>. QED BY <1>1, <1>3, DeletedInv

LEMMA CleanCheckInv ==
  ASSUME Inv, NEW id \in Ids, CleanCheck(id) PROVE Inv'
<1>1. RowsStay /\ UNCHANGED <<bucket, usedKeys, strays>> /\ task[id].pc = "cleanCheck"
  BY DEF CleanCheck, RowsStay, At
<1>2. Holds(id, Key(id), {"retired", "aborted"})
  BY <1>1, TaskFits DEF RowPcs, Awaited, Holds
<1>3. /\ \/ Stored(id) /\ upload' = upload
         \/ ~Stored(id) /\ upload' = [upload EXCEPT ![id] = NoUpload]
      /\ task' = [task EXCEPT ![id] = Idle]
  BY <1>2 DEF CleanCheck, Finished, Deleted
<1>. QED BY <1>1, <1>3, DeletedInv

LEMMA RestartHeadInv ==
  ASSUME Inv, NEW id \in Ids, RestartHead(id) PROVE Inv'
<1>1. At(id, "restartHead") /\ task[id].pc \notin RowPcs
  BY DEF RestartHead, At, RowPcs
<1>2. /\ Uploading(id) /\ Key(id) = upload[id].key
      /\ bucket[Key(id)] \in Contents /\ bucket[Key(id)] # "open"
  BY <1>1, TaskFits DEF At, Awaited, Fits
<1>3. RowsStay /\ UNCHANGED <<bucket, strays>>
  BY DEF RestartHead, RowsStay, keptByUpload
<1>4. CASE ~Stored(id) /\ Holds(id, Key(id), {"aborted"})
  <2>1. bucket[upload[id].key] = "none"
    BY <1>2, <1>4 DEF Stored, Contents
  <2>2. id \notin RowIds(snapshot)
    BY <1>2 DEF Inv, KeysInv, RowIds
  <2>. QED BY <1>3, <1>4, <2>1, <2>2, UploadBegins DEF RestartHead
<1>5. CASE ~(~Stored(id) /\ Holds(id, Key(id), {"aborted"}))
  <2>1. task' = [task EXCEPT ![id] = Idle] /\ UNCHANGED <<upload, usedKeys>>
    BY <1>5 DEF RestartHead, Answered
  <2>. QED BY <1>3, <2>1, TaskEnds
<1>. QED BY <1>4, <1>5

\* An attempt whose upload is no longer open ends completed or uncertain.
LEMMA SettledInv ==
  ASSUME Inv, NEW id \in Ids,
         task[id].pc \in {"settle", "sweepSettle"}, NEW to \in {"completed", "uncertain"},
         NEW from, upload[id].state \in from,
         upload' = Moved(id, Key(id), from, to), task' = [task EXCEPT ![id] = Idle],
         RowsStay, UNCHANGED <<bucket, usedKeys, strays>>
  PROVE  Inv'
<1>1. task[id].pc \notin RowPcs
  BY DEF RowPcs
<1>2. /\ Uploading(id) /\ Key(id) = upload[id].key /\ upload[id].state \in {"uploading", "completing"}
      /\ bucket[Key(id)] \in Contents /\ bucket[Key(id)] # "open"
  BY <1>1, TaskFits DEF Awaited, Fits
<1>3. PICK moved \in UploadRow :
          upload' = [upload EXCEPT ![id] = moved] /\ moved.state = to /\ moved.key = upload[id].key
  <2>1. StoreTypes /\ Holds(id, Key(id), from)
    BY <1>2 DEF Inv, Holds
  <2>. QED BY <2>1, MovesTo
<1>4. Fits(moved, bucket[Key(id)], Idle)
  BY <1>2, <1>3, IdleIsTask DEF Fits
<1>5. bucket' = [bucket EXCEPT ![upload[id].key] = bucket[Key(id)]]
  BY <1>2, Unchanged
<1>6. Idle \in Task /\ Idle.pc # "delete"
  BY IdleIsTask
<1>. QED BY <1>2, <1>3, <1>4, <1>5, <1>6, UploadMoves

LEMMA SweepSettleInv ==
  ASSUME Inv, NEW id \in Ids, SweepSettle(id) PROVE Inv'
<1>1. RowsStay /\ UNCHANGED <<bucket, usedKeys, strays>> /\ task[id].pc = "sweepSettle"
  BY DEF SweepSettle, RowsStay, keptByUpload, At
<1>2. upload[id].state \in {"uploading", "completing"} /\ Key(id) = upload[id].key
  BY <1>1, TaskFits DEF RowPcs, Awaited
<1>3. task' = [task EXCEPT ![id] = Idle]
  BY DEF SweepSettle, Finished
<1>4. CASE Stored(id) /\ Holds(id, Key(id), {"completing"})
  <2>1. /\ upload' = Moved(id, Key(id), {"completing", "uncertain", "completed"}, "completed")
        /\ upload[id].state \in {"completing", "uncertain", "completed"}
    BY <1>4 DEF SweepSettle, MultipartCompleted, Holds
  <2>. QED BY <1>1, <1>3, <2>1, SettledInv
<1>5. CASE ~(Stored(id) /\ Holds(id, Key(id), {"completing"}))
  <2>1. /\ upload' = Moved(id, Key(id), {"uploading", "completing", "uncertain"}, "uncertain")
        /\ upload[id].state \in {"uploading", "completing", "uncertain"}
    BY <1>2, <1>5 DEF SweepSettle, MultipartUncertain
  <2>. QED BY <1>1, <1>3, <2>1, SettledInv
<1>. QED BY <1>4, <1>5

LEMMA ExpireInv ==
  ASSUME Inv, NEW id \in Ids, Expire(id) PROVE Inv'
<1> DEFINE row == [upload[id] EXCEPT !.expired = TRUE]
<1>1. upload[id] \in UploadRow /\ task[id] \in Task
  BY DEF Inv, StoreTypes
<1>2. Uploading(id)
  BY DEF Expire, Expirable, Uploading
<1>3. row \in UploadRow /\ row.state = upload[id].state /\ row.key = upload[id].key
  BY <1>1 DEF UploadRow
<1>4. upload' = [upload EXCEPT ![id] = row]
  BY DEF Expire
<1> HIDE DEF row
<1>5. Fits(upload[id], bucket[upload[id].key], task[id]) /\ task[id].pc # "delete"
  <2>1. Fits(upload[id], bucket[upload[id].key], task[id])
    BY <1>2 DEF Inv, AttemptsInv
  <2>2. ASSUME task[id].pc = "delete" PROVE FALSE
    <3>1. PICK i \in DOMAIN snapshot : snapshot[i].id = id
      BY <2>2 DEF Inv, AttemptsInv, At, HasRow
    <3>. QED BY <1>2, <3>1 DEF Inv, KeysInv
  <2>. QED BY <2>1, <2>2
<1>6. Fits(row, bucket[upload[id].key], task[id])
  BY <1>3, <1>5 DEF Fits
<1>7. bucket' = [bucket EXCEPT ![upload[id].key] = bucket[upload[id].key]] /\ task' = [task EXCEPT ![id] = task[id]]
  BY <1>2, Unchanged DEF Expire, volatileVars, Inv, StoreTypes
<1>8. RowsStay /\ UNCHANGED <<usedKeys, strays>>
  BY DEF Expire, RowsStay
<1>9. bucket[upload[id].key] \in Contents
  BY <1>2, KeysAreNumbers DEF Inv, StoreTypes, KeysInv, Keys
<1>. QED BY <1>1, <1>2, <1>3, <1>4, <1>5, <1>6, <1>7, <1>8, <1>9, UploadMoves DEF Uploading

-----------------------------------------------------------------------------
(* Requests, failures, pins and late operations *)

LEMMA KeyOfRowIsIts ==
  ASSUME StoreTypes, NEW id \in RowIds(snapshot)
  PROVE  /\ KeyOfRow(id) \in Keys
         /\ \E i \in DOMAIN snapshot : snapshot[i].id = id /\ snapshot[i].key = KeyOfRow(id)
<1> DEFINE P(key) == \E i \in DOMAIN snapshot : snapshot[i].id = id /\ snapshot[i].key = key
<1>1. \E key \in Keys : P(key)
  BY RowTypes DEF RowIds
<1>2. KeyOfRow(id) = CHOOSE key \in Keys : P(key)
  BY DEF KeyOfRow
<1> HIDE DEF P
<1>3. KeyOfRow(id) \in Keys /\ P(KeyOfRow(id))
  BY <1>1, <1>2
<1>. QED BY <1>3 DEF P

\* A task about the row of a servable snapshot starts.
LEMMA VerifyStarts ==
  ASSUME Inv, NEW id \in Ids, ~Uploading(id), NEW t \in Task, t.pc = "verifyPublished",
         task' = [task EXCEPT ![id] = t],
         RowsStay, UNCHANGED <<upload, bucket, usedKeys, strays>>
  PROVE  Inv'
<1>1. /\ StoreTypes /\ KeysInv /\ AttemptsInv /\ BucketInv /\ StraysInv /\ LatestInv
  BY DEF Inv
<1>2. /\ snapshot' = snapshot /\ pins' = pins
      /\ session'.latest = session.latest /\ DOMAIN session' = DOMAIN session
  BY DEF RowsStay
<1>3. /\ task'[id] = t /\ \A o \in Ids : o # id => task'[o] = task[o]
      /\ \A o \in Ids : Uploading(o)' = Uploading(o) /\ (Uploading(o) => o # id)
  BY <1>1 DEF StoreTypes, Uploading
<1>4. StoreTypes'
  BY <1>1, <1>2 DEF StoreTypes
<1>5. KeysInv'
  BY <1>1, <1>2 DEF KeysInv, Uploading
<1>6. AttemptsInv'
  <2>1. ASSUME NEW o \in Ids, Uploading(o)'
        PROVE  Fits(upload[o], bucket[upload[o].key], task[o])'
    BY <1>1, <1>3, <2>1 DEF AttemptsInv, Fits
  <2>2. \A o \in Ids : ~Uploading(o)' => task'[o].pc \in RowPcs
    BY <1>1, <1>3 DEF AttemptsInv, RowPcs
  <2>3. \A o \in Ids : At(o, "delete")' => HasRow(o, Key(o), "retired")'
    BY <1>1, <1>2, <1>3 DEF AttemptsInv, At, HasRow, Key
  <2>. QED BY <2>1, <2>2, <2>3 DEF AttemptsInv
<1>7. BucketInv'
  BY <1>1, <1>2 DEF BucketInv, Uploading
<1>8. StraysInv'
  BY <1>1, <1>2 DEF StraysInv, Uploading
<1>9. LatestInv'
  BY <1>1, RowsStayLatest
<1>. QED BY <1>4, <1>5, <1>6, <1>7, <1>8, <1>9 DEF Inv

LEMMA RequestUploadInv ==
  ASSUME Inv, NEW id \in Ids, RequestUpload(id) PROVE Inv'
<1> DEFINE pc == Continuation(id)
<1>1. /\ StoreTypes /\ KeysInv /\ AttemptsInv
  BY DEF Inv
<1>2. task[id] = Idle /\ UNCHANGED <<pins, bucket, strays>>
  BY DEF RequestUpload
<1>3. upload[id] \in UploadRow
  BY <1>1 DEF StoreTypes
<1>4. CASE pc = "idle"
  <2>1. task' \in [Ids -> Task] /\ task' = task
    BY <1>1, <1>4 DEF RequestUpload, StoreTypes
  <2>2. RowsStay /\ UNCHANGED <<upload, usedKeys>> /\ strays' = strays \cup {}
    BY <1>2, <1>4 DEF RequestUpload, RowsStay, storeVars
  <2>3. {} \in SUBSET UNION {Mutation(o) : o \in Ids}
    OBVIOUS
  <2>. QED BY <1>2, <2>1, <2>2, <2>3, TasksEnd
<1>5. CASE pc # "idle"
  <2>3. Uploading(id) <=> id \in Uploads
    BY DEF Uploads, Uploading
  <2>4. id \in RowIds(snapshot) => ~Uploading(id)
    BY <1>1 DEF KeysInv, RowIds
  <2>5. Servable(snapshot) \subseteq RowIds(snapshot)
    BY DEF Servable, RowIds
  <2>8. /\ id \in Servable(snapshot) => pc = "verifyPublished"
        /\ id \notin Servable(snapshot) =>
              id \notin RowIds(snapshot) /\ upload[id].state \notin {"preparing", "retired"}
        /\ pc = "probe" => id \notin Uploads
    BY <1>3, <1>5, <2>3, <2>4, <2>5 DEF Continuation, Uploading, UploadRow, Expirable, Recoverable
  <2>1. /\ pc = "probe" => usedKeys < MaxKeys
        /\ task' = [task EXCEPT ![id] = [pc |-> pc, key |-> KeyToContinue(id)]]
        /\ pc = "probe" => upload' = Prepared(id) /\ usedKeys' = FreshKey
        /\ pc # "probe" => usedKeys' = usedKeys
        /\ pc # "probe" /\ id \in Uploads => upload' = [upload EXCEPT ![id].expired = FALSE]
        /\ pc # "probe" /\ id \notin Uploads => upload' = upload
        /\ UNCHANGED <<snapshot, session>>
    BY <1>5, <2>8 DEF RequestUpload
  <2>2. RowsStay
    BY <1>2, <2>1 DEF RowsStay
  <2>6. CASE id \in Servable(snapshot)
    <3>1. pc = "verifyPublished"
      BY <2>6, <2>8
    <3>2. KeyToContinue(id) = KeyOfRow(id) /\ KeyOfRow(id) \in Keys
      BY <1>1, <2>5, <2>6, KeyOfRowIsIts DEF KeyToContinue
    <3> DEFINE t == [pc |-> "verifyPublished", key |-> KeyOfRow(id)]
    <3>3. t \in Task /\ t.pc = "verifyPublished" /\ task' = [task EXCEPT ![id] = t]
      BY <2>1, <3>1, <3>2 DEF Task, UploadPcs
    <3>4. upload' = upload /\ usedKeys' = usedKeys
      BY <2>1, <2>3, <2>4, <2>5, <2>6, <3>1
    <3> HIDE DEF t
    <3>. QED BY <1>2, <2>2, <2>4, <2>5, <2>6, <3>3, <3>4, VerifyStarts
  <2>7. CASE id \notin Servable(snapshot)
    <3>1. id \notin RowIds(snapshot) /\ upload[id].state \notin {"preparing", "retired"}
      BY <2>7, <2>8
    <3>2. CASE Uploading(id)
      <4>1. upload[id].state \in {"completed", "aborted", "uncertain", "uploading", "completing"}
        BY <1>3, <3>1, <3>2 DEF UploadRow, Uploading, Expirable, Recoverable
      <4>2. /\ pc \in {"verifyCompleted", "restartHead", "uncertainHead", "recoverAbort"}
            /\ upload[id].state \in Awaited(pc)
        BY <2>7, <3>1, <4>1 DEF Continuation, Awaited
      <4>3. KeyToContinue(id) = upload[id].key /\ upload[id].key \in Keys
        <5>1. upload[id].key \in 1 .. usedKeys
          BY <1>1, <3>2 DEF KeysInv
        <5>2. upload[id].key \in Keys
          BY <1>1, <5>1, KeysAreNumbers DEF StoreTypes, Keys
        <5>. QED BY <2>3, <3>1, <3>2, <5>2 DEF KeyToContinue
      <4> HIDE DEF pc
      <4> DEFINE t == [pc |-> pc, key |-> upload[id].key]
                 row == [upload[id] EXCEPT !.expired = FALSE]
      <4>4. t \in Task /\ t.pc = pc /\ t.key = upload[id].key
        BY <4>2, <4>3 DEF Task, UploadPcs
      <4>5. row \in UploadRow /\ row.key = upload[id].key /\ row.state = upload[id].state
        BY <1>3 DEF UploadRow
      <4>6. upload' = [upload EXCEPT ![id] = row] /\ task' = [task EXCEPT ![id] = t] /\ usedKeys' = usedKeys
        BY <2>1, <2>3, <3>2, <4>2, <4>3
      <4> HIDE DEF t, row
      <4>7. Fits(upload[id], bucket[upload[id].key], task[id])
        BY <1>1, <3>2 DEF AttemptsInv
      <4>8. Fits(row, bucket[upload[id].key], t) /\ t.pc # "delete"
        BY <4>2, <4>4, <4>5, <4>7 DEF Fits
      <4>9. bucket' = [bucket EXCEPT ![upload[id].key] = bucket[upload[id].key]]
        BY <1>2, <3>2, Unchanged
      <4>10. bucket[upload[id].key] \in Contents
        BY <1>1, <4>3 DEF StoreTypes
      <4>11. row.state # "none" /\ (upload[id].state \in {"retired", "aborted"} => row.state \in {"retired", "aborted"})
        BY <4>1, <4>5
      <4>. QED BY <1>2, <2>2, <3>2, <4>4, <4>5, <4>6, <4>8, <4>9, <4>10, <4>11, UploadMoves
    <3>3. CASE ~Uploading(id)
      <4>1. pc = "probe" /\ KeyToContinue(id) = FreshKey
        BY <1>5, <2>3, <2>7, <3>1, <3>3 DEF Continuation, Uploading, KeyToContinue
      <4>2. /\ usedKeys < MaxKeys /\ upload' = Prepared(id) /\ usedKeys' = FreshKey
            /\ task' = [task EXCEPT ![id] = [pc |-> "probe", key |-> FreshKey]]
        BY <2>1, <4>1
      <4>. QED BY <1>2, <2>2, <3>1, <3>3, <4>2, UploadBegins
    <3>. QED BY <3>2, <3>3
  <2>. QED BY <2>6, <2>7
<1>. QED BY <1>4, <1>5

LEMMA OperationFailsInv ==
  ASSUME Inv, NEW id \in Ids, OperationFails(id) PROVE Inv'
<1>1. PICK stray \in SUBSET Mutation(id) : strays' = strays \cup stray
  BY DEF OperationFails
<1>2. RowsStay /\ UNCHANGED <<usedKeys, bucket>>
  BY DEF OperationFails, RowsStay
<1>3. task' = [task EXCEPT ![id] = Idle]
  BY DEF OperationFails, Answered, Finished
<1>4. CASE At(id, "probe")
  <2>1. task[id].pc \notin RowPcs /\ task[id].pc = "probe"
    BY <1>4 DEF At, RowPcs
  <2>2. /\ Uploading(id) /\ Key(id) = upload[id].key /\ upload[id].state = "preparing"
        /\ bucket[Key(id)] = "none"
    BY <2>1, TaskFits DEF Awaited, Fits
  <2>3. upload' = [upload EXCEPT ![id] = NoUpload]
    BY <1>4, <2>2 DEF OperationFails, Deleted, Holds
  <2>4. strays' = strays
    BY <1>1, <2>1 DEF Mutation
  <2>. QED BY <1>2, <1>3, <2>2, <2>3, <2>4, UploadEnds
<1>5. CASE ~At(id, "probe")
  <2>1. upload' = upload
    BY <1>5 DEF OperationFails
  <2>2. stray \in SUBSET UNION {Mutation(o) : o \in Ids}
    OBVIOUS
  <2>3. task' \in [Ids -> Task] /\ \A o \in Ids : task'[o] \in {Idle, task[o]}
    BY <1>3, IdleIsTask DEF Inv, StoreTypes
  <2>. QED BY <1>1, <1>2, <2>1, <2>2, <2>3, TasksEnd
<1>. QED BY <1>4, <1>5

LEMMA CrashInv ==
  ASSUME Inv, Crash PROVE Inv'
<1>1. PICK lost \in SUBSET UNION {Mutation(id) : id \in Active} : strays' = strays \cup lost
  BY DEF Crash
<1>2. lost \in SUBSET UNION {Mutation(id) : id \in Ids}
  BY DEF Active
<1>3. RowsStay /\ UNCHANGED <<upload, usedKeys, bucket>>
  BY DEF Crash, RowsStay, storeVars
<1>4. task' \in [Ids -> Task] /\ \A o \in Ids : task'[o] \in {Idle, task[o]}
  BY IdleIsTask DEF Crash
<1>. QED BY <1>1, <1>2, <1>3, <1>4, TasksEnd

\* The pins change to servable snapshots, and nothing else does.
LEMMA PinsInv ==
  ASSUME Inv, pins' \subseteq Servable(snapshot),
         UNCHANGED <<snapshot, session, upload, usedKeys, task, bucket, strays>>
  PROVE  Inv'
<1>1. /\ StoreTypes /\ KeysInv /\ AttemptsInv /\ BucketInv /\ StraysInv /\ LatestInv
  BY DEF Inv
<1>2. Servable(snapshot) \subseteq Ids
  BY <1>1, RowTypes DEF Servable
<1>3. StoreTypes'
  BY <1>1, <1>2 DEF StoreTypes
<1>4. KeysInv' /\ StraysInv' /\ BucketInv'
  BY <1>1 DEF KeysInv, StraysInv, BucketInv, Uploading
<1>5. AttemptsInv'
  <2>1. \A o \in Ids : Uploading(o)' = Uploading(o)
    BY DEF Uploading
  <2>2. ASSUME NEW o \in Ids, Uploading(o)'
        PROVE  Fits(upload[o], bucket[upload[o].key], task[o])'
    BY <1>1, <2>1, <2>2 DEF AttemptsInv, Fits
  <2>3. \A o \in Ids : ~Uploading(o)' => task'[o].pc \in RowPcs
    BY <1>1, <2>1 DEF AttemptsInv
  <2>4. \A o \in Ids : At(o, "delete")' => HasRow(o, Key(o), "retired")'
    BY <1>1 DEF AttemptsInv, At, HasRow, Key
  <2>. QED BY <2>2, <2>3, <2>4 DEF AttemptsInv
<1>6. LatestInv'
  BY <1>1 DEF LatestInv, LatestIsNewest, Servable
<1>. QED BY <1>3, <1>4, <1>5, <1>6 DEF Inv

LEMMA QuietInv ==
  ASSUME Inv, UNCHANGED <<snapshot, session, upload, usedKeys, task, bucket, strays, pins>> PROVE Inv'
<1>1. pins' \subseteq Servable(snapshot)
  BY DEF Inv, LatestInv
<1>. QED BY <1>1, PinsInv

LEMMA PinInv ==
  ASSUME Inv, NEW id \in Ids, Pin(id) \/ Unpin(id) PROVE Inv'
<1>1. pins \subseteq Servable(snapshot)
  BY DEF Inv, LatestInv
<1>2. pins' \subseteq Servable(snapshot)
  BY <1>1 DEF Pin, Unpin
<1>3. UNCHANGED <<snapshot, session, upload, usedKeys, task, bucket, strays>>
  BY DEF Pin, Unpin, storeVars
<1>. QED BY <1>2, <1>3, PinsInv

LEMMA StrayTakesEffectInv ==
  ASSUME Inv, StrayTakesEffect PROVE Inv'
<1>1. /\ StoreTypes /\ KeysInv /\ AttemptsInv /\ BucketInv /\ StraysInv /\ LatestInv
  BY DEF Inv
<1>2. PICK stray \in strays :
        /\ strays' = strays \ {stray}
        /\ bucket' = CASE stray.op = "delete" -> [bucket EXCEPT ![stray.key] = "none"]
                       [] bucket[stray.key] = "open" ->
                            [bucket EXCEPT ![stray.key] = IF stray.op = "complete" THEN "stored" ELSE "none"]
                       [] OTHER -> bucket
  BY DEF StrayTakesEffect
<1>3. UNCHANGED <<snapshot, session, upload, usedKeys, task, pins>>
  BY DEF StrayTakesEffect, storeVars, volatileVars
<1>4. /\ bucket' \in [Keys -> Contents]
      /\ \A key \in Keys : /\ bucket[key] = "none" => bucket'[key] = "none"
                           /\ bucket'[key] = "open" => bucket[key] = "open"
                           /\ key # stray.key \/ stray.op # "delete" =>
                                 (bucket[key] = "stored" => bucket'[key] = "stored")
  BY <1>1, <1>2 DEF StoreTypes, Contents
<1>5. \A id \in Ids : Uploading(id) => upload[id].key \in Keys
  BY <1>1, KeysAreNumbers DEF StoreTypes, KeysInv, Keys
<1>6. StoreTypes'
  BY <1>1, <1>2, <1>3, <1>4 DEF StoreTypes
<1>7. KeysInv'
  BY <1>1, <1>2, <1>3, <1>4 DEF KeysInv, Uploading
<1>8. AttemptsInv'
  <2>1. \A o \in Ids : Uploading(o)' = Uploading(o)
    BY <1>3 DEF Uploading
  <2>2. ASSUME NEW o \in Ids, Uploading(o)'
        PROVE  Fits(upload[o], bucket[upload[o].key], task[o])'
    BY <1>1, <1>3, <1>4, <1>5, <2>1, <2>2 DEF AttemptsInv, Fits
  <2>3. \A o \in Ids : ~Uploading(o)' => task'[o].pc \in RowPcs
    BY <1>1, <1>3, <2>1 DEF AttemptsInv
  <2>4. \A o \in Ids : At(o, "delete")' => HasRow(o, Key(o), "retired")'
    BY <1>1, <1>3 DEF AttemptsInv, At, HasRow, Key
  <2>. QED BY <2>2, <2>3, <2>4 DEF AttemptsInv
<1>9. BucketInv'
  <2>1. ASSUME NEW i \in DOMAIN snapshot, snapshot[i].state = "servable"
        PROVE  bucket'[snapshot[i].key] = "stored"
    <3>1. snapshot[i].key \in Keys /\ bucket[snapshot[i].key] = "stored"
      BY <1>1, <2>1, RowTypes DEF BucketInv
    <3>2. snapshot[i].key # stray.key \/ stray.op # "delete"
      BY <1>1, <2>1 DEF StraysInv
    <3>. QED BY <1>4, <3>1, <3>2
  <2>. QED BY <1>1, <1>3, <1>4, <2>1 DEF BucketInv, Uploading
<1>10. StraysInv'
  BY <1>1, <1>2, <1>3 DEF StraysInv, Uploading
<1>11. LatestInv'
  BY <1>1, <1>3, RowsStayLatest DEF RowsStay
<1>. QED BY <1>6, <1>7, <1>8, <1>9, <1>10, <1>11 DEF Inv

-----------------------------------------------------------------------------
(* Retention and publication *)

SessionFields == {"latest", "recent", "candidates"}

LEMMA RowFields ==
  ASSUME NEW rows \in Seq(Row), NEW i \in DOMAIN rows
  PROVE  /\ rows[i] \in Row
         /\ rows[i] = [id |-> rows[i].id, key |-> rows[i].key, state |-> rows[i].state]
         /\ rows[i].id \in Ids /\ rows[i].key \in Keys /\ rows[i].state \in {"servable", "retired"}
<1>1. rows[i] \in Row
  BY ElementOfSeq, LenProperties
<1>. QED BY <1>1 DEF Row

\* The recent snapshots are refreshed; the latest stays what it was.
LEMMA TouchedKeepsLatest ==
  ASSUME NEW s, DOMAIN s = SessionFields, NEW rows, NEW id, NEW protecting
  PROVE  /\ Touched(s, rows, id, protecting).latest = s.latest
         /\ DOMAIN Touched(s, rows, id, protecting) = SessionFields
<1>1. \E c, r : Touched(s, rows, id, protecting) = [s EXCEPT !.candidates = c, !.recent = r]
  BY Zenon DEF Touched
<1>2. \A c, r : LET t == [s EXCEPT !.candidates = c, !.recent = r]
                IN  t.latest = s.latest /\ DOMAIN t = SessionFields
  BY DEF SessionFields
<1>. QED BY <1>1, <1>2

LEMMA RefreshedKeepsLatest ==
  ASSUME NEW s, DOMAIN s = SessionFields, NEW candidates, NEW protected
  PROVE  /\ Refreshed(s, candidates, protected).latest = s.latest
         /\ DOMAIN Refreshed(s, candidates, protected) = SessionFields
<1>1. \E c, r : Refreshed(s, candidates, protected) = [s EXCEPT !.recent = r, !.candidates = c]
  BY Zenon DEF Refreshed
<1>2. \A c, r : LET t == [s EXCEPT !.recent = r, !.candidates = c]
                IN  t.latest = s.latest /\ DOMAIN t = SessionFields
  BY DEF SessionFields
<1>. QED BY <1>1, <1>2

\* What retention lets go of: never what is pinned, and never the latest.
RetiredFrom(rows, kept) ==
    /\ snapshot' \in Seq(Row)
    /\ DOMAIN snapshot' = DOMAIN rows
    /\ \A i \in DOMAIN rows :
          /\ snapshot'[i].id = rows[i].id /\ snapshot'[i].key = rows[i].key
          /\ snapshot'[i].state \in {rows[i].state, "retired"}
          /\ rows[i].id \in kept => snapshot'[i].state = rows[i].state

LEMMA RetireOutcome ==
  ASSUME NEW rows \in Seq(Row), NEW s, DOMAIN s = SessionFields,
         RetireEligible(s, rows, RetentionPins)
  PROVE  /\ session'.latest = s.latest /\ DOMAIN session' = SessionFields
         /\ RetiredFrom(rows, pins \cup ({s.latest} \ {0}))
<1>1. PICK ledger \in {Ledger(s, rows, RetentionPins)} :
      \E refreshed \in {Refreshed(s, ledger \o NewestOthers(rows, ledger), Protected(s, RetentionPins))} :
      \E retiring \in {Unprotected(refreshed, rows, RetentionPins)} :
        /\ session' = refreshed
        /\ snapshot' = [i \in DOMAIN rows |->
                           IF rows[i].id \in retiring
                           THEN [rows[i] EXCEPT !.state = "retired"] ELSE rows[i]]
  BY Zenon DEF RetireEligible
<1>2. PICK refreshed \in {Refreshed(s, ledger \o NewestOthers(rows, ledger), Protected(s, RetentionPins))} :
      \E retiring \in {Unprotected(refreshed, rows, RetentionPins)} :
        /\ session' = refreshed
        /\ snapshot' = [i \in DOMAIN rows |->
                           IF rows[i].id \in retiring
                           THEN [rows[i] EXCEPT !.state = "retired"] ELSE rows[i]]
  BY <1>1, Zenon
<1>3. PICK retiring \in {Unprotected(refreshed, rows, RetentionPins)} :
        /\ session' = refreshed
        /\ snapshot' = [i \in DOMAIN rows |->
                           IF rows[i].id \in retiring
                           THEN [rows[i] EXCEPT !.state = "retired"] ELSE rows[i]]
  BY <1>2, Zenon
<1>4. refreshed.latest = s.latest /\ DOMAIN refreshed = SessionFields
  BY <1>2, RefreshedKeepsLatest
<1>5. \A id \in pins \cup ({s.latest} \ {0}) : id \notin retiring
  BY <1>3, <1>4 DEF Unprotected, Protected, RetentionPins
<1>6. /\ Len(rows) \in Nat /\ DOMAIN rows = 1 .. Len(rows)
      /\ \A i \in DOMAIN rows : rows[i] \in Row
  BY LenProperties, RowFields
<1>7. ASSUME NEW i \in DOMAIN rows
      PROVE  /\ snapshot'[i] \in Row
             /\ snapshot'[i].id = rows[i].id /\ snapshot'[i].key = rows[i].key
             /\ snapshot'[i].state \in {rows[i].state, "retired"}
             /\ rows[i].id \notin retiring => snapshot'[i].state = rows[i].state
  <2>1. snapshot'[i] = IF rows[i].id \in retiring THEN [rows[i] EXCEPT !.state = "retired"] ELSE rows[i]
    BY <1>3
  <2>. QED BY <1>6, <2>1 DEF Row
<1>8. snapshot' \in Seq(Row)
  <2>1. snapshot' \in [1 .. Len(rows) -> Row]
    BY <1>3, <1>6, <1>7
  <2>. QED BY <1>6, <2>1, IsASeq
<1>9. DOMAIN snapshot' = DOMAIN rows
  BY <1>3
<1>10. RetiredFrom(rows, pins \cup ({s.latest} \ {0}))
  BY <1>5, <1>7, <1>8, <1>9 DEF RetiredFrom
<1>. QED BY <1>3, <1>4, <1>10

LEMMA VerifyPublishedInv ==
  ASSUME Inv, NEW id \in Ids, VerifyPublished(id) PROVE Inv'
<1>1. task' = [task EXCEPT ![id] = Idle] /\ UNCHANGED <<snapshot, upload, usedKeys, pins, bucket, strays>>
  BY DEF VerifyPublished, Answered, RefreshPublished, storeVars, keptByUpload
<1>2. DOMAIN session = SessionFields
  BY DEF Inv, StoreTypes, SessionFields
<1>3. session' \in {session, Touched(session, snapshot, id, RetentionPins)}
  BY DEF VerifyPublished, RefreshPublished, storeVars
<1>4. session'.latest = session.latest /\ DOMAIN session' = DOMAIN session
  BY <1>2, <1>3, TouchedKeepsLatest
<1>5. RowsStay
  BY <1>1, <1>4 DEF RowsStay
<1>. QED BY <1>1, <1>5, TaskEnds

\* A stored attempt becomes a row, the latest unless one was cut later, and retention follows.
LEMMA PublishedInv ==
  ASSUME Inv, NEW id \in Ids, Uploading(id), bucket[upload[id].key] = "stored",
         upload[id].state \notin {"retired", "aborted"},
         NEW rows, rows = Append(snapshot, [id |-> id, key |-> upload[id].key, state |-> "servable"]),
         NEW latest, latest = (IF AdvancesLatest(id) THEN id ELSE session.latest),
         session'.latest = latest, DOMAIN session' = SessionFields,
         RetiredFrom(rows, pins \cup ({latest} \ {0})),
         upload' = [upload EXCEPT ![id] = NoUpload],
         task' = [task EXCEPT ![id] = Idle],
         UNCHANGED <<bucket, usedKeys, strays, pins>>
  PROVE  Inv'
<1>1. /\ StoreTypes /\ KeysInv /\ AttemptsInv /\ BucketInv /\ StraysInv /\ LatestInv
  BY DEF Inv
<1> DEFINE key == upload[id].key
           new == [id |-> id, key |-> key, state |-> "servable"]
           n == Len(snapshot)
<1>2. key \in Keys /\ key \in 1 .. usedKeys
  BY <1>1, KeysAreNumbers DEF StoreTypes, KeysInv, Keys
<1>3. new \in Row /\ new.id = id /\ new.key = key /\ new.state = "servable"
  BY <1>2 DEF Row
<1>4. /\ n \in Nat /\ DOMAIN snapshot = 1 .. n
      /\ rows \in Seq(Row) /\ DOMAIN rows = 1 .. n + 1
      /\ rows[n + 1] = new
      /\ \A i \in DOMAIN snapshot : i \in DOMAIN rows /\ rows[i] = snapshot[i]
      /\ \A i \in DOMAIN rows : i \in DOMAIN snapshot \/ i = n + 1
      /\ n + 1 \in DOMAIN rows /\ \A i \in DOMAIN snapshot : i < n + 1
  <2>1. snapshot \in Seq(Row)
    BY <1>1 DEF StoreTypes
  <2>2. n \in Nat /\ DOMAIN snapshot = 1 .. n
    BY <2>1, LenProperties
  <2>3. rows = Append(snapshot, new)
    OBVIOUS
  <2>4. /\ rows \in Seq(Row) /\ Len(rows) = n + 1 /\ rows[n + 1] = new
        /\ \A i \in 1 .. n : rows[i] = snapshot[i]
    BY <1>3, <2>1, <2>3, AppendProperties
  <2>5. DOMAIN rows = 1 .. n + 1
    BY <2>4, LenProperties
  <2>. QED BY <2>2, <2>4, <2>5
<1> HIDE DEF new, n, key
<1>5. /\ snapshot' \in Seq(Row) /\ DOMAIN snapshot' = DOMAIN rows
      /\ \A i \in DOMAIN rows :
            /\ snapshot'[i].id = rows[i].id /\ snapshot'[i].key = rows[i].key
            /\ snapshot'[i].state \in {rows[i].state, "retired"}
            /\ rows[i].id \in pins \cup ({latest} \ {0}) => snapshot'[i].state = rows[i].state
  BY DEF RetiredFrom
<1>6. NoUpload \in UploadRow /\ Idle \in Task
  BY IdleIsTask DEF NoUpload, UploadRow
<1>7. /\ ~Uploading(id)' /\ task'[id] = Idle
      /\ \A o \in Ids : Uploading(o)' => o # id /\ Uploading(o)
      /\ \A o \in Ids : o # id => upload'[o] = upload[o] /\ task'[o] = task[o] /\ Uploading(o)' = Uploading(o)
  BY <1>1 DEF StoreTypes, Uploading, NoUpload
<1>8. \A i \in DOMAIN snapshot :
         /\ snapshot[i].key # key /\ snapshot[i].id # id
         /\ snapshot[i].id \in Ids /\ snapshot[i].key \in Keys
  BY <1>1, RowTypes DEF KeysInv, key
<1>9. /\ \A i \in DOMAIN snapshot : snapshot'[i].id = snapshot[i].id /\ snapshot'[i].key = snapshot[i].key
      /\ snapshot'[n + 1].id = id /\ snapshot'[n + 1].key = key
  <2>1. ASSUME NEW i \in DOMAIN snapshot
        PROVE  snapshot'[i].id = snapshot[i].id /\ snapshot'[i].key = snapshot[i].key
    <3>1. i \in DOMAIN rows /\ rows[i] = snapshot[i]
      BY <1>4
    <3>. QED BY <1>5, <3>1
  <2>2. snapshot'[n + 1].id = id /\ snapshot'[n + 1].key = key
    <3>1. n + 1 \in DOMAIN rows /\ rows[n + 1].id = id /\ rows[n + 1].key = key
      BY <1>3, <1>4
    <3>. QED BY <1>5, <3>1, Zenon
  <2>. QED BY <2>1, <2>2
<1>10. latest \in Ids \cup {0}
  BY <1>1 DEF StoreTypes
<1>11. StoreTypes'
  BY <1>1, <1>5, <1>6, <1>10 DEF StoreTypes, SessionFields
<1>12. KeysInv'
  <2>1. \A o \in Ids : Uploading(o)' => upload'[o].key \in 1 .. usedKeys /\ upload'[o].key # key
    BY <1>1, <1>7 DEF KeysInv, key
  <2>2. ASSUME NEW i \in DOMAIN snapshot'
        PROVE  snapshot'[i].key \in 1 .. usedKeys /\ ~Uploading(snapshot[i].id)'
    <3>1. CASE i \in DOMAIN snapshot
      BY <1>1, <1>7, <1>8, <1>9, <3>1 DEF KeysInv
    <3>2. CASE i = n + 1
      BY <1>2, <1>7, <1>9, <3>2
    <3>. QED BY <1>4, <1>5, <3>1, <3>2
  <2>3. \A a, b \in Ids : Uploading(a)' /\ Uploading(b)' /\ a # b => upload'[a].key # upload'[b].key
    BY <1>1, <1>7 DEF KeysInv
  <2>4. \A o \in Ids, i \in DOMAIN snapshot' : Uploading(o)' => upload'[o].key # snapshot'[i].key
    BY <1>1, <1>4, <1>5, <1>7, <1>9, <2>1, SMTT(30) DEF KeysInv
  <2>5. \A i, j \in DOMAIN snapshot' :
           i # j => snapshot'[i].key # snapshot'[j].key /\ snapshot'[i].id # snapshot'[j].id
    <3>. SUFFICES ASSUME NEW i \in DOMAIN snapshot', NEW j \in DOMAIN snapshot', i # j
                  PROVE  snapshot'[i].key # snapshot'[j].key /\ snapshot'[i].id # snapshot'[j].id
      OBVIOUS
    <3>1. CASE i \in DOMAIN snapshot /\ j \in DOMAIN snapshot
      BY <1>1, <1>9, <3>1 DEF KeysInv
    <3>2. CASE i \in DOMAIN snapshot /\ j = n + 1
      BY <1>8, <1>9, <3>2
    <3>3. CASE j \in DOMAIN snapshot /\ i = n + 1
      BY <1>8, <1>9, <3>3
    <3>. QED BY <1>4, <1>5, <3>1, <3>2, <3>3
  <2>. QED BY <1>1, <2>1, <2>2, <2>3, <2>4, <2>5 DEF KeysInv
<1>13. AttemptsInv'
  <2>1. ASSUME NEW o \in Ids, Uploading(o)'
        PROVE  Fits(upload[o], bucket[upload[o].key], task[o])'
    BY <1>1, <1>7, <2>1 DEF AttemptsInv, Fits
  <2>2. ASSUME NEW o \in Ids, ~Uploading(o)'
        PROVE  task'[o].pc \in RowPcs
    BY <1>1, <1>7, <2>2, IdleIsTask DEF AttemptsInv
  <2>3. ASSUME NEW o \in Ids, At(o, "delete")'
        PROVE  HasRow(o, Key(o), "retired")'
    <3>1. o # id /\ At(o, "delete") /\ Key(o)' = Key(o)
      BY <1>7, <2>3 DEF At, Key, Idle
    <3>2. PICK i \in DOMAIN snapshot : snapshot[i] = [id |-> o, key |-> Key(o), state |-> "retired"]
      BY <1>1, <3>1 DEF AttemptsInv, HasRow
    <3>3. i \in DOMAIN snapshot' /\ snapshot'[i].id = o /\ snapshot'[i].key = Key(o) /\ snapshot'[i].state = "retired"
      BY <1>4, <1>5, <1>9, <3>2
    <3>4. snapshot'[i] = [id |-> o, key |-> Key(o), state |-> "retired"]
      BY <1>5, <3>3, RowFields
    <3>. QED BY <3>1, <3>3, <3>4 DEF HasRow
  <2>. QED BY <2>1, <2>2, <2>3 DEF AttemptsInv
<1>14. BucketInv'
  <2>1. ASSUME NEW k \in Keys, bucket[k] # "none"
        PROVE  \/ \E i \in DOMAIN snapshot' : snapshot'[i].key = k
               \/ \E o \in Ids : Uploading(o)' /\ upload'[o].key = k
    <3>1. CASE \E i \in DOMAIN snapshot : snapshot[i].key = k
      BY <1>4, <1>5, <1>9, <3>1
    <3>2. CASE \E o \in Ids : Uploading(o) /\ upload[o].key = k
      <4>1. PICK o \in Ids : Uploading(o) /\ upload[o].key = k
        BY <3>2
      <4>2. CASE o = id
        BY <1>4, <1>5, <1>9, <4>1, <4>2 DEF key
      <4>3. CASE o # id
        BY <1>7, <4>1, <4>3
      <4>. QED BY <4>2, <4>3
    <3>. QED BY <1>1, <2>1, <3>1, <3>2 DEF BucketInv
  <2>2. ASSUME NEW i \in DOMAIN snapshot', snapshot'[i].state = "servable"
        PROVE  bucket[snapshot'[i].key] = "stored"
    <3>1. CASE i \in DOMAIN snapshot
      <4>1. snapshot[i].state = "servable"
        BY <1>4, <1>5, <2>2, <3>1
      <4>. QED BY <1>1, <1>9, <3>1, <4>1 DEF BucketInv
    <3>2. CASE i = n + 1
      BY <1>9, <3>2 DEF key
    <3>. QED BY <1>4, <1>5, <3>1, <3>2
  <2>. QED BY <2>1, <2>2 DEF BucketInv
<1>15. StraysInv'
  <2>1. \A s \in strays : s.op = "delete" => s.key # key
    BY <1>1 DEF StraysInv, key
  <2>2. ASSUME NEW s \in strays, s.op = "delete", NEW i \in DOMAIN snapshot', snapshot'[i].state = "servable"
        PROVE  snapshot'[i].key # s.key
    <3>1. CASE i \in DOMAIN snapshot
      <4>1. snapshot[i].state = "servable"
        BY <1>4, <1>5, <2>2, <3>1
      <4>. QED BY <1>1, <1>9, <2>2, <3>1, <4>1 DEF StraysInv
    <3>2. CASE i = n + 1
      BY <1>9, <2>1, <2>2, <3>2
    <3>. QED BY <1>4, <1>5, <3>1, <3>2
  <2>. QED BY <1>1, <1>7, <2>2 DEF StraysInv
<1>16. LatestInv'
  <2>1. id # 0 /\ id \in Nat
    BY KeysAreNumbers
  <2>2. Cut \in [Ids -> Nat]
    BY SnapshotStoreAssumption
  <2>3. \A i \in DOMAIN snapshot : Cut[snapshot[i].id] \in Nat
    BY <1>8, <2>2
  <2>4. Cut[id] \in Nat
    BY <2>2
  <2>5. session.latest = 0 \/ session.latest \in Servable(snapshot)
    BY <1>1 DEF LatestInv
  <2>6. latest # 0
    <3>1. CASE AdvancesLatest(id)
      BY <2>1, <3>1
    <3>2. CASE ~AdvancesLatest(id)
      <4>1. session.latest \in Servable(snapshot)
        BY <3>2 DEF AdvancesLatest
      <4>2. session.latest \in Ids
        BY <1>8, <4>1 DEF Servable
      <4>. QED BY <3>2, <4>2, KeysAreNumbers
    <3>. QED BY <3>1, <3>2
  <2>7. pins \cup {latest} \subseteq Servable(snapshot)'
    <3>1. Servable(snapshot) \cup {id} \subseteq Servable(rows)
      BY <1>3, <1>4 DEF Servable
    <3>2. pins \cup {latest} \subseteq Servable(rows)
      <4>1. latest \in Servable(snapshot) \cup {id}
        BY DEF AdvancesLatest
      <4>. QED BY <1>1, <3>1, <4>1 DEF LatestInv
    <3>3. ASSUME NEW p \in pins \cup {latest} PROVE p \in Servable(snapshot)'
      <4>1. PICK i \in DOMAIN rows : rows[i].id = p /\ rows[i].state = "servable"
        BY <3>2 DEF Servable
      <4>2. p \in pins \cup ({latest} \ {0})
        BY <2>6
      <4>3. snapshot'[i].id = p /\ snapshot'[i].state = "servable" /\ i \in DOMAIN snapshot'
        BY <1>5, <4>1, <4>2
      <4>. QED BY <4>3 DEF Servable
    <3>. QED BY <3>3
  <2>8. LatestIsNewest'
    <3>. SUFFICES ASSUME NEW i \in DOMAIN snapshot', NEW j \in DOMAIN snapshot',
                         snapshot'[i].id = latest, snapshot'[j].state = "servable"
                  PROVE  \/ Cut[snapshot'[j].id] < Cut[snapshot'[i].id]
                         \/ Cut[snapshot'[j].id] = Cut[snapshot'[i].id] /\ j <= i
      BY DEF LatestIsNewest
    <3>1. CASE AdvancesLatest(id)
      <4>1. i = n + 1 /\ snapshot'[i].id = id
        BY <1>4, <1>5, <1>8, <1>9, <3>1
      <4>2. CASE j = n + 1
        BY <1>4, <2>4, <4>1, <4>2
      <4>3. CASE j \in DOMAIN snapshot
        <5>1. snapshot[j].state = "servable" /\ snapshot'[j].id = snapshot[j].id
          BY <1>4, <1>5, <1>9, <4>3
        <5>2. session.latest \in Servable(snapshot)
          BY <1>1, <2>5, <4>3, EmptySeq DEF LatestInv
        <5>3. PICK l \in DOMAIN snapshot : snapshot[l].id = session.latest
          BY <5>2 DEF Servable
        <5>4. Cut[snapshot[j].id] <= Cut[session.latest]
          BY <1>1, <2>3, <4>3, <5>1, <5>3 DEF LatestInv, LatestIsNewest
        <5>5. Cut[session.latest] <= Cut[id]
          BY <2>3, <2>4, <3>1, <5>2, <5>3 DEF AdvancesLatest
        <5>6. Cut[session.latest] \in Nat /\ Cut[snapshot[j].id] \in Nat
          BY <2>3, <4>3, <5>3
        <5>7. j < n + 1 /\ j \in Nat
          BY <1>4, <4>3
        <5>. QED BY <1>4, <2>4, <4>1, <5>1, <5>4, <5>5, <5>6, <5>7
      <4>. QED BY <1>4, <1>5, <4>2, <4>3
    <3>2. CASE ~AdvancesLatest(id)
      <4>1. /\ session.latest \in Servable(snapshot) /\ latest = session.latest
            /\ ~(Cut[id] >= Cut[session.latest])
        BY <3>2 DEF AdvancesLatest
      <4>2. session.latest # id
        BY <1>8, <4>1 DEF Servable
      <4>3. i \in DOMAIN snapshot /\ snapshot[i].id = session.latest
        BY <1>4, <1>5, <1>9, <4>1, <4>2
      <4>4. snapshot'[i].id = session.latest
        BY <4>1
      <4>5. CASE j = n + 1
        <5>1. Cut[session.latest] \in Nat
          BY <2>3, <4>3
        <5>. QED BY <1>9, <2>4, <4>1, <4>4, <4>5, <5>1
      <4>6. CASE j \in DOMAIN snapshot
        <5>1. snapshot[j].state = "servable" /\ snapshot'[j].id = snapshot[j].id
          BY <1>4, <1>5, <1>9, <4>6
        <5>. QED BY <1>1, <4>3, <4>4, <4>6, <5>1 DEF LatestInv, LatestIsNewest
      <4>. QED BY <1>4, <1>5, <4>5, <4>6
    <3>. QED BY <3>1, <3>2
  <2>. QED BY <2>6, <2>7, <2>8 DEF LatestInv
<1>. QED BY <1>11, <1>12, <1>13, <1>14, <1>15, <1>16 DEF Inv

\* recordMultipartCompleted and finalize, when the object is there.
LEMMA PublishesInv ==
  ASSUME Inv, NEW id \in Ids, task[id].pc \notin RowPcs,
         upload[id].state \in {"completing", "uncertain", "completed"},
         Stored(id), Publishes(id),
         task' = [task EXCEPT ![id] = Idle],
         UNCHANGED <<bucket, strays, pins>>
  PROVE  Inv'
<1> DEFINE key == Key(id)
           up == MultipartCompleted(id, key)
           rows == Append(snapshot, [id |-> id, key |-> key, state |-> "servable"])
           advanced == IF AdvancesLatest(id) THEN [session EXCEPT !.latest = id] ELSE session
           latest == IF AdvancesLatest(id) THEN id ELSE session.latest
           overtaken == IF AdvancesLatest(id) /\ session.latest # 0 THEN session.latest ELSE id
<1>1. /\ Uploading(id) /\ key = upload[id].key /\ bucket[key] = "stored"
      /\ bucket[key] \in Contents /\ upload[id] \in UploadRow
  BY TaskFits DEF Stored
<1>2. /\ snapshot \in Seq(Row) /\ DOMAIN session = SessionFields /\ upload \in [Ids -> UploadRow]
  BY DEF Inv, StoreTypes, SessionFields
<1>3. PICK moved \in UploadRow :
          up = [upload EXCEPT ![id] = moved] /\ moved.state = "completed" /\ moved.key = upload[id].key
  <2> DEFINE from == {"completing", "uncertain", "completed"}
  <2>1. StoreTypes /\ up = Moved(id, key, from, "completed")
    BY DEF MultipartCompleted, Inv
  <2>2. Holds(id, key, from)
    BY <1>1 DEF Holds
  <2> HIDE DEF from, key, up
  <2>. QED BY <2>1, <2>2, MovesTo
<1>4. id \notin RowIds(snapshot)
  BY <1>1 DEF Inv, KeysInv, RowIds
<1>5. CASE /\ \E touched \in {Touched(advanced, rows, overtaken, RetentionPins)} :
                 RetireEligible(touched, rows, RetentionPins)
           /\ upload' = [up EXCEPT ![id] = NoUpload]
           /\ UNCHANGED usedKeys
  <2>1. DOMAIN advanced = SessionFields /\ advanced.latest = latest
    BY <1>2 DEF SessionFields
  <2>2. PICK touched \in {Touched(advanced, rows, overtaken, RetentionPins)} :
           RetireEligible(touched, rows, RetentionPins)
    BY <1>5
  <2>3. rows \in Seq(Row)
    <3>1. [id |-> id, key |-> key, state |-> "servable"] \in Row
      BY <1>1, KeysAreNumbers DEF Inv, StoreTypes, KeysInv, Keys, Row
    <3>. QED BY <1>2, <3>1, AppendProperties
  <2>4. upload' = [upload EXCEPT ![id] = NoUpload]
    BY <1>2, <1>3, <1>5
  <2>5. rows = Append(snapshot, [id |-> id, key |-> upload[id].key, state |-> "servable"])
    BY <1>1
  <2>6. latest = (IF AdvancesLatest(id) THEN id ELSE session.latest)
    OBVIOUS
  <2>7. bucket[upload[id].key] = "stored" /\ upload[id].state \notin {"retired", "aborted"}
    BY <1>1
  <2> HIDE DEF key, up, rows, advanced, latest, overtaken
  <2>8. touched.latest = latest /\ DOMAIN touched = SessionFields
    BY <2>1, <2>2, TouchedKeepsLatest
  <2>9. /\ session'.latest = latest /\ DOMAIN session' = SessionFields
        /\ RetiredFrom(rows, pins \cup ({latest} \ {0}))
    BY <2>2, <2>3, <2>8, RetireOutcome
  <2>10. UNCHANGED <<bucket, usedKeys, strays, pins>>
    BY <1>5
  <2>. QED BY <1>1, <2>4, <2>5, <2>6, <2>7, <2>9, <2>10, PublishedInv
<1>6. CASE upload' = up /\ UNCHANGED <<snapshot, session, usedKeys>>
  <2>1. Fits(moved, bucket[key], Idle)
    BY <1>1, <1>3, IdleIsTask DEF Fits
  <2>2. bucket' = [bucket EXCEPT ![upload[id].key] = bucket[key]]
    BY <1>1, Unchanged
  <2>3. Idle \in Task /\ Idle.pc # "delete"
    BY IdleIsTask
  <2>4. RowsStay
    BY <1>6 DEF RowsStay
  <2>. QED BY <1>1, <1>3, <1>6, <2>1, <2>2, <2>3, <2>4, UploadMoves
<1>7. PICK reached \in BOOLEAN : Finalize(id, key, up, RetentionPins, reached)
  BY DEF Publishes
<1>. QED BY <1>5, <1>6, <1>7 DEF Finalize

LEMMA PublishIfStoredInv ==
  ASSUME Inv, NEW id \in Ids, PublishIfStored(id) PROVE Inv'
<1>1. task[id].pc \in {"verifyCompleted", "confirm", "uncertainHead"} /\ task[id].pc \notin RowPcs
  BY DEF PublishIfStored, RowPcs
<1>2. upload[id].state \in {"completing", "uncertain", "completed"}
  BY <1>1, TaskFits DEF Awaited
<1>3. task' = [task EXCEPT ![id] = Idle] /\ UNCHANGED <<bucket, strays, pins>>
  BY DEF PublishIfStored, Answered, keptByUpload
<1>4. CASE Stored(id)
  BY <1>1, <1>2, <1>3, <1>4, PublishesInv DEF PublishIfStored
<1>5. CASE ~Stored(id)
  <2>1. RowsStay /\ UNCHANGED <<upload, usedKeys>>
    BY <1>3, <1>5 DEF PublishIfStored, storeVars, RowsStay
  <2>. QED BY <1>3, <2>1, TaskEnds
<1>. QED BY <1>4, <1>5

LEMMA SettleInv ==
  ASSUME Inv, NEW id \in Ids, Settle(id) PROVE Inv'
<1>1. task[id].pc = "settle" /\ task[id].pc \notin RowPcs
  BY DEF Settle, At, RowPcs
<1>2. upload[id].state \in {"uploading", "completing"}
  BY <1>1, TaskFits DEF Awaited
<1>3. task' = [task EXCEPT ![id] = Idle] /\ UNCHANGED <<bucket, strays, pins>>
  BY DEF Settle, Answered, keptByUpload
<1>4. CASE Stored(id) /\ Holds(id, Key(id), {"completing"})
  <2>1. upload[id].state \in {"completing", "uncertain", "completed"}
    BY <1>4 DEF Holds
  <2>2. Publishes(id)
    BY <1>4 DEF Settle
  <2>. QED BY <1>1, <1>3, <1>4, <2>1, <2>2, PublishesInv
<1>5. CASE ~(Stored(id) /\ Holds(id, Key(id), {"completing"}))
  <2>1. upload' = MultipartUncertain(id, Key(id)) /\ UNCHANGED <<snapshot, session, usedKeys>>
    BY <1>5 DEF Settle
  <2>2. RowsStay
    BY <1>3, <2>1 DEF RowsStay
  <2> DEFINE from == {"uploading", "completing", "uncertain"}
  <2>3. upload' = Moved(id, Key(id), from, "uncertain")
    BY <2>1 DEF MultipartUncertain
  <2>4. upload[id].state \in from
    BY <1>2, Zenon
  <2> HIDE DEF from
  <2>. QED BY <1>1, <1>3, <2>1, <2>2, <2>3, <2>4, SettledInv
<1>. QED BY <1>4, <1>5

-----------------------------------------------------------------------------
(* Deletion of a retired snapshot *)

LEMMA RemovedAt ==
  ASSUME NEW S, NEW s \in Seq(S), NEW p \in DOMAIN s
  PROVE  /\ RemoveAt(s, p) \in Seq(S)
         /\ Len(s) \in Nat /\ DOMAIN s = 1 .. Len(s) /\ DOMAIN RemoveAt(s, p) = 1 .. Len(s) - 1
         /\ \A i \in 1 .. Len(s) - 1 : RemoveAt(s, p)[i] = IF i < p THEN s[i] ELSE s[i + 1]
<1> DEFINE a == SubSeq(s, 1, p - 1)
           b == SubSeq(s, p + 1, Len(s))
<1>1. Len(s) \in Nat /\ DOMAIN s = 1 .. Len(s) /\ p \in 1 .. Len(s) /\ p \in Nat
  BY LenProperties
<1>2. /\ a \in Seq(S) /\ Len(a) = p - 1
      /\ \A i \in 1 .. p - 1 : a[i] = s[i]
  BY <1>1, SubSeqProperties
<1>3. /\ b \in Seq(S) /\ Len(b) = Len(s) - p
      /\ \A i \in 1 .. Len(s) - p : b[i] = s[p + i]
  BY <1>1, SubSeqProperties, SMTT(30)
<1>4. RemoveAt(s, p) = a \o b
  BY DEF RemoveAt
<1> HIDE DEF a, b
<1>5. /\ a \o b \in Seq(S) /\ Len(a \o b) = Len(s) - 1
      /\ \A i \in 1 .. Len(s) - 1 : (a \o b)[i] = IF i <= p - 1 THEN a[i] ELSE b[i - (p - 1)]
  <2>1. /\ a \o b \in Seq(S) /\ Len(a \o b) = Len(a) + Len(b)
        /\ \A i \in 1 .. Len(a) + Len(b) : (a \o b)[i] = IF i <= Len(a) THEN a[i] ELSE b[i - Len(a)]
    BY <1>2, <1>3, ConcatProperties
  <2>2. Len(a) = p - 1 /\ Len(a) + Len(b) = Len(s) - 1
    BY <1>1, <1>2, <1>3
  <2>. QED BY <2>1, <2>2
<1>6. DOMAIN (a \o b) = 1 .. Len(s) - 1
  BY <1>5, LenProperties
<1>7. ASSUME NEW i \in 1 .. Len(s) - 1
      PROVE  (a \o b)[i] = IF i < p THEN s[i] ELSE s[i + 1]
  <2>1. CASE i < p
    BY <1>1, <1>2, <1>5, <2>1
  <2>2. CASE ~(i < p)
    <3>1. i - (p - 1) \in 1 .. Len(s) - p /\ p + (i - (p - 1)) = i + 1
      BY <1>1, <2>2
    <3>2. b[i - (p - 1)] = s[i + 1]
      BY <1>3, <3>1
    <3>3. (a \o b)[i] = b[i - (p - 1)]
      BY <1>1, <1>5, <2>2
    <3>. QED BY <2>2, <3>2, <3>3
  <2>. QED BY <2>1, <2>2
<1>. QED BY <1>1, <1>4, <1>5, <1>6, <1>7

LEMMA DeleteInv ==
  ASSUME Inv, NEW id \in Ids, Delete(id) PROVE Inv'
<1>1. /\ StoreTypes /\ KeysInv /\ AttemptsInv /\ BucketInv /\ StraysInv /\ LatestInv
  BY DEF Inv
<1>2. /\ At(id, "delete") /\ bucket' = [bucket EXCEPT ![Key(id)] = "none"]
      /\ task' = [task EXCEPT ![id] = Idle]
      /\ UNCHANGED <<upload, session, usedKeys, strays, pins>>
  BY DEF Delete, Puts, Finished, keptByUpload, DeleteRetiredRow
<1>3. HasRow(id, Key(id), "retired")
  BY <1>1, <1>2 DEF AttemptsInv
<1>4. PICK p \in DOMAIN snapshot :
        /\ snapshot[p] = [id |-> id, key |-> Key(id), state |-> "retired"]
        /\ snapshot' = RemoveAt(snapshot, p)
  BY <1>3 DEF Delete, DeleteRetiredRow
<1> DEFINE From(i) == IF i < p THEN i ELSE i + 1
<1>5. /\ snapshot' \in Seq(Row) /\ DOMAIN snapshot' \subseteq Nat
      /\ \A i \in DOMAIN snapshot' : From(i) \in DOMAIN snapshot /\ From(i) # p /\ snapshot'[i] = snapshot[From(i)]
      /\ \A i, j \in DOMAIN snapshot' : (i # j => From(i) # From(j)) /\ (From(j) <= From(i) <=> j <= i)
      /\ \A i \in DOMAIN snapshot : i # p => \E j \in DOMAIN snapshot' : From(j) = i
  <2>1. snapshot \in Seq(Row)
    BY <1>1 DEF StoreTypes
  <2>2. /\ snapshot' \in Seq(Row)
        /\ Len(snapshot) \in Nat /\ DOMAIN snapshot = 1 .. Len(snapshot)
        /\ DOMAIN snapshot' = 1 .. Len(snapshot) - 1
        /\ \A i \in 1 .. Len(snapshot) - 1 : snapshot'[i] = IF i < p THEN snapshot[i] ELSE snapshot[i + 1]
    BY <1>4, <2>1, RemovedAt
  <2>3. p \in 1 .. Len(snapshot)
    BY <2>2
  <2>4. \A i \in DOMAIN snapshot' : From(i) \in DOMAIN snapshot /\ From(i) # p /\ snapshot'[i] = snapshot[From(i)]
    BY <2>2, <2>3
  <2>5. \A i, j \in DOMAIN snapshot' : (i # j => From(i) # From(j)) /\ (From(j) <= From(i) <=> j <= i)
    BY <2>2, <2>3
  <2>6. ASSUME NEW i \in DOMAIN snapshot, i # p PROVE \E j \in DOMAIN snapshot' : From(j) = i
    <3>1. CASE i < p
      BY <2>2, <2>3, <3>1
    <3>2. CASE i > p
      <4>1. i - 1 \in DOMAIN snapshot' /\ From(i - 1) = i
        BY <2>2, <2>3, <3>2
      <4>. QED BY <4>1
    <3>. QED BY <2>2, <2>3, <2>6, <3>1, <3>2
  <2>7. DOMAIN snapshot' \subseteq Nat
    BY <2>2
  <2>. QED BY <2>2, <2>4, <2>5, <2>6, <2>7
<1> HIDE DEF From
<1>6. /\ \A i \in DOMAIN snapshot : i # p => snapshot[i].key # Key(id) /\ snapshot[i].id # id
      /\ \A o \in Ids : Uploading(o) => upload[o].key # Key(id)
      /\ Key(id) \in Keys /\ Key(id) \in 1 .. usedKeys
      /\ snapshot[p].state = "retired" /\ snapshot[p].key = Key(id) /\ snapshot[p].id = id
  <2>1. snapshot[p].state = "retired" /\ snapshot[p].key = Key(id) /\ snapshot[p].id = id
    BY <1>4
  <2>. QED BY <1>1, <2>1, RowTypes DEF KeysInv
<1>7. /\ bucket' \in [Keys -> Contents] /\ bucket'[Key(id)] = "none"
      /\ \A key \in Keys : key # Key(id) => bucket'[key] = bucket[key]
  BY <1>1, <1>2, <1>6 DEF StoreTypes, Contents
<1>8. /\ task' \in [Ids -> Task] /\ task'[id] = Idle /\ \A o \in Ids : o # id => task'[o] = task[o]
      /\ \A o \in Ids : Uploading(o)' = Uploading(o)
  BY <1>1, <1>2, IdleIsTask DEF StoreTypes, Uploading
<1>9. StoreTypes'
  BY <1>1, <1>2, <1>5, <1>7, <1>8 DEF StoreTypes
<1>10. KeysInv'
  BY <1>1, <1>2, <1>5, <1>6, <1>7, <1>8 DEF KeysInv, Uploading
<1>11. AttemptsInv'
  <2>1. ASSUME NEW o \in Ids, Uploading(o)'
        PROVE  Fits(upload[o], bucket[upload[o].key], task[o])'
    <3>1. Fits(upload[o], bucket[upload[o].key], task[o]) /\ upload[o].key # Key(id)
      BY <1>1, <1>6, <1>8, <2>1 DEF AttemptsInv
    <3>2. upload[o].key \in Keys
      BY <1>1, <1>8, <2>1, KeysAreNumbers DEF StoreTypes, KeysInv, Keys
    <3>. QED BY <1>2, <1>7, <1>8, <3>1, <3>2, IdleIsTask DEF Fits
  <2>2. ASSUME NEW o \in Ids, ~Uploading(o)'
        PROVE  task'[o].pc \in RowPcs
    BY <1>1, <1>8, <2>2, IdleIsTask DEF AttemptsInv
  <2>3. ASSUME NEW o \in Ids, At(o, "delete")'
        PROVE  HasRow(o, Key(o), "retired")'
    <3>1. o # id /\ At(o, "delete") /\ Key(o)' = Key(o)
      BY <1>8, <2>3 DEF At, Key, Idle
    <3>2. PICK i \in DOMAIN snapshot : snapshot[i] = [id |-> o, key |-> Key(o), state |-> "retired"]
      BY <1>1, <3>1 DEF AttemptsInv, HasRow
    <3>3. i # p
      BY <1>6, <3>1, <3>2
    <3>4. PICK j \in DOMAIN snapshot' : From(j) = i
      BY <1>5, <3>3
    <3>5. snapshot'[j] = [id |-> o, key |-> Key(o), state |-> "retired"]
      BY <1>5, <3>2, <3>4
    <3>. QED BY <3>1, <3>5 DEF HasRow
  <2>. QED BY <2>1, <2>2, <2>3 DEF AttemptsInv
<1>12. BucketInv'
  <2>1. ASSUME NEW key \in Keys, bucket'[key] # "none"
        PROVE  \/ \E i \in DOMAIN snapshot' : snapshot'[i].key = key
               \/ \E o \in Ids : Uploading(o)' /\ upload'[o].key = key
    <3>1. key # Key(id) /\ bucket[key] # "none"
      BY <1>7, <2>1
    <3>2. CASE \E i \in DOMAIN snapshot : snapshot[i].key = key
      <4>1. PICK i \in DOMAIN snapshot : snapshot[i].key = key
        BY <3>2
      <4>2. PICK j \in DOMAIN snapshot' : From(j) = i
        BY <1>5, <1>6, <3>1, <4>1
      <4>. QED BY <1>5, <4>1, <4>2
    <3>3. CASE \E o \in Ids : Uploading(o) /\ upload[o].key = key
      BY <1>2, <1>8, <3>3
    <3>. QED BY <1>1, <3>1, <3>2, <3>3 DEF BucketInv
  <2>2. ASSUME NEW i \in DOMAIN snapshot', snapshot'[i].state = "servable"
        PROVE  bucket'[snapshot'[i].key] = "stored"
    <3>1. From(i) \in DOMAIN snapshot /\ From(i) # p /\ snapshot'[i] = snapshot[From(i)]
      BY <1>5
    <3>2. bucket[snapshot[From(i)].key] = "stored" /\ snapshot[From(i)].key # Key(id) /\ snapshot[From(i)].key \in Keys
      BY <1>1, <1>6, <2>2, <3>1, RowTypes DEF BucketInv
    <3>. QED BY <1>7, <3>1, <3>2
  <2>. QED BY <2>1, <2>2 DEF BucketInv
<1>13. StraysInv'
  BY <1>1, <1>2, <1>5, <1>8 DEF StraysInv
<1>14. LatestInv'
  <2>1. Servable(snapshot) \subseteq Servable(snapshot)'
    <3>. SUFFICES ASSUME NEW i \in DOMAIN snapshot, snapshot[i].state = "servable"
                  PROVE  snapshot[i].id \in Servable(snapshot)'
      BY DEF Servable
    <3>1. i # p
      BY <1>6
    <3>2. PICK j \in DOMAIN snapshot' : From(j) = i
      BY <1>5, <3>1
    <3>3. snapshot'[j] = snapshot[i]
      BY <1>5, <3>2
    <3>. QED BY <3>3 DEF Servable
  <2>2. session.latest # 0
    <3>1. \A i \in DOMAIN <<>> : FALSE
      OBVIOUS
    <3>. QED BY <1>1, <3>1 DEF LatestInv
  <2>3. LatestIsNewest'
    <3>. SUFFICES ASSUME NEW i \in DOMAIN snapshot', NEW j \in DOMAIN snapshot',
                         snapshot'[i].id = session.latest, snapshot'[j].state = "servable"
                  PROVE  \/ Cut[snapshot'[j].id] < Cut[snapshot'[i].id]
                         \/ Cut[snapshot'[j].id] = Cut[snapshot'[i].id] /\ j <= i
      BY <1>2 DEF LatestIsNewest
    <3>1. /\ From(i) \in DOMAIN snapshot /\ snapshot'[i] = snapshot[From(i)]
          /\ From(j) \in DOMAIN snapshot /\ snapshot'[j] = snapshot[From(j)]
          /\ From(j) <= From(i) <=> j <= i
      BY <1>5
    <3>. QED BY <1>1, <3>1 DEF LatestInv, LatestIsNewest
  <2>. QED BY <1>1, <1>2, <2>1, <2>2, <2>3 DEF LatestInv
<1>. QED BY <1>9, <1>10, <1>11, <1>12, <1>13, <1>14 DEF Inv

-----------------------------------------------------------------------------
(* Maintenance *)

\* Reconcile's effect on the uploads, and the jobs that are given out.
UploadsExpire ==
    upload' = [id \in Ids |-> IF id \in Expired(Active)
                              THEN [upload[id] EXCEPT !.state = "retired", !.expired = FALSE]
                              ELSE upload[id]]
JobsStart == task' = [id \in Ids |-> IF id \in Active THEN task[id] ELSE JobFor(id)]

\* A run of maintenance lets rows and uploads go, and gives each free id its job.
LEMMA ReconciledInv ==
  ASSUME Inv,
         session'.latest = session.latest, DOMAIN session' = SessionFields,
         RetiredFrom(snapshot, pins \cup ({session.latest} \ {0})),
         UploadsExpire, JobsStart,
         UNCHANGED <<bucket, usedKeys, strays, pins>>
  PROVE  Inv'
<1>1. /\ StoreTypes /\ KeysInv /\ AttemptsInv /\ BucketInv /\ StraysInv /\ LatestInv
  BY DEF Inv
<1>2. /\ snapshot' \in Seq(Row) /\ DOMAIN snapshot' = DOMAIN snapshot
      /\ \A i \in DOMAIN snapshot :
            /\ snapshot'[i].id = snapshot[i].id /\ snapshot'[i].key = snapshot[i].key
            /\ snapshot'[i].state \in {snapshot[i].state, "retired"}
            /\ snapshot[i].id \in pins \cup ({session.latest} \ {0}) => snapshot'[i].state = snapshot[i].state
  BY DEF RetiredFrom
<1>3. ASSUME NEW o \in Ids
      PROVE  /\ upload'[o] \in UploadRow /\ upload'[o].key = upload[o].key
             /\ Uploading(o)' = Uploading(o)
             /\ o \in Active => upload'[o] = upload[o] /\ task'[o] = task[o]
             /\ o \notin Active => task[o] = Idle /\ task'[o] = JobFor(o)
             /\ \/ upload'[o] = upload[o]
                \/ (upload[o].state \in {"preparing", "completed"} /\ upload'[o].state = "retired")
  <2>1. upload[o] \in UploadRow
    BY <1>1 DEF StoreTypes
  <2>2. o \notin Active => task[o] = Idle
    BY DEF Active
  <2>5. /\ upload'[o] = IF o \in Expired(Active)
                         THEN [upload[o] EXCEPT !.state = "retired", !.expired = FALSE] ELSE upload[o]
        /\ task'[o] = IF o \in Active THEN task[o] ELSE JobFor(o)
    BY DEF UploadsExpire, JobsStart
  <2>6. o \in Expired(Active) => o \notin Active
    BY DEF Expired
  <2>3. CASE o \in Expired(Active)
    <3>1. upload'[o] = [upload[o] EXCEPT !.state = "retired", !.expired = FALSE]
      BY <2>3, <2>5
    <3>2. o \notin Active /\ upload[o].state \in {"preparing", "completed"}
      BY <2>3 DEF Expired, Expirable
    <3>3. upload'[o] \in UploadRow /\ upload'[o].key = upload[o].key /\ upload'[o].state = "retired"
      BY <2>1, <3>1 DEF UploadRow
    <3>. QED BY <2>2, <2>5, <3>2, <3>3 DEF Uploading
  <2>4. CASE o \notin Expired(Active)
    <3>1. upload'[o] = upload[o]
      BY <2>4, <2>5
    <3>2. Uploading(o)' = Uploading(o)
      BY <3>1 DEF Uploading
    <3>3. /\ o \in Active => task'[o] = task[o]
          /\ o \notin Active => task'[o] = JobFor(o)
      BY <2>5
    <3>. QED BY <2>1, <2>2, <3>1, <3>2, <3>3, Zenon
  <2>. QED BY <2>3, <2>4
<1>4. ASSUME NEW o \in Ids, Uploading(o)
      PROVE  upload[o].key \in Keys /\ o \notin RowIds(snapshot)
  <2>1. upload[o].key \in Keys
    BY <1>1, <1>4, KeysAreNumbers DEF StoreTypes, KeysInv, Keys
  <2>. QED BY <1>1, <1>4, <2>1 DEF KeysInv, RowIds
<1>5. RowIds(snapshot)' = RowIds(snapshot)
  BY <1>2 DEF RowIds
<1>6. ASSUME NEW o \in Ids
      PROVE  /\ JobFor(o) \in Task
             /\ JobFor(o).pc \notin RowPcs =>
                   /\ Uploading(o) /\ JobFor(o).key = upload'[o].key
                   /\ upload'[o].state \in Awaited(JobFor(o).pc)
             /\ JobFor(o).pc = "delete" => 
                   \E i \in DOMAIN snapshot' : snapshot'[i] = [id |-> o, key |-> JobFor(o).key, state |-> "retired"]
             /\ JobFor(o).pc \notin {"settle", "sweepSettle"}
  <2>1. CASE o \in RowIds(snapshot)'
    <3>1. JobFor(o) = IF o \in Servable(snapshot') \cup pins' THEN Idle ELSE [pc |-> "delete", key |-> KeyOfRow(o)]
      BY <2>1 DEF JobFor
    <3>2. CASE JobFor(o) = Idle
      BY <3>2, IdleIsTask
    <3>3. CASE JobFor(o) # Idle
      <4>1. JobFor(o) = [pc |-> "delete", key |-> KeyOfRow(o)] /\ o \notin Servable(snapshot')
        BY <3>1, <3>3
      <4>2. KeyOfRow(o) \in Keys
        BY <1>1, <1>5, <2>1, KeyOfRowIsIts
      <4>3. PICK i \in DOMAIN snapshot : snapshot[i].id = o /\ snapshot[i].key = KeyOfRow(o)
        BY <1>1, <1>5, <2>1, KeyOfRowIsIts
      <4>4. i \in DOMAIN snapshot' /\ snapshot'[i].id = o /\ snapshot'[i].key = KeyOfRow(o)
        BY <1>2, <4>3
      <4>5. snapshot'[i].state = "retired"
        <5>1. snapshot'[i].state # "servable"
          BY <4>1, <4>4 DEF Servable
        <5>. QED BY <1>2, <4>4, <5>1, RowFields
      <4>6. snapshot'[i] = [id |-> o, key |-> KeyOfRow(o), state |-> "retired"]
        BY <1>2, <4>4, <4>5, RowFields
      <4>7. JobFor(o) \in Task /\ JobFor(o).pc = "delete" /\ JobFor(o).key = KeyOfRow(o)
        BY <4>1, <4>2 DEF Task, MaintenancePcs
      <4>. QED BY <4>4, <4>6, <4>7 DEF RowPcs
    <3>. QED BY <3>2, <3>3
  <2>2. CASE o \notin RowIds(snapshot)'
    <3>1. CASE upload'[o].state \in {"retired", "aborted"}
      <4>1. JobFor(o) = [pc |-> "cleanHead", key |-> upload'[o].key]
        BY <2>2, <3>1 DEF JobFor
      <4>2. Uploading(o) /\ upload'[o].key \in Keys
        BY <1>3, <1>4, <3>1 DEF Uploading
      <4>3. JobFor(o) \in Task /\ JobFor(o).pc = "cleanHead" /\ JobFor(o).key = upload'[o].key
        BY <4>1, <4>2 DEF Task, MaintenancePcs
      <4>4. upload'[o].state \in Awaited("cleanHead")
        BY <3>1 DEF Awaited
      <4>. QED BY <4>2, <4>3, <4>4 DEF RowPcs
    <3>2. CASE upload'[o].state \in {"uploading", "completing"}
      <4>1. JobFor(o) = [pc |-> "sweepAbort", key |-> upload'[o].key]
        BY <2>2, <3>2 DEF JobFor
      <4>2. Uploading(o) /\ upload'[o].key \in Keys
        BY <1>3, <1>4, <3>2 DEF Uploading
      <4>3. JobFor(o) \in Task /\ JobFor(o).pc = "sweepAbort" /\ JobFor(o).key = upload'[o].key
        BY <4>1, <4>2 DEF Task, MaintenancePcs
      <4>4. upload'[o].state \in Awaited("sweepAbort")
        BY <3>2 DEF Awaited
      <4>. QED BY <4>2, <4>3, <4>4 DEF RowPcs
    <3>3. CASE upload'[o].state \notin {"retired", "aborted", "uploading", "completing"}
      <4>1. JobFor(o) = Idle
        BY <2>2, <3>3 DEF JobFor
      <4>. QED BY <4>1, IdleIsTask
    <3>. QED BY <3>1, <3>2, <3>3
  <2>. QED BY <2>1, <2>2
<1>7. StoreTypes'
  <2>1. upload' \in [Ids -> UploadRow]
    BY <1>3 DEF UploadsExpire
  <2>2. task' \in [Ids -> Task]
    BY <1>1, <1>6 DEF StoreTypes, JobsStart
  <2>. QED BY <1>1, <1>2, <2>1, <2>2, Zenon DEF StoreTypes, SessionFields
<1>8. KeysInv'
  <2>1. \A i \in DOMAIN snapshot : snapshot[i].id \in Ids
    BY <1>1, RowTypes
  <2>2. \A o \in Ids : Uploading(o)' => upload'[o].key \in 1 .. usedKeys
    BY <1>1, <1>3 DEF KeysInv
  <2>3. \A i \in DOMAIN snapshot' : snapshot'[i].key \in 1 .. usedKeys /\ ~Uploading(snapshot[i].id)'
    BY <1>1, <1>2, <1>3, <2>1 DEF KeysInv
  <2>4. \A a, b \in Ids : Uploading(a)' /\ Uploading(b)' /\ a # b => upload'[a].key # upload'[b].key
    BY <1>1, <1>3 DEF KeysInv
  <2>5. \A o \in Ids, i \in DOMAIN snapshot' : Uploading(o)' => upload'[o].key # snapshot'[i].key
    BY <1>1, <1>2, <1>3 DEF KeysInv
  <2>6. \A i, j \in DOMAIN snapshot' : i # j => snapshot'[i].key # snapshot'[j].key /\ snapshot'[i].id # snapshot'[j].id
    BY <1>1, <1>2 DEF KeysInv
  <2>. QED BY <1>1, <2>2, <2>3, <2>4, <2>5, <2>6 DEF KeysInv
<1>9. AttemptsInv'
  <2>1. ASSUME NEW o \in Ids, Uploading(o)'
        PROVE  Fits(upload[o], bucket[upload[o].key], task[o])'
    <3>1. Uploading(o) /\ Fits(upload[o], bucket[upload[o].key], task[o]) /\ upload'[o].key = upload[o].key
      BY <1>1, <1>3, <2>1 DEF AttemptsInv
    <3>2. CASE o \in Active
      BY <1>3, <3>1, <3>2 DEF Fits
    <3>3. CASE o \notin Active
      BY <1>3, <1>6, <3>1, <3>3 DEF Fits
    <3>. QED BY <3>2, <3>3
  <2>2. ASSUME NEW o \in Ids, ~Uploading(o)'
        PROVE  task'[o].pc \in RowPcs
    BY <1>1, <1>3, <1>6, <2>2 DEF AttemptsInv
  <2>3. ASSUME NEW o \in Ids, At(o, "delete")'
        PROVE  HasRow(o, Key(o), "retired")'
    <3>1. CASE o \in Active
      <4>1. At(o, "delete") /\ Key(o)' = Key(o)
        BY <1>3, <2>3, <3>1 DEF At, Key
      <4>2. PICK i \in DOMAIN snapshot : snapshot[i] = [id |-> o, key |-> Key(o), state |-> "retired"]
        BY <1>1, <4>1 DEF AttemptsInv, HasRow
      <4>3. i \in DOMAIN snapshot' /\ snapshot'[i].id = o /\ snapshot'[i].key = Key(o) /\ snapshot'[i].state = "retired"
        BY <1>2, <4>2
      <4>4. snapshot'[i] = [id |-> o, key |-> Key(o), state |-> "retired"]
        BY <1>2, <4>3, RowFields
      <4>. QED BY <4>1, <4>3, <4>4 DEF HasRow
    <3>2. CASE o \notin Active
      BY <1>3, <1>6, <2>3, <3>2 DEF At, Key, HasRow
    <3>. QED BY <3>1, <3>2
  <2>. QED BY <2>1, <2>2, <2>3 DEF AttemptsInv
<1>10. BucketInv'
  <2>1. ASSUME NEW key \in Keys, bucket[key] # "none"
        PROVE  \/ \E i \in DOMAIN snapshot' : snapshot'[i].key = key
               \/ \E o \in Ids : Uploading(o)' /\ upload'[o].key = key
    <3>1. CASE \E i \in DOMAIN snapshot : snapshot[i].key = key
      BY <1>2, <3>1
    <3>2. CASE \E o \in Ids : Uploading(o) /\ upload[o].key = key
      BY <1>3, <3>2
    <3>. QED BY <1>1, <2>1, <3>1, <3>2 DEF BucketInv
  <2>2. ASSUME NEW i \in DOMAIN snapshot', snapshot'[i].state = "servable"
        PROVE  bucket[snapshot'[i].key] = "stored"
    BY <1>1, <1>2, <2>2 DEF BucketInv
  <2>. QED BY <2>1, <2>2 DEF BucketInv
<1>11. StraysInv'
  <2>1. ASSUME NEW s \in strays, s.op = "delete", NEW i \in DOMAIN snapshot', snapshot'[i].state = "servable"
        PROVE  snapshot'[i].key # s.key
    BY <1>1, <1>2, <2>1 DEF StraysInv
  <2>2. ASSUME NEW s \in strays, s.op = "delete", NEW o \in Ids, Uploading(o)', upload'[o].key = s.key
        PROVE  upload'[o].state \in {"retired", "aborted"}
    BY <1>1, <1>3, <2>2 DEF StraysInv
  <2>. QED BY <2>1, <2>2 DEF StraysInv
<1>12. LatestInv'
  <2>1. ASSUME NEW p \in pins \cup ({session.latest} \ {0}) PROVE p \in Servable(snapshot)'
    <3>1. PICK i \in DOMAIN snapshot : snapshot[i].id = p /\ snapshot[i].state = "servable"
      BY <1>1 DEF LatestInv, Servable
    <3>2. snapshot'[i].id = p /\ snapshot'[i].state = "servable" /\ i \in DOMAIN snapshot'
      BY <1>2, <3>1
    <3>. QED BY <3>2 DEF Servable
  <2>2. session.latest = 0 => snapshot' = <<>>
    <3>1. ASSUME session.latest = 0 PROVE snapshot' = <<>>
      <4>1. snapshot = <<>>
        BY <1>1, <3>1 DEF LatestInv
      <4>2. DOMAIN snapshot' = {}
        BY <1>2, <4>1
      <4>3. Len(snapshot') \in Nat /\ DOMAIN snapshot' = 1 .. Len(snapshot')
        BY <1>2, LenProperties
      <4>4. Len(snapshot') = 0
        BY <4>2, <4>3
      <4>. QED BY <1>2, <4>4, EmptySeq
    <3>. QED BY <3>1
  <2>3. LatestIsNewest'
    BY <1>1, <1>2 DEF LatestInv, LatestIsNewest
  <2>. QED BY <2>1, <2>2, <2>3 DEF LatestInv
<1>. QED BY <1>7, <1>8, <1>9, <1>10, <1>11, <1>12 DEF Inv

LEMMA MaintenanceInv ==
  ASSUME Inv, NEW armed, Maintenance(armed), UNCHANGED <<bucket, strays, pins>> PROVE Inv'
<1>1. snapshot \in Seq(Row) /\ DOMAIN session = SessionFields
  BY DEF Inv, StoreTypes, SessionFields
<1>2. CASE NeedsMaintenance(RetentionPins, Active)
  <2>1. /\ RetireEligible(session, snapshot, RetentionPins)
        /\ UploadsExpire /\ JobsStart /\ usedKeys' = usedKeys
    BY <1>2, Zenon DEF Maintenance, Reconcile, UploadsExpire, JobsStart
  <2>2. /\ session'.latest = session.latest /\ DOMAIN session' = SessionFields
        /\ RetiredFrom(snapshot, pins \cup ({session.latest} \ {0}))
    BY <1>1, <2>1, RetireOutcome
  <2>. QED BY <2>1, <2>2, ReconciledInv
<1>3. CASE ~NeedsMaintenance(RetentionPins, Active)
  BY <1>3, QuietInv DEF Maintenance, storeVars
<1>. QED BY <1>2, <1>3

-----------------------------------------------------------------------------

LEMMA NextInv == Inv /\ [SnapshotNext]_uploadVars => Inv'
<1>. SUFFICES ASSUME Inv, [SnapshotNext]_uploadVars PROVE Inv'
  OBVIOUS
<1>1. ASSUME NEW id \in Ids, RequestUpload(id) PROVE Inv'
  BY <1>1, RequestUploadInv
<1>2. ASSUME NEW id \in Ids, RequestWithoutAlarm(id) PROVE Inv'
  BY <1>2, QuietInv DEF RequestWithoutAlarm, storeVars
<1>3. ASSUME NEW id \in Ids, UploadContinues(id) PROVE Inv'
  BY <1>3, VerifyPublishedInv, PublishIfStoredInv, ProbeInv, CreateInv, UploadPartInv, CompleteInv,
     RejectAbortInv, RejectHeadInv, RecoverAbortInv, SettleInv, RestartHeadInv DEF UploadContinues
<1>4. ASSUME NEW id \in Ids, JobContinues(id) PROVE Inv'
  BY <1>4, DeleteInv, CleanHeadInv, CleanDeleteInv, CleanCheckInv, SweepAbortInv, SweepSettleInv DEF JobContinues
<1>5. ASSUME NEW id \in Ids, OperationFails(id) PROVE Inv'
  BY <1>5, OperationFailsInv
<1>6. ASSUME NEW id \in Ids, Expire(id) PROVE Inv'
  BY <1>6, ExpireInv
<1>7. ASSUME NEW id \in Ids, Pin(id) \/ Unpin(id) PROVE Inv'
  BY <1>7, PinInv
<1>8. CASE RunMaintenance
  BY <1>8, MaintenanceInv DEF RunMaintenance
<1>9. CASE Alarm
  BY <1>9, MaintenanceInv DEF Alarm
<1>10. CASE Wake
  BY <1>10, QuietInv DEF Wake, storeVars, volatileVars
<1>11. CASE Crash
  BY <1>11, CrashInv
<1>12. CASE StrayTakesEffect
  BY <1>12, StrayTakesEffectInv
<1>13. CASE UNCHANGED uploadVars
  BY <1>13, QuietInv DEF uploadVars, storeVars
<1>. QED BY <1>1, <1>2, <1>3, <1>4, <1>5, <1>6, <1>7, <1>8, <1>9, <1>10, <1>11, <1>12, <1>13 DEF SnapshotNext

\* The inductive invariant, of which the three properties are consequences.
THEOREM UploadInvariant == SnapshotSpec => []Inv
<1>. QED BY InitInv, NextInv, PTL DEF SnapshotSpec

\* PromisedSnapshotsAreStored: the object of a servable snapshot is there, and what a browser
\* pins and what is the latest is servable, whatever retention and late operations delete.
THEOREM PromisedStayStored == SnapshotSpec => []PromisedSnapshotsAreStored
<1>1. Inv => PromisedSnapshotsAreStored
  BY DEF Inv, BucketInv, LatestInv, PromisedSnapshotsAreStored
<1>. QED BY <1>1, UploadInvariant, PTL

\* ObjectsAreTracked: every object in the bucket is named by a row or an upload, from which it
\* is published or deleted, though requests and jobs stop or restart between any two steps.
THEOREM NothingIsOrphaned == SnapshotSpec => []ObjectsAreTracked
<1>1. Inv => ObjectsAreTracked
  BY DEF Inv, BucketInv, ObjectsAreTracked, Uploads, Uploading
<1>. QED BY <1>1, UploadInvariant, PTL

\* LatestIsNewest: no servable snapshot was cut later than the latest, or at the same cut and
\* published later, in whatever order uploads finish (#shouldAdvanceLatest).
THEOREM LatestStaysNewest == SnapshotSpec => []LatestIsNewest
<1>1. Inv => LatestIsNewest
  BY DEF Inv, LatestInv
<1>. QED BY <1>1, UploadInvariant, PTL

=============================================================================
