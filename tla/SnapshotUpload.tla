--------------------------- MODULE SnapshotUpload ----------------------------
(***************************************************************************)
(* Uploading snapshots and disposing of them: class                        *)
(* SnapshotUploadCoordinator,                                              *)
(* apps/terminal-cloud/src/worker/snapshot-upload-coordinator.ts, between  *)
(* the records of SnapshotStore and the R2 bucket, in a Durable Object     *)
(* that may restart between any two steps.                                 *)
(*                                                                         *)
(* A task is one upload request or one maintenance job; its pc names the   *)
(* R2 operation it awaits.  An action is the answer to that operation and  *)
(* what the code does with it until the next await.  The effect on the     *)
(* bucket is part of the same step: only the task owning an id touches the *)
(* id's key, except an operation nobody awaits any more (strays), which    *)
(* takes effect in a step of its own.  Awaiting the alarm is no step: what *)
(* is read before it is read again after it.  A createMultipartUpload      *)
(* whose answer is lost leaves an upload nobody can name, so no object.    *)
(***************************************************************************)
EXTENDS SnapshotStore

CONSTANT MaxFaults     \* bound on failed operations and restarts

VARIABLES
    task,          \* snapshotOperationOwners: the task that owns an id
    body,          \* activeSnapshotBodyUploadId, 0 is undefined
    asked,         \* a maintenance run has been asked for and has not begun
    awake,         \* the object is in memory
    alarm,         \* an alarm is set (durable)
    pins,          \* snapshots the browsers' sockets pin (durable attachments)
    bucket,        \* R2: "none", an "open" multipart upload or a "stored" object
    strays,        \* operations R2 may still perform that nobody awaits
    faults         \* failures so far (bound)

uploadVars == <<storeVars, task, body, asked, awake, alarm, pins, bucket, strays, faults>>
volatileVars == <<task, body, asked>>

Idle == [pc |-> "idle", key |-> 0]
UploadPcs == {"verifyPublished", "verifyCompleted", "probe", "create", "part", "complete",
              "confirm", "rejectAbort", "rejectHead", "recoverAbort", "settle", "restartHead",
              "uncertainHead"}
MaintenancePcs == {"delete", "cleanHead", "cleanDelete", "cleanCheck", "sweepAbort", "sweepSettle"}

SnapshotInit ==
    /\ StoreInit
    /\ task = [id \in Ids |-> Idle]
    /\ body = 0
    /\ asked = FALSE
    /\ awake = TRUE
    /\ alarm = FALSE
    /\ pins = {}
    /\ bucket = [key \in Keys |-> "none"]
    /\ strays = {}
    /\ faults = 0

Active == {id \in Ids : task[id] # Idle}
RetentionPins == pins \cup Active

At(id, pc) == task[id].pc = pc
Key(id) == task[id].key
Becomes(id, pc) == task' = [task EXCEPT ![id].pc = pc] /\ UNCHANGED asked
\* releaseSnapshotOperation of an upload asks for maintenance, a maintenance job's does not.
Answered(id) == task' = [task EXCEPT ![id] = Idle] /\ asked' = TRUE
Finished(id) == task' = [task EXCEPT ![id] = Idle] /\ UNCHANGED asked

Stored(id) == bucket[Key(id)] = "stored"
Open(id) == bucket[Key(id)] = "open"
Puts(id, content) == bucket' = [bucket EXCEPT ![Key(id)] = content]

\* The permit to stream a body is given back, whatever became of the upload.
BodyReleased(id) == IF body = id THEN 0 ELSE body

keptByUpload == <<awake, alarm, pins, strays, faults>>

-----------------------------------------------------------------------------
(* upload: a request for an id that no task owns *)

\* The record beginUpload finds, and the task that continues from it; "idle" is a refusal.
Continuation(id) ==
    CASE id \in Servable(snapshot) -> "verifyPublished"
      [] id \in RowIds(snapshot) \ Servable(snapshot) -> "idle"
      [] upload[id].state \in {"preparing", "retired"} -> "idle"
      [] upload[id].state = "completed" -> "verifyCompleted"
      [] upload[id].state = "aborted" -> "restartHead"
      [] upload[id].state = "uncertain" -> "uncertainHead"
      [] upload[id].state \in {"uploading", "completing"} -> "recoverAbort"
      [] OTHER -> IF HasRoom THEN "probe" ELSE "idle"

KeyToContinue(id) ==
    IF id \in RowIds(snapshot) THEN KeyOfRow(id)
    ELSE IF id \in Uploads THEN upload[id].key ELSE FreshKey

\* The watchdog is armed before anything is recorded.
RequestUpload(id) ==
    /\ awake
    /\ task[id] = Idle
    /\ Cardinality({i \in Active : task[i].pc \in UploadPcs}) < UploadLimit
    /\ LET pc == Continuation(id)
       IN  /\ pc = "probe" => usedKeys < MaxKeys
           /\ IF pc = "idle"
              THEN asked' = TRUE /\ UNCHANGED <<task, storeVars>>
              ELSE /\ task' = [task EXCEPT ![id] = [pc |-> pc, key |-> KeyToContinue(id)]]
                   /\ upload' = CASE pc = "probe" -> Prepared(id)
                                  [] id \in Uploads -> [upload EXCEPT ![id].expired = FALSE]
                                  [] OTHER -> upload
                   /\ usedKeys' = IF pc = "probe" THEN FreshKey ELSE usedKeys
                   /\ UNCHANGED <<snapshot, session, asked>>
    /\ alarm' = TRUE
    /\ UNCHANGED <<body, awake, pins, bucket, strays, faults>>

\* The watchdog cannot be armed: the request is answered 503 and leaves no record.
RequestWithoutAlarm(id) ==
    /\ awake
    /\ task[id] = Idle
    /\ faults < MaxFaults
    /\ faults' = faults + 1
    /\ asked' = TRUE
    /\ UNCHANGED <<storeVars, task, body, awake, alarm, pins, bucket, strays>>

\* verifyPublishedUpload
VerifyPublished(id) ==
    /\ At(id, "verifyPublished")
    /\ IF Stored(id) THEN RefreshPublished(id, Key(id), RetentionPins) ELSE UNCHANGED storeVars
    /\ Answered(id)
    /\ UNCHANGED <<body, bucket, keptByUpload>>

\* recordMultipartCompleted, then finalizeCompletedUpload.
Publishes(id) ==
    \E reached \in BOOLEAN :
        Finalize(id, Key(id), MultipartCompleted(id, Key(id)), RetentionPins, reached)

\* verifyCompletedUpload, completeMultipartUpload's head, and the head for an uncertain row.
PublishIfStored(id) ==
    /\ task[id].pc \in {"verifyCompleted", "confirm", "uncertainHead"}
    /\ IF Stored(id) THEN Publishes(id) ELSE UNCHANGED storeVars
    /\ Answered(id)
    /\ UNCHANGED <<body, bucket, keptByUpload>>

\* uploadPreparedSnapshotBody: the key must be new.
Probe(id) ==
    /\ At(id, "probe")
    /\ IF Stored(id)
       THEN upload' = PreparedRetired(id, Key(id)) /\ Answered(id)
       ELSE UNCHANGED upload /\ Becomes(id, "create")
    /\ UNCHANGED <<snapshot, session, usedKeys, body, bucket, keptByUpload>>

\* createMultipartUpload, then the permit to stream a body.
Create(id) ==
    /\ At(id, "create")
    /\ Puts(id, "open")
    /\ upload' = MultipartCreated(id, Key(id))
    /\ IF Holds(id, Key(id), {"preparing"}) /\ body = 0
       THEN body' = id /\ Becomes(id, "part")
       ELSE UNCHANGED body /\ Answered(id)
    /\ UNCHANGED <<snapshot, session, usedKeys, keptByUpload>>

\* uploadMultipartBody, its lengths and MD5 right; the SHA-256 may not be.
UploadPart(id) ==
    /\ At(id, "part")
    /\ body' = BodyReleased(id)
    /\ \/ /\ upload' = MultipartCompleting(id, Key(id))
          /\ IF Holds(id, Key(id), {"uploading"}) THEN Becomes(id, "complete") ELSE Answered(id)
          /\ UNCHANGED faults
       \/ /\ faults < MaxFaults
          /\ faults' = faults + 1
          /\ Becomes(id, "rejectAbort")
          /\ UNCHANGED upload
    /\ UNCHANGED <<snapshot, session, usedKeys, bucket, awake, alarm, pins, strays>>

Complete(id) ==
    /\ At(id, "complete")
    /\ IF Open(id)
       THEN Puts(id, "stored") /\ Becomes(id, "confirm")
       ELSE UNCHANGED bucket /\ Answered(id)
    /\ UNCHANGED <<storeVars, body, keptByUpload>>

\* rejectChecksumMismatch
RejectAbort(id) ==
    /\ At(id, "rejectAbort")
    /\ IF Open(id)
       THEN Puts(id, "none") /\ upload' = MultipartAborted(id, Key(id)) /\ Becomes(id, "rejectHead")
       ELSE UNCHANGED <<bucket, upload>> /\ Answered(id)
    /\ UNCHANGED <<snapshot, session, usedKeys, body, keptByUpload>>

RejectHead(id) ==
    /\ At(id, "rejectHead")
    /\ upload' = IF Stored(id) THEN upload ELSE Deleted(id, Key(id), {"aborted"})
    /\ Answered(id)
    /\ UNCHANGED <<snapshot, session, usedKeys, body, bucket, keptByUpload>>

\* recoverMultipartUpload: R2 refuses (10024) to abort what is not open.
RecoverAbort(id) ==
    /\ At(id, "recoverAbort")
    /\ IF Open(id)
       THEN Puts(id, "none") /\ upload' = MultipartAborted(id, Key(id)) /\ Becomes(id, "restartHead")
       ELSE UNCHANGED <<bucket, upload>> /\ Becomes(id, "settle")
    /\ UNCHANGED <<snapshot, session, usedKeys, body, keptByUpload>>

\* The same attempt is published only from completing, else it stays uncertain.
Settle(id) ==
    /\ At(id, "settle")
    /\ IF Stored(id) /\ Holds(id, Key(id), {"completing"})
       THEN Publishes(id)
       ELSE upload' = MultipartUncertain(id, Key(id)) /\ UNCHANGED <<snapshot, session, usedKeys>>
    /\ Answered(id)
    /\ UNCHANGED <<body, bucket, keptByUpload>>

\* restartAfterMultipartAbort: a new attempt on a new key.
RestartHead(id) ==
    /\ At(id, "restartHead")
    /\ IF ~Stored(id) /\ Holds(id, Key(id), {"aborted"})
       THEN /\ usedKeys < MaxKeys
            /\ upload' = Prepared(id)
            /\ usedKeys' = FreshKey
            /\ task' = [task EXCEPT ![id] = [pc |-> "probe", key |-> FreshKey]]
            /\ UNCHANGED asked
       ELSE Answered(id) /\ UNCHANGED <<upload, usedKeys>>
    /\ UNCHANGED <<snapshot, session, body, bucket, keptByUpload>>

-----------------------------------------------------------------------------
(* Maintenance jobs *)

\* deleteRetiredSnapshotObjects of a retired snapshot.
Delete(id) ==
    /\ At(id, "delete")
    /\ Puts(id, "none")
    /\ DeleteRetiredRow(id, Key(id))
    /\ Finished(id)
    /\ UNCHANGED <<body, keptByUpload>>

\* A retired upload and an aborted one are cleaned alike: head, delete, head.
CleanHead(id) ==
    /\ At(id, "cleanHead")
    /\ Becomes(id, IF Stored(id) THEN "cleanDelete" ELSE "cleanCheck")
    /\ UNCHANGED <<storeVars, body, bucket, keptByUpload>>

CleanDelete(id) ==
    /\ At(id, "cleanDelete")
    /\ Puts(id, "none")
    /\ Becomes(id, "cleanCheck")
    /\ UNCHANGED <<storeVars, body, keptByUpload>>

CleanCheck(id) ==
    /\ At(id, "cleanCheck")
    /\ upload' = IF Stored(id) THEN upload ELSE Deleted(id, Key(id), {"retired", "aborted"})
    /\ alarm' = (alarm \/ Stored(id))
    /\ Finished(id)
    /\ UNCHANGED <<snapshot, session, usedKeys, body, bucket, awake, pins, strays, faults>>

\* recoverMultipartForMaintenance records what it finds and publishes nothing.
SweepAbort(id) ==
    /\ At(id, "sweepAbort")
    /\ IF Open(id)
       THEN Puts(id, "none") /\ upload' = MultipartAborted(id, Key(id)) /\ Becomes(id, "cleanHead")
       ELSE UNCHANGED <<bucket, upload>> /\ Becomes(id, "sweepSettle")
    /\ UNCHANGED <<snapshot, session, usedKeys, body, keptByUpload>>

SweepSettle(id) ==
    /\ At(id, "sweepSettle")
    /\ upload' = IF Stored(id) /\ Holds(id, Key(id), {"completing"})
                 THEN MultipartCompleted(id, Key(id))
                 ELSE MultipartUncertain(id, Key(id))
    /\ Finished(id)
    /\ UNCHANGED <<snapshot, session, usedKeys, body, bucket, keptByUpload>>

-----------------------------------------------------------------------------
(* runMaintenance *)

\* The job an id gets: delete what retention has let go of, clean what has
\* expired or was given up, recover an upload nobody is working on.
JobFor(id) ==
    IF id \in RowIds(snapshot')
    THEN IF id \in Servable(snapshot') \cup pins THEN Idle ELSE [pc |-> "delete", key |-> KeyOfRow(id)]
    ELSE CASE upload'[id].state \in {"retired", "aborted"} -> [pc |-> "cleanHead", key |-> upload'[id].key]
           [] upload'[id].state \in {"uploading", "completing"} -> [pc |-> "sweepAbort", key |-> upload'[id].key]
           [] OTHER -> Idle

Maintenance(armed) ==
    IF NeedsMaintenance(RetentionPins, Active)
    THEN /\ alarm' = TRUE
         /\ Reconcile(RetentionPins, Active)
         /\ task' = [id \in Ids |-> IF id \in Active THEN task[id] ELSE JobFor(id)]
    ELSE /\ alarm' = \/ armed
                     \/ HasNextExpiry
                     \/ \E id \in Active : task[id].pc \in MaintenancePcs
         /\ UNCHANGED <<storeVars, task>>

\* scheduleMaintenance's run.
RunMaintenance ==
    /\ awake
    /\ asked
    /\ asked' = FALSE
    /\ Maintenance(alarm)
    /\ UNCHANGED <<body, awake, pins, bucket, strays, faults>>

\* The alarm goes off, and wakes the object if need be.
Alarm ==
    /\ alarm
    /\ awake' = TRUE
    /\ Maintenance(FALSE)
    /\ UNCHANGED <<body, asked, pins, bucket, strays, faults>>

\* initialize, when a request or a socket's event wakes the object.
Wake ==
    /\ ~awake
    /\ awake' = TRUE
    /\ alarm' = \/ alarm
                \/ NeedsMaintenance(RetentionPins, Active)
                \/ HasNextExpiry
    /\ UNCHANGED <<storeVars, volatileVars, pins, bucket, strays, faults>>

-----------------------------------------------------------------------------
(* Failures, time and the browsers *)

\* What R2 may still do of an operation that is no longer awaited.
Mutation(id) ==
    CASE task[id].pc = "complete" -> {[op |-> "complete", key |-> Key(id)]}
      [] task[id].pc \in {"rejectAbort", "recoverAbort", "sweepAbort"} -> {[op |-> "abort", key |-> Key(id)]}
      [] task[id].pc \in {"delete", "cleanDelete"} -> {[op |-> "delete", key |-> Key(id)]}
      [] OTHER -> {}

\* The operation is rejected or its deadline passes (runR2WithinDeadline, the
\* body's timeout): a failed probe takes its reservation back, a maintenance
\* job sees to an alarm.
OperationFails(id) ==
    /\ task[id] # Idle
    /\ faults < MaxFaults
    /\ faults' = faults + 1
    /\ \E stray \in SUBSET Mutation(id) : strays' = strays \cup stray
    /\ upload' = IF At(id, "probe") THEN Deleted(id, Key(id), {"preparing"}) ELSE upload
    /\ body' = BodyReleased(id)
    /\ IF task[id].pc \in UploadPcs
       THEN Answered(id) /\ UNCHANGED alarm
       ELSE Finished(id) /\ alarm' = TRUE
    /\ UNCHANGED <<snapshot, session, usedKeys, awake, pins, bucket>>

\* The object is evicted or restarted: what was in memory is gone.
Crash ==
    /\ awake
    /\ faults < MaxFaults
    /\ faults' = faults + 1
    /\ \E lost \in SUBSET UNION {Mutation(id) : id \in Active} : strays' = strays \cup lost
    /\ task' = [id \in Ids |-> Idle]
    /\ body' = 0
    /\ asked' = FALSE
    /\ awake' = FALSE
    /\ UNCHANGED <<storeVars, alarm, pins, bucket>>

\* R2 performs an operation after all.
StrayTakesEffect ==
    \E stray \in strays :
        /\ strays' = strays \ {stray}
        /\ bucket' = CASE stray.op = "delete" -> [bucket EXCEPT ![stray.key] = "none"]
                       [] bucket[stray.key] = "open" ->
                            [bucket EXCEPT ![stray.key] = IF stray.op = "complete" THEN "stored" ELSE "none"]
                       [] OTHER -> bucket
        /\ UNCHANGED <<storeVars, volatileVars, awake, alarm, pins, faults>>

\* An upload's time is over.
Expire(id) ==
    /\ upload[id].state \in Expirable
    /\ ~upload[id].expired
    /\ upload' = [upload EXCEPT ![id].expired = TRUE]
    /\ UNCHANGED <<snapshot, session, usedKeys, volatileVars, awake, alarm, pins, bucket, strays, faults>>

\* DeliveryBarrierController resolves a barrier: the browser pins a published
\* snapshot, and maintenance is asked for, as the recent ones may be fewer now.
Pin(id) ==
    /\ awake
    /\ id \in Servable(snapshot) \ pins
    /\ Cardinality(pins) < MaxPins
    /\ pins' = pins \cup {id}
    /\ asked' = TRUE
    /\ UNCHANGED <<storeVars, task, body, awake, alarm, bucket, strays, faults>>

\* RelaySocketRuntime releases a pin.
Unpin(id) ==
    /\ awake
    /\ id \in pins
    /\ pins' = pins \ {id}
    /\ asked' = TRUE
    /\ UNCHANGED <<storeVars, task, body, awake, alarm, bucket, strays, faults>>

-----------------------------------------------------------------------------

UploadContinues(id) ==
    \/ VerifyPublished(id)
    \/ PublishIfStored(id)
    \/ Probe(id)
    \/ Create(id)
    \/ UploadPart(id)
    \/ Complete(id)
    \/ RejectAbort(id)
    \/ RejectHead(id)
    \/ RecoverAbort(id)
    \/ Settle(id)
    \/ RestartHead(id)

JobContinues(id) ==
    \/ Delete(id)
    \/ CleanHead(id)
    \/ CleanDelete(id)
    \/ CleanCheck(id)
    \/ SweepAbort(id)
    \/ SweepSettle(id)

SnapshotNext ==
    \/ \E id \in Ids : \/ RequestUpload(id)
                       \/ RequestWithoutAlarm(id)
                       \/ UploadContinues(id)
                       \/ JobContinues(id)
                       \/ OperationFails(id)
                       \/ Expire(id)
                       \/ Pin(id)
                       \/ Unpin(id)
    \/ RunMaintenance
    \/ Alarm
    \/ Wake
    \/ Crash
    \/ StrayTakesEffect

\* R2 answers a maintenance job, a run that was asked for begins, the alarm goes
\* off, and time passes.  An upload need not get anywhere.
SnapshotFairness ==
    /\ \A id \in Ids : WF_uploadVars(JobContinues(id)) /\ WF_uploadVars(Expire(id))
    /\ WF_uploadVars(RunMaintenance \/ Alarm)

SnapshotSpec == SnapshotInit /\ [][SnapshotNext]_uploadVars /\ SnapshotFairness

-----------------------------------------------------------------------------

\* Every variable has its type, rows, uploads and keys are each an id's or an
\* attempt's own, and the body permit is held by an upload that is streaming.
SnapshotTypeOK ==
    /\ \A i \in DOMAIN snapshot :
          /\ snapshot[i] \in [id : Ids, key : Keys, state : {"servable", "retired"}]
          /\ snapshot[i].id \notin Uploads
          /\ \A j \in 1 .. i - 1 : snapshot[j].id # snapshot[i].id
    /\ upload \in [Ids -> [state : {"none", "uncertain", "retired"} \cup Expirable \cup Recoverable,
                           key : Keys \cup {0}, expired : BOOLEAN]]
    /\ session.latest \in Ids \cup {0}
    /\ ToSet(session.recent) \cup ToSet(session.candidates) \subseteq Ids
    /\ usedKeys \in 0 .. MaxKeys
    /\ \A id \in Ids : task[id] = Idle \/ task[id] \in [pc : UploadPcs \cup MaintenancePcs, key : Keys]
    /\ body # 0 => At(body, "part")
    /\ {asked, awake, alarm} \subseteq BOOLEAN
    /\ pins \subseteq Ids
    /\ bucket \in [Keys -> {"none", "open", "stored"}]
    /\ strays \subseteq [op : {"complete", "abort", "delete"}, key : Keys]
    /\ faults \in 0 .. MaxFaults

\* What a browser can be sent to is there: the object of every servable snapshot
\* is in the bucket, and the snapshots the browsers pin and the latest one stay
\* servable, whatever is being deleted (retention, snapshot-gc.ts) and whatever
\* operation of an earlier attempt or an earlier life of the object comes late.
PromisedSnapshotsAreStored ==
    /\ \A i \in DOMAIN snapshot :
          snapshot[i].state = "servable" => bucket[snapshot[i].key] = "stored"
    /\ pins \cup ({session.latest} \ {0}) \subseteq Servable(snapshot)

\* No object is orphaned: one that is in the bucket is named by a record from
\* which it is published or deleted, through timeouts and restarts at every step.
ObjectsAreTracked ==
    \A key \in Keys :
        bucket[key] = "stored" =>
            \/ \E i \in DOMAIN snapshot : snapshot[i].key = key
            \/ \E id \in Uploads : upload[id].key = key

\* The latest snapshot is the newest there is: none that is servable was cut
\* later, or at the same cut and published later, though uploads finish in any
\* order (#shouldAdvanceLatest).
LatestIsNewest ==
    \A i, j \in DOMAIN snapshot :
        snapshot[i].id = session.latest /\ snapshot[j].state = "servable" =>
            \/ Cut[snapshot[j].id] < Cut[snapshot[i].id]
            \/ Cut[snapshot[j].id] = Cut[snapshot[i].id] /\ j <= i

\* Nothing is left behind: a retired snapshot is deleted in the end, and an
\* upload ends unless a client keeps at it; only an upload whose outcome R2
\* cannot tell (uncertain) waits for its client (the watchdog alarm, maintenance).
GarbageIsCollected ==
    \A id \in Ids :
        []<>(/\ id \in RowIds(snapshot) => id \in Servable(snapshot)
             /\ id \in Uploads => upload[id].state = "uncertain" \/ task[id].pc \in UploadPcs)

=============================================================================
