---------------------------- MODULE SnapshotStore ----------------------------
(***************************************************************************)
(* The records the relay keeps of a session's snapshots: class             *)
(* SnapshotStore, apps/terminal-cloud/src/worker/snapshot-store.ts.        *)
(*                                                                         *)
(* A snapshot is its id: its metadata never differs between requests for   *)
(* one id, so the "conflict" answers have no place here.  A cut stands for *)
(* the event sequence and the PTY offset, which grow together.  A key is   *)
(* one attempt's object key, fresh each time (randomId).  Times are        *)
(* absent: created_at is the order of publication, expires_at is whether   *)
(* it has passed, for the states in which that counts.  The batch limits   *)
(* (32) and the migration of a table that is over its limit                *)
(* (snapshot_retention_backlog) are left out: within the limits neither is *)
(* reached.                                                                *)
(***************************************************************************)
EXTENDS Integers, FiniteSets, Sequences, SequencesExt

CONSTANTS
    Ids,           \* snapshot ids
    Cut,           \* Cut[id]: the cut the snapshot was taken at
    MaxKeys,       \* bound on object keys ever used
    RecentGrace,   \* SNAPSHOT_RECENT_GRACE_LIMIT, 2 in the code
    UploadLimit,   \* SNAPSHOT_UPLOAD_RESERVATION_LIMIT, 4 in the code
    MaxPins,       \* maxPinnedSnapshots
    RowLimit       \* SNAPSHOT_OBJECT_RECORD_LIMIT, 32 in the code

ASSUME SnapshotStoreAssumption ==
    /\ Ids \subseteq Nat \ {0}
    /\ Cut \in [Ids -> Nat]
    /\ {MaxKeys, RecentGrace, UploadLimit, MaxPins, RowLimit} \subseteq Nat
    /\ MaxPins + 1 + RecentGrace + UploadLimit <= RowLimit

VARIABLES
    snapshot,      \* table snapshot in rowid order
    upload,        \* table snapshot_upload, by snapshot id
    session,       \* session_state: the latest snapshot and the recent ones
    usedKeys       \* keys 1 .. usedKeys have been given out

storeVars == <<snapshot, upload, session, usedKeys>>

Keys == 1 .. MaxKeys
NoUpload == [state |-> "none", key |-> 0, expired |-> FALSE]
\* Mutant: an upload that is being completed expires too.
ExpirableWhileCompleting == {"preparing", "completing", "completed"}
Expirable == {"preparing", "completed"}
Recoverable == {"uploading", "completing", "aborted"}

StoreInit ==
    /\ snapshot = <<>>
    /\ upload = [id \in Ids |-> NoUpload]
    /\ session = [latest |-> 0, recent |-> <<>>, candidates |-> <<>>]
    /\ usedKeys = 0

-----------------------------------------------------------------------------
(* Reading the tables *)

RowIds(rows) == {rows[i].id : i \in DOMAIN rows}
Servable(rows) == {rows[i].id : i \in {j \in DOMAIN rows : rows[j].state = "servable"}}
HasRow(id, key, state) == \E i \in DOMAIN snapshot : snapshot[i] = [id |-> id, key |-> key, state |-> state]
KeyOfRow(id) == CHOOSE key \in Keys : \E i \in DOMAIN snapshot : snapshot[i].id = id /\ snapshot[i].key = key
Uploads == {id \in Ids : upload[id].state # "none"}

\* The upload of id is still the attempt on key, in one of states.
Holds(id, key, states) == upload[id].key = key /\ upload[id].state \in states

\* beginUpload's admission of a new id.
HasRoom ==
    /\ Cardinality(Uploads) < UploadLimit
    /\ Len(snapshot) + Cardinality(Uploads) < RowLimit

-----------------------------------------------------------------------------
(* Recording what became of an attempt: each is an UPDATE whose WHERE names *)
(* the attempt, so that it does nothing once the row is another attempt's.  *)

Moved(id, key, from, to) ==
    IF Holds(id, key, from)
    THEN [upload EXCEPT ![id].state = to, ![id].expired = @ /\ to \in Expirable]
    ELSE upload

MultipartCreated(id, key) == Moved(id, key, {"preparing"}, "uploading")
PreparedRetired(id, key) == Moved(id, key, {"preparing"}, "retired")
MultipartCompleting(id, key) == Moved(id, key, {"uploading"}, "completing")
MultipartAborted(id, key) == Moved(id, key, {"uploading", "completing", "uncertain"}, "aborted")
MultipartUncertain(id, key) == Moved(id, key, {"uploading", "completing", "uncertain"}, "uncertain")
MultipartCompleted(id, key) == Moved(id, key, {"completing", "uncertain", "completed"}, "completed")

Deleted(id, key, from) ==
    IF Holds(id, key, from) THEN [upload EXCEPT ![id] = NoUpload] ELSE upload

FreshKey == usedKeys + 1
Prepared(id) == [upload EXCEPT ![id] = [state |-> "preparing", key |-> FreshKey, expired |-> FALSE]]

-----------------------------------------------------------------------------
(* Retention: the pinned snapshots, the latest and RecentGrace others stay. *)

\* Mutant: the browsers' pins do not protect.
ProtectedLatestOnly(s, pins) == {s.latest} \ {0}
Protected(s, pins) == pins \cup ({s.latest} \ {0})
AtMostRecent(ids) == SubSeq(ids, 1, IF Len(ids) < RecentGrace THEN Len(ids) ELSE RecentGrace)
FirstRecent(candidates, protected) ==
    AtMostRecent(SelectSeq(candidates, LAMBDA id : id \notin protected))

\* The protected snapshots join the ledger in no order that matters; the code's is that of a Set.
WithProtected(candidates, rows, protected) ==
    candidates \o SetToSortSeq((protected \cap Servable(rows)) \ ToSet(candidates), <)

\* The ledger keeps what is protected and what is recent.
Kept(candidates, protected, recent) ==
    SelectSeq(candidates, LAMBDA c : c \in protected \/ Contains(recent, c))

\* #touchRecentSnapshot
Touched(s, rows, id, pins) ==
    LET protected == Protected(s, pins)
        candidates == WithProtected(<<id>> \o SelectSeq(s.candidates, LAMBDA c : c # id), rows, protected)
        isFirst == id = s.latest \/ (s.recent # <<>> /\ id = Head(s.recent))
    IN  [s EXCEPT !.candidates = Kept(candidates, protected, FirstRecent(candidates, protected)),
                  !.recent = IF isFirst THEN @ ELSE AtMostRecent(<<id>> \o @)]

\* #ensureRecentGrace: the ledger, then the newest rows, fill what the protected leave.
Ledger(s, rows, pins) ==
    LET servable == Servable(rows)
    IN  WithProtected(SelectSeq(s.candidates, LAMBDA c : c \in servable), rows, Protected(s, pins))
NewestOthers(rows, ledger) ==
    LET others == SelectSeq(rows, LAMBDA row : row.state = "servable" /\ ~Contains(ledger, row.id))
    IN  Reverse([i \in DOMAIN others |-> others[i].id])
Refreshed(s, candidates, protected) ==
    LET recent == FirstRecent(candidates, protected)
    IN  [s EXCEPT !.recent = recent, !.candidates = Kept(candidates, protected, recent)]

\* #retentionCandidates: every row, retired already or not, that nothing protects.
Unprotected(s, rows, pins) ==
    RowIds(rows) \ (Protected(s, pins) \cup (ToSet(s.recent) \cap Servable(rows)))

\* #retireEligible: the recent ones are refreshed, then what nothing protects is retired.
RetireEligible(s, rows, pins) ==
    \E ledger \in {Ledger(s, rows, pins)} :
    \E refreshed \in {Refreshed(s, ledger \o NewestOthers(rows, ledger), Protected(s, pins))} :
    \E retiring \in {Unprotected(refreshed, rows, pins)} :
        /\ session' = refreshed
        /\ snapshot' = [i \in DOMAIN rows |->
                           IF rows[i].id \in retiring
                           THEN [rows[i] EXCEPT !.state = "retired"] ELSE rows[i]]

\* #recentGraceNeedsRefresh: a remembered recent snapshot is protected otherwise, or gone.
RecentIsStale(s, rows, pins) ==
    \E i \in DOMAIN s.recent :
        \/ s.recent[i] \in Protected(s, pins)
        \/ s.recent[i] \notin Servable(rows)
        \/ \E j \in 1 .. i - 1 : s.recent[j] = s.recent[i]

\* Mutant: whatever is published last is the latest.
AdvancesAlways(id) == TRUE

\* #shouldAdvanceLatest: at equal cuts the one published later is the latest.
AdvancesLatest(id) ==
    \/ session.latest \notin Servable(snapshot)
    \/ Cut[id] >= Cut[session.latest]

\* finalize, with up the uploads as the completion has just been recorded;
\* reached: the relay's head has come as far as the snapshot's cut.
Finalize(id, key, up, pins, reached) ==
    IF reached /\ id \notin RowIds(snapshot) /\ up[id].state = "completed" /\ up[id].key = key
    THEN /\ LET rows == Append(snapshot, [id |-> id, key |-> key, state |-> "servable"])
                advances == AdvancesLatest(id)
                advanced == IF advances THEN [session EXCEPT !.latest = id] ELSE session
                overtaken == IF advances /\ session.latest # 0 THEN session.latest ELSE id
            IN  \E touched \in {Touched(advanced, rows, overtaken, pins)} :
                    RetireEligible(touched, rows, pins)
         /\ upload' = [up EXCEPT ![id] = NoUpload]
         /\ UNCHANGED usedKeys
    ELSE /\ upload' = up
         /\ UNCHANGED <<snapshot, session, usedKeys>>

\* refreshPublishedExact
RefreshPublished(id, key, pins) ==
    /\ session' = IF HasRow(id, key, "servable") THEN Touched(session, snapshot, id, pins) ELSE session
    /\ UNCHANGED <<snapshot, upload, usedKeys>>

-----------------------------------------------------------------------------
(* Maintenance *)

\* retired: reservations and completed uploads whose time is over.
Expired(active) == {id \in Ids \ active : upload[id].state \in Expirable /\ upload[id].expired}

NeedsMaintenance(pins, active) ==
    \/ \E id \in Ids \ active : upload[id].state \in {"retired"} \cup Recoverable
    \/ Expired(active) # {}
    \/ RecentIsStale(session, snapshot, pins)
    \/ Unprotected(session, snapshot, pins) # {}

\* Mutant: only a reservation is looked at again.
HasNextReservation == \E id \in Ids : upload[id].state = "preparing"

\* nextUploadExpiry is defined: an upload has a time at which it is looked at again.
HasNextExpiry == \E id \in Ids : upload[id].state \in Expirable \cup Recoverable

\* reconcile and retired in one run of maintenance.
Reconcile(pins, active) ==
    /\ RetireEligible(session, snapshot, pins)
    /\ upload' = [id \in Ids |->
                    IF id \in Expired(active)
                    THEN [upload[id] EXCEPT !.state = "retired", !.expired = FALSE]
                    ELSE upload[id]]
    /\ UNCHANGED usedKeys

\* deleteRetired: there is at most one row of an id.
DeleteRetiredRow(id, key) ==
    /\ IF HasRow(id, key, "retired")
       THEN \E i \in DOMAIN snapshot :
               /\ snapshot[i] = [id |-> id, key |-> key, state |-> "retired"]
               /\ snapshot' = RemoveAt(snapshot, i)
       ELSE UNCHANGED snapshot
    /\ UNCHANGED <<upload, session, usedKeys>>

=============================================================================
