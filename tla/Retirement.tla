----------------------------- MODULE Retirement -----------------------------
(***************************************************************************)
(* The steps inside retire_session, and the readers of its receipt.        *)
(*                                                                         *)
(* Runtime takes a retirement as one action, which is what the actor makes *)
(* of it for every other operation.  Two things see its middle: a crash,   *)
(* and retirement_receipt, which HTTP threads run without queueing.  This  *)
(* module takes one session through its retirement one system call at a    *)
(* time (gpu/gpu_runtime/runtime.py:42-60, 252-392).                       *)
(*                                                                         *)
(* A file is absent, visible to readers, or durable: visible and sure to   *)
(* survive a power loss, because its bytes and its directory entry were    *)
(* synced.  A crash keeps durable files and any subset of the others.      *)
(***************************************************************************)
EXTENDS Naturals

CONSTANTS
    Readers,      \* threads serving GET /sessions/{id}/retire/v1
    MaxCrashes    \* bound on crashes

ASSUME RetirementAssumption == MaxCrashes \in Nat

VARIABLES
    pc,           \* next step of the retirement
    disk,         \* the session's snapshot, prepared.json and released.json
    tombstone,    \* the session is in _retired_session_ids
    backendGone,  \* backend.delete_session returned
    storeGone,    \* sessions.delete returned
    ack,          \* what the caller of retire_session was told
    up,           \* the server process runs
    crashes,
    reader,       \* next step of each reader
    seen,         \* records each reader has read
    answer,       \* what each reader reported
    afterAck      \* the reader began after retire_session had returned

memory  == <<tombstone, backendGone, storeGone>>
readers == <<reader, seen, answer, afterAck>>
vars    == <<pc, disk, memory, ack, up, crashes, readers>>

Files == {"snapshot", "prepared", "released"}

\* With reuse_snapshot the snapshot is already there, and may not be synced.
Init ==
    /\ pc = "snapshot"
    /\ disk \in {[f \in Files |-> "absent"],
                 [f \in Files |-> IF f = "snapshot" THEN "visible" ELSE "absent"]}
    /\ tombstone = FALSE /\ backendGone = FALSE /\ storeGone = FALSE
    /\ ack = "none" /\ up = TRUE /\ crashes = 0
    /\ reader = [r \in Readers |-> "idle"]
    /\ seen = [r \in Readers |-> {}]
    /\ answer = [r \in Readers |-> "none"]
    /\ afterAck = [r \in Readers |-> FALSE]

-----------------------------------------------------------------------------
(* retire_session                                                          *)

At(here, next) == up /\ pc = here /\ pc' = next /\ UNCHANGED <<up, crashes, readers>>

Visible(f) == disk' = [disk EXCEPT ![f] = IF @ = "absent" THEN "visible" ELSE @]
Durable(f) == disk' = [disk EXCEPT ![f] = "durable"]

\* snapshots.create renames a synced directory into place, or the snapshot is
\* verified; neither syncs the parent directory.
SaveSnapshot == At("snapshot", "syncSnapshot") /\ Visible("snapshot") /\ UNCHANGED <<memory, ack>>

SyncSnapshot == At("syncSnapshot", "tombstone") /\ Durable("snapshot") /\ UNCHANGED <<memory, ack>>

SetTombstone ==
    /\ At("tombstone", "linkPrepared")
    /\ tombstone' = TRUE
    /\ UNCHANGED <<disk, backendGone, storeGone, ack>>

LinkPreparedUnsynced ==
    At("linkPrepared", "deleteBackend") /\ Visible("prepared") /\ UNCHANGED <<memory, ack>>
LinkPrepared == At("linkPrepared", "syncPrepared") /\ Visible("prepared") /\ UNCHANGED <<memory, ack>>

SyncPreparedThenReleased ==
    At("syncPrepared", "linkReleased") /\ Durable("prepared") /\ UNCHANGED <<memory, ack>>
SyncPrepared == At("syncPrepared", "deleteBackend") /\ Durable("prepared") /\ UNCHANGED <<memory, ack>>

DeleteBackend ==
    /\ At("deleteBackend", "deleteStore")
    /\ backendGone' = TRUE
    /\ UNCHANGED <<disk, tombstone, storeGone, ack>>

DeleteStore ==
    /\ At("deleteStore", "linkReleased")
    /\ storeGone' = TRUE
    /\ UNCHANGED <<disk, tombstone, backendGone, ack>>

LinkReleasedAcked ==
    At("linkReleased", "end") /\ Visible("released") /\ ack' = "released" /\ UNCHANGED memory
LinkReleased == At("linkReleased", "syncReleased") /\ Visible("released") /\ UNCHANGED <<memory, ack>>

SyncReleased ==
    At("syncReleased", "end") /\ Durable("released") /\ ack' = "released" /\ UNCHANGED memory

\* Any call may raise: the session stays live before the tombstone and is
\* quarantined after it, and the caller is told of an error.
Raise ==
    /\ pc # "end"
    /\ At(pc, "end")
    /\ ack' = "error"
    /\ UNCHANGED <<disk, memory>>

-----------------------------------------------------------------------------
(* Crash and restart on the same disk.                                     *)

Crash ==
    /\ up /\ crashes < MaxCrashes
    /\ crashes' = crashes + 1
    /\ up' = FALSE
    /\ pc' = "end"
    /\ \E lost \in SUBSET {f \in Files : disk[f] = "visible"} :
           disk' = [f \in Files |-> IF f \in lost THEN "absent" ELSE disk[f]]
    /\ reader' = [r \in Readers |-> IF reader[r] = "done" THEN "done" ELSE "idle"]
    /\ UNCHANGED <<memory, ack, seen, answer, afterAck>>

Restart ==
    /\ ~up /\ up' = TRUE
    /\ UNCHANGED <<pc, disk, memory, ack, crashes, readers>>

-----------------------------------------------------------------------------
(* retirement_receipt                                                      *)

Begin(r) ==
    /\ up /\ reader[r] = "idle"
    /\ reader' = [reader EXCEPT ![r] = "prepared"]
    /\ seen' = [seen EXCEPT ![r] = {}]
    /\ afterAck' = [afterAck EXCEPT ![r] = ack = "released"]
    /\ UNCHANGED <<pc, disk, memory, ack, up, crashes, answer>>

\* The loop over ("prepared", "released"); a missing file is passed over.
ReadRecord(r, f, next) ==
    /\ up /\ reader[r] = f
    /\ reader' = [reader EXCEPT ![r] = next]
    /\ seen' = [seen EXCEPT ![r] = IF disk[f] = "absent" THEN @ ELSE @ \cup {f}]
    /\ UNCHANGED <<pc, disk, memory, ack, up, crashes, answer, afterAck>>

Report(r) ==
    IF seen[r] = {} THEN "not found"
    ELSE IF "prepared" \notin seen[r] THEN "missing its prepared record"
    ELSE IF disk["snapshot"] = "absent" THEN "manifest missing"
    ELSE IF "released" \in seen[r] THEN "released" ELSE "prepared"

Conclude(r) ==
    /\ up /\ reader[r] = "manifest"
    /\ reader' = [reader EXCEPT ![r] = "done"]
    /\ answer' = [answer EXCEPT ![r] = Report(r)]
    /\ UNCHANGED <<pc, disk, memory, ack, up, crashes, seen, afterAck>>

-----------------------------------------------------------------------------
\* The retirement is over and every reader has reported.
Rest ==
    /\ pc = "end" /\ up /\ \A r \in Readers : reader[r] = "done"
    /\ UNCHANGED vars

Next ==
    \/ SaveSnapshot \/ SyncSnapshot \/ SetTombstone \/ LinkPrepared \/ SyncPrepared
    \/ DeleteBackend \/ DeleteStore \/ LinkReleased \/ SyncReleased \/ Raise
    \/ Crash \/ Restart
    \/ \E r \in Readers : \/ Begin(r)
                          \/ ReadRecord(r, "prepared", "released")
                          \/ ReadRecord(r, "released", "manifest")
                          \/ Conclude(r)
    \/ Rest

Spec == Init /\ [][Next]_vars

-----------------------------------------------------------------------------
(* Properties.                                                             *)

\* Every variable has its type; a reader reports one of the outcomes the
\* server has a status for.
TypeOK ==
    /\ pc \in {"snapshot", "syncSnapshot", "tombstone", "linkPrepared", "syncPrepared",
               "deleteBackend", "deleteStore", "linkReleased", "syncReleased", "end"}
    /\ disk \in [Files -> {"absent", "visible", "durable"}]
    /\ {tombstone, backendGone, storeGone, up} \subseteq BOOLEAN
    /\ ack \in {"none", "released", "error"}
    /\ crashes \in 0..MaxCrashes
    /\ reader \in [Readers -> {"idle", "prepared", "released", "manifest", "done"}]
    /\ seen \in [Readers -> SUBSET {"prepared", "released"}]
    /\ answer \in [Readers -> {"none", "not found", "missing its prepared record",
                               "manifest missing", "prepared", "released"}]
    /\ afterAck \in [Readers -> BOOLEAN]
    /\ \A r \in Readers : reader[r] = "done" <=> answer[r] # "none"

\* A retirement deletes the live parameters only when the snapshot and the
\* record that names it survive any crash (runtime.py:294-313).
NothingIsLost ==
    backendGone => disk["snapshot"] = "durable" /\ disk["prepared"] = "durable"

\* Once retire_session has returned, a reader that asks afterwards is told
\* "released", across crashes too (runtime.py:258-261).
AckedIsReadable ==
    /\ ack = "released" => \A f \in Files : disk[f] = "durable"
    /\ \A r \in Readers : reader[r] = "done" /\ afterAck[r] => answer[r] = "released"

\* "Only a validated released record confirms release": it is reported only
\* when both halves of the session are gone (runtime.py:329-330), and no record
\* is found whose snapshot a crash has lost (runtime.py:383-386).
ReportsAreTrue ==
    \A r \in Readers :
        /\ answer[r] = "released" => backendGone /\ storeGone
        /\ answer[r] = "prepared" => tombstone
        /\ answer[r] # "manifest missing"

=============================================================================
