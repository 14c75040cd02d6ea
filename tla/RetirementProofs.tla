--------------------------- MODULE RetirementProofs ---------------------------
(***************************************************************************)
(* The safety of a retirement under crashes, for any number of readers and *)
(* of crashes.                                                             *)
(***************************************************************************)
EXTENDS Retirement, TLAPS

\* How far the retirement has come fixes what is durable and what is gone; a
\* record that is on disk, or that a reader holds, says the same.
Progress ==
    /\ pc \in {"tombstone", "linkPrepared", "syncPrepared", "deleteBackend", "deleteStore",
               "linkReleased", "syncReleased"} => disk["snapshot"] = "durable"
    /\ pc \in {"linkPrepared", "syncPrepared", "deleteBackend", "deleteStore",
               "linkReleased", "syncReleased"} => tombstone
    /\ pc \in {"deleteBackend", "deleteStore", "linkReleased", "syncReleased"} =>
           disk["prepared"] = "durable"
    /\ pc \in {"deleteStore", "linkReleased", "syncReleased"} => backendGone
    /\ pc \in {"linkReleased", "syncReleased"} => storeGone
    /\ backendGone => disk["snapshot"] = "durable" /\ disk["prepared"] = "durable"
    /\ disk["prepared"] # "absent" => tombstone /\ disk["snapshot"] = "durable"
    /\ disk["released"] # "absent" =>
           backendGone /\ storeGone /\ disk["prepared"] = "durable"
    /\ ack = "released" => pc = "end" /\ \A f \in Files : disk[f] = "durable"

\* What a reader has seen is still so, and one that began after the caller was
\* answered finds every record.
ReaderKnows(r) ==
    /\ "prepared" \in seen[r] => tombstone /\ disk["snapshot"] = "durable"
    /\ "released" \in seen[r] => backendGone /\ storeGone
    /\ answer[r] = "released" => backendGone /\ storeGone
    /\ answer[r] = "prepared" => tombstone
    /\ answer[r] # "manifest missing"
    /\ afterAck[r] =>
           /\ ack = "released"
           /\ reader[r] \in {"released", "manifest"} => "prepared" \in seen[r]
           /\ reader[r] = "manifest" => "released" \in seen[r]
           /\ reader[r] = "done" => answer[r] = "released"

IInv == TypeOK /\ Progress /\ \A r \in Readers : ReaderKnows(r)

\* Before the retirement begins nothing is gone and no record exists.
LEMMA InitInv == Init => IInv
<1> SUFFICES ASSUME Init PROVE IInv
  OBVIOUS
<1>1. disk \in [Files -> {"absent", "visible", "durable"}]
      /\ disk["prepared"] = "absent" /\ disk["released"] = "absent"
  BY DEF Init, Files
<1>2. TypeOK
  <2>1. {tombstone, backendGone, storeGone, up} \subseteq BOOLEAN
    BY DEF Init
  <2>2. crashes \in 0..MaxCrashes
    BY RetirementAssumption DEF Init
  <2>3. QED
    BY <1>1, <2>1, <2>2 DEF Init, TypeOK
<1>3. Progress
  BY <1>1 DEF Init, Progress
<1>4. \A r \in Readers : ReaderKnows(r)
  BY DEF Init, ReaderKnows
<1>5. QED
  BY <1>2, <1>3, <1>4 DEF IInv

\* The types are preserved by every step.
LEMMA TypeStep == TypeOK /\ [Next]_vars => TypeOK'
<1> SUFFICES ASSUME TypeOK, [Next]_vars PROVE TypeOK'
  OBVIOUS
<1>0. /\ disk \in [Files -> {"absent", "visible", "durable"}]
      /\ pc \in {"snapshot", "syncSnapshot", "tombstone", "linkPrepared", "syncPrepared",
                "deleteBackend", "deleteStore", "linkReleased", "syncReleased", "end"}
      /\ tombstone \in BOOLEAN /\ backendGone \in BOOLEAN /\ storeGone \in BOOLEAN
      /\ up \in BOOLEAN /\ ack \in {"none", "released", "error"}
      /\ crashes \in 0..MaxCrashes
  BY DEF TypeOK
<1>1. CASE \/ SaveSnapshot \/ SyncSnapshot \/ SetTombstone \/ LinkPrepared \/ SyncPrepared
           \/ DeleteBackend \/ DeleteStore \/ LinkReleased \/ SyncReleased \/ Raise
  <2>1. disk' \in [Files -> {"absent", "visible", "durable"}]
    BY <1>0, <1>1
    DEF SaveSnapshot, SyncSnapshot, SetTombstone, LinkPrepared, SyncPrepared, DeleteBackend,
        DeleteStore, LinkReleased, SyncReleased, Raise, Visible, Durable
  <2>2. pc' \in {"snapshot", "syncSnapshot", "tombstone", "linkPrepared", "syncPrepared",
                "deleteBackend", "deleteStore", "linkReleased", "syncReleased", "end"}
    BY <1>1
    DEF SaveSnapshot, SyncSnapshot, SetTombstone, LinkPrepared, SyncPrepared, DeleteBackend,
        DeleteStore, LinkReleased, SyncReleased, Raise, At
  <2>3. /\ tombstone' \in {tombstone, TRUE} /\ backendGone' \in {backendGone, TRUE}
        /\ storeGone' \in {storeGone, TRUE} /\ ack' \in {ack, "released", "error"}
        /\ UNCHANGED <<up, crashes, readers>>
    BY <1>1
    DEF SaveSnapshot, SyncSnapshot, SetTombstone, LinkPrepared, SyncPrepared, DeleteBackend,
        DeleteStore, LinkReleased, SyncReleased, Raise, At, memory
  <2>4. {tombstone', backendGone', storeGone', up'} \subseteq BOOLEAN
    BY <1>0, <2>3
  <2>5. ack' \in {"none", "released", "error"}
    BY <1>0, <2>3
  <2>6. QED
    BY <2>1, <2>2, <2>3, <2>4, <2>5 DEF TypeOK, readers
<1>2. CASE Crash
  <2>1. /\ disk' \in [Files -> {"absent", "visible", "durable"}]
        /\ pc' = "end" /\ up' = FALSE /\ crashes' \in 0..MaxCrashes
    BY <1>0, <1>2, RetirementAssumption DEF Crash
  <2>2. /\ UNCHANGED <<memory, ack, seen, answer, afterAck>>
        /\ reader' = [r \in Readers |-> IF reader[r] = "done" THEN "done" ELSE "idle"]
    BY <1>2 DEF Crash
  <2>3. QED
    BY <2>1, <2>2 DEF TypeOK, memory
<1>3. CASE Restart
  BY <1>3 DEF TypeOK, Restart, memory, readers
<1>4. ASSUME NEW r \in Readers,
             \/ Begin(r) \/ ReadRecord(r, "prepared", "released")
             \/ ReadRecord(r, "released", "manifest") \/ Conclude(r)
      PROVE  TypeOK'
  <2>1. UNCHANGED <<pc, disk, memory, ack, up, crashes>>
    BY <1>4 DEF Begin, ReadRecord, Conclude
  <2>2. CASE Begin(r)
    <3>1. (ack = "released") \in BOOLEAN
      OBVIOUS
    <3>2. QED
      BY <2>1, <2>2, <3>1 DEF Begin, TypeOK, memory
  <2>3. CASE ReadRecord(r, "prepared", "released") \/ ReadRecord(r, "released", "manifest")
    <3>1. PICK f \in {"prepared", "released"}, next \in {"released", "manifest"} :
              ReadRecord(r, f, next)
      BY <2>3
    <3>2. seen' \in [Readers -> SUBSET {"prepared", "released"}]
      BY <3>1 DEF ReadRecord, TypeOK
    <3>3. /\ reader' \in [Readers -> {"idle", "prepared", "released", "manifest", "done"}]
          /\ \A q \in Readers : reader'[q] = "done" <=> reader[q] = "done"
          /\ UNCHANGED <<answer, afterAck>>
      BY <3>1 DEF ReadRecord, TypeOK
    <3>4. QED
      BY <2>1, <3>2, <3>3 DEF TypeOK, memory
  <2>4. CASE Conclude(r)
    BY <2>1, <2>4 DEF Conclude, Report, TypeOK, memory
  <2>5. QED
    BY <1>4, <2>2, <2>3, <2>4
<1>5. CASE UNCHANGED vars
  BY <1>5 DEF TypeOK, vars, memory, readers
<1>6. QED
  BY <1>1, <1>2, <1>3, <1>4, <1>5 DEF Next, Rest

\* The retirement keeps its order of business, and so does a crash.
LEMMA ProgressStep == TypeOK /\ Progress /\ [Next]_vars => Progress'
<1> SUFFICES ASSUME TypeOK, Progress, [Next]_vars PROVE Progress'
  OBVIOUS
<1>0. ASSUME UNCHANGED <<pc, disk, memory, ack>> PROVE Progress'
  BY <1>0 DEF Progress, memory
<1>a. /\ disk \in [Files -> {"absent", "visible", "durable"}]
      /\ Files = {"snapshot", "prepared", "released"}
  BY DEF TypeOK, Files
<1> USE DEF Progress, At, Visible, Durable, memory
<1>1. CASE SaveSnapshot \/ SyncSnapshot \/ SetTombstone
  BY <1>a, <1>1 DEF SaveSnapshot, SyncSnapshot, SetTombstone
<1>2. CASE LinkPrepared \/ SyncPrepared
  BY <1>a, <1>2 DEF LinkPrepared, SyncPrepared
<1>3. CASE DeleteBackend \/ DeleteStore
  BY <1>a, <1>3 DEF DeleteBackend, DeleteStore
<1>4. CASE LinkReleased \/ SyncReleased
  BY <1>a, <1>4 DEF LinkReleased, SyncReleased
<1>5. CASE Raise
  BY <1>5 DEF Raise
<1>6. CASE Crash
  BY <1>a, <1>6 DEF Crash
<1>7. CASE Restart \/ UNCHANGED vars \/ \E r \in Readers :
             \/ Begin(r) \/ ReadRecord(r, "prepared", "released")
             \/ ReadRecord(r, "released", "manifest") \/ Conclude(r)
  BY <1>0, <1>7 DEF Restart, vars, Begin, ReadRecord, Conclude
<1>8. QED
  BY <1>1, <1>2, <1>3, <1>4, <1>5, <1>6, <1>7 DEF Next, Rest

\* What a step of the retirement or a crash may do to what readers rely on:
\* nothing that is durable or gone comes back.
LEMMA Monotone ==
  ASSUME TypeOK, Progress, [Next]_vars
  PROVE  /\ tombstone => tombstone'
         /\ backendGone => backendGone'
         /\ storeGone => storeGone'
         /\ \A f \in Files : disk[f] = "durable" => disk'[f] = "durable"
         /\ ack = "released" => ack' = "released"
<1> USE DEF TypeOK, Progress, At, Visible, Durable, Files, memory, readers
<1>1. CASE \/ SaveSnapshot \/ SyncSnapshot \/ SetTombstone \/ LinkPrepared \/ SyncPrepared
           \/ DeleteBackend \/ DeleteStore \/ LinkReleased \/ SyncReleased \/ Raise
  BY <1>1
  DEF SaveSnapshot, SyncSnapshot, SetTombstone, LinkPrepared, SyncPrepared, DeleteBackend,
      DeleteStore, LinkReleased, SyncReleased, Raise
<1>2. CASE Crash
  BY <1>2 DEF Crash
<1>3. CASE ~Crash /\ UNCHANGED <<disk, memory, ack>>
  BY <1>3
<1>4. QED
  BY <1>1, <1>2, <1>3
  DEF Next, Rest, Restart, Begin, ReadRecord, Conclude, vars

\* A reader's own steps, and those of everyone else, keep what it knows true.
LEMMA ReaderStep ==
  ASSUME IInv, [Next]_vars, NEW r \in Readers
  PROVE  ReaderKnows(r)'
<1> TypeOK /\ Progress /\ ReaderKnows(r)
  BY DEF IInv
<1>1. /\ tombstone => tombstone'
      /\ backendGone => backendGone'
      /\ storeGone => storeGone'
      /\ disk["snapshot"] = "durable" => disk'["snapshot"] = "durable"
      /\ ack = "released" => ack' = "released"
  BY Monotone DEF Files
<1>2. CASE /\ seen'[r] = seen[r] /\ answer'[r] = answer[r] /\ afterAck'[r] = afterAck[r]
           /\ reader'[r] \in {reader[r], "idle"} 
  BY <1>1, <1>2 DEF ReaderKnows
<1>3. CASE Begin(r)
  BY <1>1, <1>3 DEF Begin, ReaderKnows, TypeOK
<1>4. CASE ReadRecord(r, "prepared", "released")
  BY <1>1, <1>4 DEF ReadRecord, ReaderKnows, TypeOK, Progress, Files
<1>5. CASE ReadRecord(r, "released", "manifest")
  BY <1>1, <1>5 DEF ReadRecord, ReaderKnows, TypeOK, Progress, Files
<1>6. CASE Conclude(r)
  BY <1>1, <1>6 DEF Conclude, Report, ReaderKnows, TypeOK, Progress, Files
<1>7. ASSUME NEW q \in Readers, q # r,
             \/ Begin(q) \/ ReadRecord(q, "prepared", "released")
             \/ ReadRecord(q, "released", "manifest") \/ Conclude(q)
      PROVE  /\ seen'[r] = seen[r] /\ answer'[r] = answer[r] /\ afterAck'[r] = afterAck[r]
             /\ reader'[r] = reader[r]
  BY <1>7 DEF Begin, ReadRecord, Conclude, TypeOK
<1>8. CASE UNCHANGED readers
  BY <1>2, <1>8 DEF readers
<1>9. CASE Crash
  BY <1>2, <1>9 DEF Crash, TypeOK
<1>10. QED
  BY <1>2, <1>3, <1>4, <1>5, <1>6, <1>7, <1>8, <1>9
  DEF Next, Rest, Restart, At, vars, readers, SaveSnapshot, SyncSnapshot, SetTombstone,
      LinkPrepared, SyncPrepared, DeleteBackend, DeleteStore, LinkReleased, SyncReleased, Raise

\* The invariant is inductive.
LEMMA Inductive == Spec => []IInv
<1>1. IInv /\ [Next]_vars => IInv'
  BY TypeStep, ProgressStep, ReaderStep DEF IInv
<1>2. QED
  BY InitInv, <1>1, PTL DEF Spec

\* Every variable keeps its type, and a reader that is done has an answer the
\* server has a status for.
THEOREM RetirementTyped == Spec => []TypeOK
<1>1. IInv => TypeOK
  BY DEF IInv
<1>2. QED
  BY <1>1, Inductive, PTL

\* Wherever a retirement is cut off, the parameters were deleted only after
\* their snapshot and the record naming it had become durable.
THEOREM NothingLost == Spec => []NothingIsLost
<1>1. IInv => NothingIsLost
  BY DEF IInv, Progress, NothingIsLost
<1>2. QED
  BY <1>1, Inductive, PTL

\* After retire_session has returned, every later reader is told "released".
THEOREM AckedReadable == Spec => []AckedIsReadable
<1>1. IInv => AckedIsReadable
  BY DEF IInv, Progress, ReaderKnows, AckedIsReadable
<1>2. QED
  BY <1>1, Inductive, PTL

\* "released" is reported only of a session both halves of which are gone, and no
\* crash leaves a record that names a lost snapshot.
THEOREM ReportsTrue == Spec => []ReportsAreTrue
<1>1. IInv => ReportsAreTrue
  BY DEF IInv, ReaderKnows, ReportsAreTrue
<1>2. QED
  BY <1>1, Inductive, PTL
=============================================================================
