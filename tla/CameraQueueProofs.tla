-------------------------- MODULE CameraQueueProofs --------------------------
(***************************************************************************)
(* Proofs about CameraQueue, for every size of the ring, every               *)
(* skip_n_frames, every set of formats and any number of frames.             *)
(***************************************************************************)
EXTENDS CameraQueue, TLAPS

\* The wrapped successor of a slot, without the remainder.
LEMMA NextSlotIs ==
    ASSUME NEW i \in Slot
    PROVE  NextSlot(i) = IF i = QUEUE_SIZE - 1 THEN 0 ELSE i + 1
<1> USE CameraQueueAssumption DEF Slot, NextSlot
<1>1. CASE i = QUEUE_SIZE - 1
  <2>1. i + 1 = QUEUE_SIZE
    BY <1>1
  <2>2. QUEUE_SIZE % QUEUE_SIZE = 0
    OBVIOUS
  <2>3. QED
    BY <1>1, <2>1, <2>2
<1>2. CASE i # QUEUE_SIZE - 1
  <2>1. i + 1 \in 0 .. QUEUE_SIZE - 1
    BY <1>2
  <2>2. (i + 1) % QUEUE_SIZE = i + 1
    BY <2>1
  <2>3. QED
    BY <1>2, <2>2
<1>3. QED
  BY <1>1, <1>2
-----------------------------------------------------------------------------
(***************************************************************************)
(* The inductive invariants.                                                 *)
(***************************************************************************)

\* How many bumps of insert_idx ago slot i was passed: 1 .. QUEUE_SIZE.
Age(i) == IF i < insert_idx THEN insert_idx - i ELSE insert_idx - i + QUEUE_SIZE

\* The callback is filling the slot at insert_idx.
Writing == cb \in {"copying", "copied"}

\* A slot that is not being filled holds the frame that was inserted when the
\* index passed it, whole unless its last stores are still on their way; a slot
\* not passed yet holds none; and the stores under way replace the last lap's.
RingContents ==
    /\ Writing \/ cb = "settling" => sent > 0 /\ before.frame = LastLap(sent)
    /\ \A i \in Slot : (Age(i) <= Inserted /\ ~(Writing /\ i = insert_idx)) =>
         /\ slots[i].frame = Inserted + 1 - Age(i)
         /\ Settling(i) \/ slots[i].pixels = {Inserted + 1 - Age(i)}
    /\ \A i \in Slot : (Age(i) > Inserted /\ ~(Writing /\ i = insert_idx)) =>
         slots[i].frame = 0
    /\ Writing => slots[insert_idx].frame = sent
    /\ cb = "copied" => slots[insert_idx].pixels = {sent}

\* The frames between the two indices are later than the one claimed last; with
\* less than a lap between them the distance of the indices is the number of
\* frames not yet claimed.
WorkerPosition ==
    /\ claimed <= Inserted
    /\ queue_index # insert_idx => claimed + Age(queue_index) <= Inserted
    /\ Inserted - claimed < QUEUE_SIZE =>
         Inserted - claimed = IF queue_index = insert_idx THEN 0 ELSE Age(queue_index)

\* Until the callback writes the slot being read, that slot is the frame claimed.
HeldFrame ==
    ~overrun =>
      /\ delivered <= claimed
      /\ Holding => /\ delivered < claimed
                    /\ slots[slot].frame = claimed
                    /\ Settling(slot) \/ slots[slot].pixels = {claimed}
                    /\ Writing => slot # insert_idx
      /\ Reading \/ pre = "converted" => early \/ seen = {claimed}

RingInv == CQTypeOK /\ RingContents /\ WorkerPosition /\ HeldFrame
-----------------------------------------------------------------------------
\* NextSlot stays inside the ring.
LEMMA NextSlotInRing == \A i \in Slot : NextSlot(i) \in Slot
  BY NextSlotIs, CameraQueueAssumption DEF Slot

\* Every step keeps the types.
LEMMA RingTypingStep == CQTypeOK /\ [CQNext]_cqVars => CQTypeOK'
<1> SUFFICES ASSUME CQTypeOK, [CQNext]_cqVars
             PROVE  CQTypeOK'
  OBVIOUS
<1> USE CameraQueueAssumption, NextSlotInRing DEF CQTypeOK, AllFormats, callbackVars, workerVars, races
<1>1. CASE SkipFrame
  BY <1>1 DEF SkipFrame, Arrive, NotAccepted
<1>2. CASE RefuseBackup
  BY <1>2 DEF RefuseBackup, Arrive, NotAccepted
<1>3. CASE RefuseFrame
  BY <1>3 DEF RefuseFrame, Arrive, NotAccepted
<1>4. CASE AcceptFrame
  BY <1>4 DEF AcceptFrame, StoreFrame, Meta, Arrive, Holding, Reading
<1>5. CASE CopyDone
  BY <1>5 DEF CopyDone
<1>6. CASE BumpIndex
  BY <1>6 DEF BumpIndex, NoMeta
<1>6a. CASE BumpSeenFirst
  BY <1>6a DEF BumpSeenFirst
<1>6b. CASE Settle
  BY <1>6b DEF Settle, NoMeta
<1>7. CASE NotifyFrame
  BY <1>7 DEF NotifyFrame, Wake
<1>8. CASE LoopTest
  BY <1>8 DEF LoopTest
<1>9. CASE FindEmpty
  BY <1>9 DEF FindEmpty
<1>10. CASE ClaimSlot
  BY <1>10 DEF ClaimSlot
<1>11. CASE FallAsleep
  BY <1>11 DEF FallAsleep
<1>12. CASE StopBeforeFrame
  BY <1>12 DEF StopBeforeFrame
<1>13. CASE FirstFrame
  BY <1>13 DEF FirstFrame
<1>14. CASE RefuseFormat
  BY <1>14 DEF RefuseFormat
<1>15. CASE ReadBegin
  BY <1>15 DEF ReadBegin
<1>16. CASE ConvertEnd
  BY <1>16 DEF ConvertEnd
<1>17. CASE MergeEnd
  BY <1>17 DEF MergeEnd
<1>18. CASE HandOver
  BY <1>18 DEF HandOver, SeenMeta, Meta
<1>19. CASE SpuriousWake
  BY <1>19 DEF SpuriousWake
<1>20. CASE Stop
  <2>1. main_running' \in BOOLEAN
    BY <1>20 DEF Stop
  <2>2. UNCHANGED <<slots, callbackVars, closed, pre, workerVars, races>>
    BY <1>20 DEF Stop
  <2>3. QED
    BY <2>1, <2>2
<1>21. CASE CloseClient
  BY <1>21 DEF CloseClient, Arrive
<1>22. CASE NotifyStop
  BY <1>22 DEF NotifyStop, Wake
<1>23. CASE UNCHANGED cqVars
  BY <1>23 DEF cqVars
<1>24. QED
  BY <1>1, <1>2, <1>3, <1>4, <1>5, <1>6, <1>6a, <1>6b, <1>7, <1>8, <1>9, <1>10, <1>11,
     <1>12, <1>13, <1>14, <1>15, <1>16, <1>17, <1>18, <1>19, <1>20, <1>21,
     <1>22, <1>23
     DEF CQNext, Callback, PreprocessWorker, Shutdown

\* An age is a number of bumps within the last lap.
LEMMA AgeInLap ==
    ASSUME CQTypeOK, NEW i \in Slot
    PROVE  Age(i) \in 1 .. QUEUE_SIZE
  BY CameraQueueAssumption DEF CQTypeOK, Slot, Age

\* A bump makes every slot one bump older, and the slot passed the youngest.
LEMMA AgeAfterBump ==
    ASSUME CQTypeOK, insert_idx' = NextSlot(insert_idx), NEW i \in Slot
    PROVE  Age(i)' = IF i = insert_idx THEN 1 ELSE Age(i) + 1
<1>1. /\ insert_idx \in 0 .. QUEUE_SIZE - 1 /\ i \in 0 .. QUEUE_SIZE - 1
      /\ QUEUE_SIZE \in Nat \ {0}
  BY CameraQueueAssumption DEF CQTypeOK, Slot
<1>2. insert_idx' = IF insert_idx = QUEUE_SIZE - 1 THEN 0 ELSE insert_idx + 1
  BY NextSlotIs DEF CQTypeOK
<1>3. QED
  BY <1>1, <1>2 DEF Age

\* The next slot is one bump younger, up to the youngest.
LEMMA AgeOfNext ==
    ASSUME CQTypeOK, NEW i \in Slot, i # insert_idx
    PROVE  IF NextSlot(i) = insert_idx THEN Age(i) = 1
                                       ELSE Age(NextSlot(i)) = Age(i) - 1
<1> USE CameraQueueAssumption DEF CQTypeOK, Slot
<1>1. NextSlot(i) = IF i = QUEUE_SIZE - 1 THEN 0 ELSE i + 1
  BY NextSlotIs
<1>2. CASE i = QUEUE_SIZE - 1
  BY <1>1, <1>2 DEF Age
<1>3. CASE i # QUEUE_SIZE - 1
  BY <1>1, <1>3 DEF Age
<1>4. QED
  BY <1>2, <1>3

\* A claim takes a frame later than every one claimed before.
LEMMA ClaimedSlot ==
    ASSUME CQTypeOK, RingContents, WorkerPosition, queue_index # insert_idx
    PROVE  /\ slots[queue_index].frame = Inserted + 1 - Age(queue_index)
           /\ \/ Settling(queue_index)
              \/ slots[queue_index].pixels = {Inserted + 1 - Age(queue_index)}
           /\ claimed < Inserted + 1 - Age(queue_index)
           /\ Inserted - claimed < QUEUE_SIZE =>
                claimed + 1 = Inserted + 1 - Age(queue_index)
<1>1. /\ queue_index \in Slot /\ Age(queue_index) \in Int
      /\ claimed \in Int /\ Inserted \in Int
  BY AgeInLap, CameraQueueAssumption DEF CQTypeOK, Inserted
<1>2. claimed + Age(queue_index) <= Inserted
  BY DEF WorkerPosition
<1>3. Age(queue_index) <= Inserted
  BY <1>1, <1>2 DEF CQTypeOK
<1>4. /\ slots[queue_index].frame = Inserted + 1 - Age(queue_index)
      /\ \/ Settling(queue_index)
         \/ slots[queue_index].pixels = {Inserted + 1 - Age(queue_index)}
  BY <1>1, <1>3 DEF RingContents
<1>5. Inserted - claimed < QUEUE_SIZE => Inserted - claimed = Age(queue_index)
  BY DEF WorkerPosition
<1>6. QED
  BY <1>1, <1>2, <1>4, <1>5

\* A bump inserts the frame whose copy has ended.
LEMMA BumpInserts ==
    ASSUME CQTypeOK, RingContents, BumpIndex \/ BumpSeenFirst
    PROVE  Inserted' = Inserted + 1 /\ Inserted + 1 = sent /\ Inserted \in Nat
  BY DEF CQTypeOK, RingContents, BumpIndex, BumpSeenFirst, Inserted, Writing

\* A bump keeps what the slots hold.
LEMMA ContentsAfterBump ==
    ASSUME CQTypeOK, RingContents, BumpIndex \/ BumpSeenFirst
    PROVE  RingContents'
<1>1. /\ insert_idx' = NextSlot(insert_idx)
      /\ slots' = slots /\ sent' = sent
      /\ Writing /\ cb' \in {"notify", "settling"}
      /\ cb' = "notify" => cb = "copied"
  BY DEF BumpIndex, BumpSeenFirst, Writing
<1>2. Inserted' = Inserted + 1 /\ Inserted + 1 = sent /\ Inserted \in Nat
  BY BumpInserts
<1>3. ASSUME NEW i \in Slot, Age(i)' <= Inserted'
      PROVE  /\ slots[i].frame = Inserted' + 1 - Age(i)'
             /\ Settling(i)' \/ slots[i].pixels = {Inserted' + 1 - Age(i)'}
  <2>1. CASE i = insert_idx
    <3>1. Age(i)' = 1
      BY <1>1, <2>1, AgeAfterBump
    <3>2. Inserted' + 1 - Age(i)' = sent
      BY <1>2, <3>1
    <3>3. slots[i].frame = sent /\ (Settling(i)' \/ slots[i].pixels = {sent})
      BY <1>1, <2>1 DEF RingContents, Writing, Settling
    <3>4. QED
      BY <3>2, <3>3
  <2>2. CASE i # insert_idx
    <3>1. Age(i)' = Age(i) + 1
      BY <1>1, <2>2, AgeAfterBump
    <3>2. Age(i) \in Int
      BY AgeInLap
    <3>3. Age(i) <= Inserted /\ Inserted' + 1 - Age(i)' = Inserted + 1 - Age(i)
      BY <1>2, <1>3, <3>1, <3>2
    <3>4. /\ slots[i].frame = Inserted + 1 - Age(i)
          /\ slots[i].pixels = {Inserted + 1 - Age(i)}
      BY <1>1, <2>2, <3>3 DEF RingContents, Writing, Settling
    <3>5. QED
      BY <3>3, <3>4
  <2>3. QED
    BY <2>1, <2>2
<1>4. ~Writing'
  BY <1>1 DEF Writing
<1>5. (cb = "settling")' => sent' > 0 /\ before'.frame = LastLap(sent')
  BY <1>1 DEF RingContents, BumpIndex, BumpSeenFirst
<1>6. ASSUME NEW i \in Slot, Age(i)' > Inserted'
      PROVE  slots[i].frame = 0
  <2>1. i # insert_idx /\ Age(i)' = Age(i) + 1
    BY <1>1, <1>2, <1>6, AgeAfterBump
  <2>2. Age(i) \in Int
    BY AgeInLap
  <2>3. Age(i) > Inserted
    BY <1>2, <1>6, <2>1, <2>2
  <2>4. QED
    BY <2>1, <2>3 DEF RingContents
<1>7. QED
  BY <1>1, <1>3, <1>4, <1>5, <1>6 DEF RingContents, Writing

\* The slot whose last pixels are on their way is the youngest, and there is one.
LEMMA SettlingIsYoungest ==
    ASSUME CQTypeOK, NEW i \in Slot, Settling(i)
    PROVE  Age(i) = 1 /\ \A j \in Slot : Settling(j) => j = i
<1> USE CameraQueueAssumption DEF CQTypeOK, Slot, Settling
<1>1. NextSlot(i) = insert_idx /\ NextSlot(i) = IF i = QUEUE_SIZE - 1 THEN 0 ELSE i + 1
  BY NextSlotIs
<1>2. Age(i) = 1
  BY <1>1 DEF Age
<1>3. ASSUME NEW j \in Slot, Settling(j) PROVE j = i
  <2>1. NextSlot(j) = insert_idx /\ NextSlot(j) = IF j = QUEUE_SIZE - 1 THEN 0 ELSE j + 1
    BY <1>3, NextSlotIs
  <2>2. QED
    BY <1>1, <2>1
<1>4. QED
  BY <1>2, <1>3

\* When the last pixels have arrived, every slot but one being filled is whole.
LEMMA ContentsAfterSettle ==
    ASSUME CQTypeOK, RingContents, Settle
    PROVE  RingContents'
<1>1. PICK i \in Slot : Settling(i) /\ slots' = [slots EXCEPT ![i].pixels = {sent}]
  BY DEF Settle
<1>2. /\ cb = "settling" /\ cb' = "notify" /\ sent' = sent /\ insert_idx' = insert_idx
      /\ Inserted = sent /\ Inserted' = sent /\ sent \in Nat
  BY <1>1 DEF Settle, Settling, Inserted, CQTypeOK
<1>3. Age(i) = 1 /\ \A j \in Slot : Settling(j) => j = i
  BY <1>1, SettlingIsYoungest
<1>4. \A j \in Slot : Age(j)' = Age(j)
  BY <1>2 DEF Age
<1>5. ASSUME NEW j \in Slot, Age(j) <= sent
      PROVE  /\ slots'[j].frame = sent + 1 - Age(j)
             /\ slots'[j].pixels = {sent + 1 - Age(j)}
  <2>1. slots[j].frame = sent + 1 - Age(j)
    BY <1>2, <1>5 DEF RingContents, Writing
  <2>2. slots'[j].frame = slots[j].frame
    BY <1>1 DEF CQTypeOK
  <2>3. CASE j = i
    <3>1. slots'[j].pixels = {sent}
      BY <1>1, <2>3 DEF CQTypeOK
    <3>2. sent + 1 - Age(j) = sent
      BY <1>2, <1>3, <2>3
    <3>3. QED
      BY <2>1, <2>2, <3>1, <3>2
  <2>4. CASE j # i
    <3>1. slots[j].pixels = {sent + 1 - Age(j)}
      BY <1>2, <1>3, <1>5, <2>4 DEF RingContents, Writing
    <3>2. slots'[j] = slots[j]
      BY <1>1, <2>4 DEF CQTypeOK
    <3>3. QED
      BY <2>1, <3>1, <3>2
  <2>5. QED
    BY <2>3, <2>4
<1>6. ASSUME NEW j \in Slot, Age(j) > sent
      PROVE  slots'[j].frame = 0
  <2>1. slots'[j].frame = slots[j].frame
    BY <1>1 DEF CQTypeOK
  <2>2. slots[j].frame = 0
    BY <1>2, <1>6 DEF RingContents, Writing
  <2>3. QED
    BY <2>1, <2>2
<1>7. QED
  BY <1>2, <1>4, <1>5, <1>6 DEF RingContents, Writing

\* A frame stored into another slot than the one held leaves that one alone.
LEMMA HeldAfterAccept ==
    ASSUME CQTypeOK, HeldFrame, AcceptFrame
    PROVE  HeldFrame'
<1>1. PICK f \in Formats : StoreFrame(f)
  BY DEF AcceptFrame
<1>2. /\ cb = "idle" /\ cb' = "copying"
      /\ UNCHANGED <<insert_idx, pre, slot, claimed, delivered, early>>
      /\ overrun' = (overrun \/ (Holding /\ slot = insert_idx))
      /\ seen' = IF Reading /\ slot = insert_idx THEN seen \cup {sent + 1} ELSE seen
      /\ slot \in Slot
  BY <1>1 DEF AcceptFrame, Arrive, StoreFrame, CQTypeOK
<1>3. slot # insert_idx => slots'[slot] = slots[slot]
  BY <1>1, <1>2 DEF StoreFrame, CQTypeOK
<1>4. CASE overrun'
  BY <1>4 DEF HeldFrame
<1>5. CASE ~overrun' /\ Holding
  <2>1. slot # insert_idx /\ ~overrun
    BY <1>2, <1>5
  <2>2. slots'[slot] = slots[slot] /\ seen' = seen
    BY <1>2, <1>3, <2>1
  <2>3. ~Settling(slot)
    BY <1>2 DEF Settling
  <2>4. QED
    BY <1>2, <2>1, <2>2, <2>3 DEF HeldFrame, Holding, Reading, Writing
<1>6. CASE ~overrun' /\ ~Holding
  BY <1>2, <1>6 DEF HeldFrame, Holding, Reading
<1>7. QED
  BY <1>4, <1>5, <1>6

\* When the last pixels have arrived, a held slot is the frame claimed, whole.
LEMMA HeldAfterSettle ==
    ASSUME CQTypeOK, RingContents, WorkerPosition, HeldFrame, Settle
    PROVE  HeldFrame'
<1>1. PICK i \in Slot : Settling(i) /\ slots' = [slots EXCEPT ![i].pixels = {sent}]
  BY DEF Settle
<1>2. /\ cb = "settling" /\ cb' = "notify" /\ sent' = sent
      /\ UNCHANGED <<pre, slot, claimed, delivered, overrun, early, seen>>
      /\ slot \in Slot /\ Inserted = sent /\ sent > 0 /\ sent \in Nat
  BY <1>1 DEF Settle, Settling, Inserted, CQTypeOK, RingContents, workerVars, races
<1>3. slots'[slot].frame = slots[slot].frame
  BY <1>1, <1>2 DEF CQTypeOK
<1>4. ASSUME slots[slot].frame = claimed,
             Settling(slot) \/ slots[slot].pixels = {claimed}
      PROVE  slots'[slot].pixels = {claimed}
  <2>1. CASE Settling(slot)
    <3>1. slot = i /\ Age(slot) = 1
      BY <1>1, <1>2, <2>1, SettlingIsYoungest
    <3>2. slots[slot].frame = sent + 1 - Age(slot)
      BY <1>2, <3>1 DEF RingContents, Writing
    <3>3. slots'[slot].pixels = {sent}
      BY <1>1, <1>2, <3>1 DEF CQTypeOK
    <3>4. QED
      BY <1>2, <1>4, <3>1, <3>2, <3>3
  <2>2. CASE ~Settling(slot)
    <3>1. slot # i
      BY <1>1, <2>2
    <3>2. slots'[slot] = slots[slot]
      BY <1>1, <1>2, <3>1 DEF CQTypeOK
    <3>3. QED
      BY <1>4, <2>2, <3>2
  <2>3. QED
    BY <2>1, <2>2
<1>5. QED
  BY <1>2, <1>3, <1>4 DEF HeldFrame, Holding, Reading, Writing

\* A bump keeps the worker behind the callback.
LEMMA PositionAfterBump ==
    ASSUME CQTypeOK, RingContents, WorkerPosition, BumpIndex \/ BumpSeenFirst
    PROVE  WorkerPosition'
<1>1. /\ insert_idx' = NextSlot(insert_idx) /\ insert_idx' \in Slot
      /\ claimed' = claimed /\ queue_index' = queue_index
      /\ queue_index \in Slot /\ claimed \in Nat
  BY NextSlotInRing DEF BumpIndex, BumpSeenFirst, CQTypeOK, workerVars
<1>2. Inserted' = Inserted + 1 /\ Inserted \in Nat
  BY BumpInserts
<1>3. Age(queue_index) \in 1 .. QUEUE_SIZE
  BY <1>1, AgeInLap
<1>4. \A i \in Slot : Age(i)' = IF i = insert_idx THEN 1 ELSE Age(i) + 1
  BY <1>1, AgeAfterBump
<1>5. Age(queue_index)' = IF queue_index = insert_idx THEN 1 ELSE Age(queue_index) + 1
  BY <1>1, <1>4 DEF Age
<1>6. (queue_index = insert_idx)' =>
        \/ queue_index # insert_idx /\ Age(queue_index) = QUEUE_SIZE - 1
        \/ QUEUE_SIZE = 1
  <2>1. insert_idx \in Slot
    BY DEF CQTypeOK
  <2>2. insert_idx' = IF insert_idx = QUEUE_SIZE - 1 THEN 0 ELSE insert_idx + 1
    BY <1>1, <2>1, NextSlotIs
  <2>3. QED
    BY <1>1, <2>1, <2>2, CameraQueueAssumption DEF Slot, Age
<1>7. QED
  BY <1>1, <1>2, <1>3, <1>5, <1>6, CameraQueueAssumption DEF WorkerPosition

\* A claim keeps the worker behind the callback.
LEMMA PositionAfterClaim ==
    ASSUME CQTypeOK, RingContents, WorkerPosition, ClaimSlot
    PROVE  WorkerPosition'
<1>1. /\ queue_index # insert_idx
      /\ claimed' = slots[queue_index].frame
      /\ queue_index' = NextSlot(queue_index) /\ queue_index \in Slot
      /\ insert_idx' = insert_idx /\ claimed \in Nat
  BY DEF ClaimSlot, CQTypeOK, callbackVars
<1>2. Inserted' = Inserted /\ Inserted \in Int
  BY DEF ClaimSlot, Inserted, callbackVars, CQTypeOK
<1>3. /\ claimed' = Inserted + 1 - Age(queue_index)
      /\ claimed < Inserted + 1 - Age(queue_index)
      /\ Inserted - claimed < QUEUE_SIZE => claimed + 1 = Inserted + 1 - Age(queue_index)
  BY <1>1, ClaimedSlot
<1>4. Age(queue_index) \in 1 .. QUEUE_SIZE
  BY <1>1, AgeInLap
<1>5. IF queue_index' = insert_idx
      THEN Age(queue_index) = 1
      ELSE Age(NextSlot(queue_index)) = Age(queue_index) - 1
  BY <1>1, AgeOfNext
<1>6. Age(queue_index)' = Age(NextSlot(queue_index))
  BY <1>1 DEF Age
<1>7. QED
  BY <1>1, <1>2, <1>3, <1>4, <1>5, <1>6, CameraQueueAssumption DEF WorkerPosition

\* A claim points the worker at a slot that holds the claimed frame whole.
LEMMA HeldAfterClaim ==
    ASSUME CQTypeOK, RingContents, WorkerPosition, HeldFrame, ClaimSlot
    PROVE  HeldFrame'
<1>1. /\ queue_index # insert_idx
      /\ claimed' = slots[queue_index].frame /\ slot' = queue_index
      /\ pre = "compare" /\ pre' = "claimed"
      /\ UNCHANGED <<insert_idx, slots, delivered, overrun, cb>>
      /\ claimed \in Nat /\ delivered \in Nat
  BY DEF ClaimSlot, CQTypeOK, callbackVars, races
<1>2. Inserted \in Int /\ Age(queue_index) \in Int
  BY AgeInLap, CameraQueueAssumption DEF CQTypeOK, Inserted
<1>3. /\ claimed < claimed' /\ claimed' \in Int
      /\ Settling(queue_index) \/ slots[queue_index].pixels = {claimed'}
  BY <1>1, <1>2, ClaimedSlot
<1>4. QED
  BY <1>1, <1>3 DEF HeldFrame, Holding, Reading, Settling

\* The conversion changes the format of a slot, which RingContents does not read.
LEMMA ContentsAfterConvert ==
    ASSUME CQTypeOK, RingContents, ConvertEnd
    PROVE  RingContents'
<1>1. /\ \A i \in Slot : /\ slots'[i].frame = slots[i].frame
                        /\ slots'[i].pixels = slots[i].pixels
      /\ UNCHANGED <<insert_idx, cb, sent, before>>
  BY DEF ConvertEnd, CQTypeOK, callbackVars
<1>2. /\ Inserted' = Inserted /\ Writing' = Writing
      /\ \A i \in Slot : Age(i)' = Age(i) /\ Settling(i)' = Settling(i)
  BY <1>1 DEF Inserted, Writing, Age, Settling
<1>3. Writing => insert_idx \in Slot
  BY DEF CQTypeOK
<1>4. \A i \in Slot : (Age(i) <= Inserted /\ ~(Writing /\ i = insert_idx)) =>
         /\ slots'[i].frame = Inserted + 1 - Age(i)
         /\ Settling(i) \/ slots'[i].pixels = {Inserted + 1 - Age(i)}
  BY <1>1 DEF RingContents
<1>5. \A i \in Slot : (Age(i)' <= Inserted' /\ ~(Writing' /\ i = insert_idx')) =>
         /\ slots'[i].frame = Inserted' + 1 - Age(i)'
         /\ Settling(i)' \/ slots'[i].pixels = {Inserted' + 1 - Age(i)'}
  BY <1>1, <1>2, <1>4
<1>6. /\ Writing' \/ cb' = "settling" => sent' > 0 /\ before'.frame = LastLap(sent')
      /\ Writing' => slots'[insert_idx'].frame = sent'
      /\ cb' = "copied" => slots'[insert_idx'].pixels = {sent'}
  BY <1>1, <1>2, <1>3 DEF RingContents, Writing
<1>7. \A i \in Slot : (Age(i)' > Inserted' /\ ~(Writing' /\ i = insert_idx')) =>
         slots'[i].frame = 0
  BY <1>1, <1>2 DEF RingContents
<1>8. QED
  BY <1>5, <1>6, <1>7 DEF RingContents

\* A frame is stored over the oldest slot, which holds the frame of the last lap.
LEMMA ContentsAfterAccept ==
    ASSUME CQTypeOK, RingContents, AcceptFrame
    PROVE  RingContents'
<1>1. PICK f \in Formats : StoreFrame(f)
  BY DEF AcceptFrame
<1>2. /\ cb = "idle" /\ cb' = "copying" /\ insert_idx' = insert_idx
      /\ sent' = sent + 1 /\ sent \in Nat /\ insert_idx \in Slot
      /\ before'.frame = slots[insert_idx].frame
  BY <1>1 DEF AcceptFrame, Arrive, StoreFrame, Meta, CQTypeOK
<1>3. Inserted = sent /\ Inserted' = sent /\ ~Writing /\ Writing'
  BY <1>2 DEF Inserted, Writing
<1>4. /\ \A i \in Slot : Age(i)' = Age(i) /\ ~Settling(i) /\ ~Settling(i)'
      /\ Age(insert_idx) = QUEUE_SIZE
  BY <1>2, CameraQueueAssumption DEF Age, Settling, Slot
<1>5. /\ slots'[insert_idx].frame = sent'
      /\ \A i \in Slot : i # insert_idx => slots'[i] = slots[i]
  BY <1>1, <1>2 DEF StoreFrame, CQTypeOK
<1>6. before'.frame = LastLap(sent')
  <2>1. QUEUE_SIZE <= sent => slots[insert_idx].frame = sent + 1 - QUEUE_SIZE
    BY <1>2, <1>3, <1>4 DEF RingContents
  <2>2. QUEUE_SIZE > sent => slots[insert_idx].frame = 0
    BY <1>2, <1>3, <1>4 DEF RingContents
  <2>3. QED
    BY <1>2, <2>1, <2>2, CameraQueueAssumption DEF LastLap
<1>7. \A i \in Slot : i # insert_idx =>
        /\ Age(i) <= sent => /\ slots'[i].frame = sent + 1 - Age(i)
                             /\ slots'[i].pixels = {sent + 1 - Age(i)}
        /\ Age(i) > sent => slots'[i].frame = 0
  BY <1>3, <1>4, <1>5 DEF RingContents
<1>8. sent' > 0
  BY <1>2
<1>9. QED
  BY <1>2, <1>3, <1>4, <1>5, <1>6, <1>7, <1>8 DEF RingContents

\* Every step keeps what the slots hold.
LEMMA RingContentsStep == CQTypeOK /\ RingContents /\ [CQNext]_cqVars => RingContents'
<1> SUFFICES ASSUME CQTypeOK, RingContents, [CQNext]_cqVars
             PROVE  RingContents'
  OBVIOUS
<1>0. BumpIndex \/ BumpSeenFirst => RingContents'
  BY ContentsAfterBump
<1> USE CameraQueueAssumption, NextSlotIs DEF CQTypeOK, Slot, Inserted, Writing, Age, Settling,
    RingContents, callbackVars, workerVars, races
<1>1. CASE SkipFrame
  BY <1>1 DEF SkipFrame, Arrive, NotAccepted
<1>2. CASE RefuseBackup
  BY <1>2 DEF RefuseBackup, Arrive, NotAccepted
<1>3. CASE RefuseFrame
  BY <1>3 DEF RefuseFrame, Arrive, NotAccepted
<1>4. CASE AcceptFrame
  BY <1>4, ContentsAfterAccept
<1>5. CASE CopyDone
  <2>1. /\ cb = "copying" /\ cb' = "copied" /\ insert_idx \in Slot
        /\ slots' = [slots EXCEPT ![insert_idx].pixels = {sent}]
        /\ UNCHANGED <<insert_idx, sent, before>>
    BY <1>5 DEF CopyDone
  <2>2. /\ \A i \in Slot : i # insert_idx => slots'[i] = slots[i]
        /\ slots'[insert_idx].frame = slots[insert_idx].frame
        /\ slots'[insert_idx].pixels = {sent}
    BY <2>1
  <2>3. QED
    BY <2>1, <2>2
<1>6. CASE BumpIndex
  BY <1>0, <1>6
<1>6a. CASE BumpSeenFirst
  BY <1>0, <1>6a
<1>6b. CASE Settle
  BY <1>6b, ContentsAfterSettle
<1>7. CASE NotifyFrame
  BY <1>7 DEF NotifyFrame, Wake
<1>8. CASE LoopTest
  BY <1>8 DEF LoopTest
<1>9. CASE FindEmpty
  BY <1>9 DEF FindEmpty
<1>10. CASE ClaimSlot
  BY <1>10 DEF ClaimSlot
<1>11. CASE FallAsleep
  BY <1>11 DEF FallAsleep
<1>12. CASE StopBeforeFrame
  BY <1>12 DEF StopBeforeFrame
<1>13. CASE FirstFrame
  BY <1>13 DEF FirstFrame
<1>14. CASE RefuseFormat
  BY <1>14 DEF RefuseFormat
<1>15. CASE ReadBegin
  BY <1>15 DEF ReadBegin
<1>16. CASE ConvertEnd
  BY <1>16, ContentsAfterConvert
<1>17. CASE MergeEnd
  BY <1>17 DEF MergeEnd
<1>18. CASE HandOver
  BY <1>18 DEF HandOver
<1>19. CASE SpuriousWake
  BY <1>19 DEF SpuriousWake
<1>20. CASE Stop
  BY <1>20 DEF Stop
<1>21. CASE CloseClient
  BY <1>21 DEF CloseClient, Arrive
<1>22. CASE NotifyStop
  BY <1>22 DEF NotifyStop, Wake
<1>23. CASE UNCHANGED cqVars
  BY <1>23 DEF cqVars
<1>24. QED
  BY <1>1, <1>2, <1>3, <1>4, <1>5, <1>6, <1>6a, <1>6b, <1>7, <1>8, <1>9, <1>10, <1>11,
     <1>12, <1>13, <1>14, <1>15, <1>16, <1>17, <1>18, <1>19, <1>20, <1>21,
     <1>22, <1>23
     DEF CQNext, Callback, PreprocessWorker, Shutdown

\* Every step keeps the worker behind the callback.
LEMMA WorkerPositionStep == CQTypeOK /\ RingContents /\ WorkerPosition /\ [CQNext]_cqVars => WorkerPosition'
<1> SUFFICES ASSUME CQTypeOK, RingContents, WorkerPosition, [CQNext]_cqVars
             PROVE  WorkerPosition'
  OBVIOUS
<1> USE CameraQueueAssumption, NextSlotIs DEF CQTypeOK, Slot, Inserted, Writing, Age,
    RingContents, WorkerPosition, callbackVars, workerVars, races
<1>1. CASE SkipFrame
  BY <1>1 DEF SkipFrame, Arrive, NotAccepted
<1>2. CASE RefuseBackup
  BY <1>2 DEF RefuseBackup, Arrive, NotAccepted
<1>3. CASE RefuseFrame
  BY <1>3 DEF RefuseFrame, Arrive, NotAccepted
<1>4. CASE AcceptFrame
  BY <1>4 DEF AcceptFrame, StoreFrame, Arrive, Holding, Reading
<1>5. CASE CopyDone
  BY <1>5 DEF CopyDone
<1>6. CASE BumpIndex
  BY <1>6, PositionAfterBump
<1>6a. CASE BumpSeenFirst
  BY <1>6a, PositionAfterBump
<1>6b. CASE Settle
  <2>1. /\ UNCHANGED <<insert_idx, sent, claimed, queue_index>>
        /\ cb = "settling" /\ cb' = "notify"
    BY <1>6b DEF Settle, Settling
  <2>2. QED
    BY <2>1
<1>7. CASE NotifyFrame
  BY <1>7 DEF NotifyFrame, Wake
<1>8. CASE LoopTest
  BY <1>8 DEF LoopTest
<1>9. CASE FindEmpty
  BY <1>9 DEF FindEmpty
<1>10. CASE ClaimSlot
  BY <1>10, PositionAfterClaim
<1>11. CASE FallAsleep
  BY <1>11 DEF FallAsleep
<1>12. CASE StopBeforeFrame
  BY <1>12 DEF StopBeforeFrame
<1>13. CASE FirstFrame
  BY <1>13 DEF FirstFrame
<1>14. CASE RefuseFormat
  BY <1>14 DEF RefuseFormat
<1>15. CASE ReadBegin
  BY <1>15 DEF ReadBegin
<1>16. CASE ConvertEnd
  BY <1>16 DEF ConvertEnd
<1>17. CASE MergeEnd
  BY <1>17 DEF MergeEnd
<1>18. CASE HandOver
  BY <1>18 DEF HandOver
<1>19. CASE SpuriousWake
  BY <1>19 DEF SpuriousWake
<1>20. CASE Stop
  BY <1>20 DEF Stop
<1>21. CASE CloseClient
  BY <1>21 DEF CloseClient, Arrive
<1>22. CASE NotifyStop
  BY <1>22 DEF NotifyStop, Wake
<1>23. CASE UNCHANGED cqVars
  BY <1>23 DEF cqVars
<1>24. QED
  BY <1>1, <1>2, <1>3, <1>4, <1>5, <1>6, <1>6a, <1>6b, <1>7, <1>8, <1>9, <1>10, <1>11,
     <1>12, <1>13, <1>14, <1>15, <1>16, <1>17, <1>18, <1>19, <1>20, <1>21,
     <1>22, <1>23
     DEF CQNext, Callback, PreprocessWorker, Shutdown

\* The conversion leaves the claimed slot what it was but for its format.
LEMMA HeldAfterConvert ==
    ASSUME CQTypeOK, HeldFrame, ConvertEnd
    PROVE  HeldFrame'
<1>1. /\ pre = "converting" /\ pre' = "converted"
      /\ \A i \in Slot : /\ slots'[i].frame = slots[i].frame
                        /\ slots'[i].pixels = slots[i].pixels
      /\ UNCHANGED <<insert_idx, cb, slot, seen, claimed, delivered, overrun, early>>
  BY DEF ConvertEnd, CQTypeOK, callbackVars, workerVars, races
<1>2. slot \in Slot
  BY DEF CQTypeOK
<1>3. Holding /\ Reading
  BY <1>1 DEF Holding, Reading
<1>4. Settling(slot)' = Settling(slot) /\ Writing' = Writing
  BY <1>1 DEF Settling, Writing
<1>5. ~overrun =>
        /\ delivered < claimed /\ delivered <= claimed
        /\ slots'[slot].frame = claimed
        /\ Settling(slot) \/ slots'[slot].pixels = {claimed}
        /\ Writing => slot # insert_idx
        /\ early \/ seen = {claimed}
  BY <1>1, <1>2, <1>3 DEF HeldFrame
<1>6. QED
  BY <1>1, <1>4, <1>5 DEF HeldFrame

\* The metadata found in the slot held is that of the frame claimed; or, while the
\* stores into it have not settled, that of the last lap.
LEMMA SeenMetadata ==
    ASSUME CQTypeOK, RingContents, HeldFrame, Holding, ~overrun,
           NEW m \in SeenMeta(slot)
    PROVE  \/ m = Meta(slot) /\ m.frame = claimed
           \/ Settling(slot) /\ m.frame = LastLap(claimed) /\ m.frame <= claimed
<1>1. slots[slot].frame = claimed /\ (Writing => slot # insert_idx)
  BY DEF HeldFrame
<1>2. CASE m = Meta(slot)
  BY <1>1, <1>2 DEF Meta
<1>3. CASE m # Meta(slot)
  <2>1. Unsettled(slot) /\ m = before
    BY <1>3 DEF SeenMeta
  <2>2. Settling(slot) /\ cb = "settling" /\ slot \in Slot
    BY <1>1, <2>1 DEF Unsettled, Settling, Writing, CQTypeOK
  <2>3. Age(slot) = 1 /\ Inserted = sent /\ sent > 0 /\ sent \in Nat /\ ~Writing
    BY <2>2, SettlingIsYoungest DEF Inserted, RingContents, Writing, CQTypeOK
  <2>4. slots[slot].frame = Inserted + 1 - Age(slot)
    BY <2>2, <2>3 DEF RingContents
  <2>5. claimed = sent /\ before.frame = LastLap(sent)
    BY <1>1, <2>2, <2>3, <2>4 DEF RingContents
  <2>6. LastLap(sent) <= sent
    BY <2>3, CameraQueueAssumption DEF LastLap
  <2>7. QED
    BY <2>1, <2>2, <2>5, <2>6
<1>4. QED
  BY <1>2, <1>3

\* A hand-over lets go of the slot.
LEMMA HeldAfterHandOver ==
    ASSUME CQTypeOK, RingContents, HeldFrame, HandOver
    PROVE  HeldFrame'
<1>1. /\ pre = "converted" /\ pre' = "loop" /\ UNCHANGED <<claimed, overrun>>
      /\ \E m \in SeenMeta(slot) : delivered' = m.frame
  BY DEF HandOver
<1>2. ~overrun => delivered' <= claimed
  BY <1>1, SeenMetadata DEF Holding, CQTypeOK
<1>3. QED
  BY <1>1, <1>2 DEF HeldFrame, Holding, Reading

\* Every step keeps the slot being read, until an overrun.
LEMMA HeldFrameStep == CQTypeOK /\ RingContents /\ WorkerPosition /\ HeldFrame /\ [CQNext]_cqVars => HeldFrame'
<1> SUFFICES ASSUME CQTypeOK, RingContents, WorkerPosition, HeldFrame, [CQNext]_cqVars
             PROVE  HeldFrame'
  OBVIOUS
<1> USE CameraQueueAssumption, NextSlotIs DEF CQTypeOK, Slot, Inserted, Writing, Age,
    RingContents, WorkerPosition, HeldFrame, Holding, Reading, Settling, callbackVars, workerVars, races
<1>1. CASE SkipFrame
  BY <1>1 DEF SkipFrame, Arrive, NotAccepted
<1>2. CASE RefuseBackup
  BY <1>2 DEF RefuseBackup, Arrive, NotAccepted
<1>3. CASE RefuseFrame
  BY <1>3 DEF RefuseFrame, Arrive, NotAccepted
<1>4. CASE AcceptFrame
  BY <1>4, HeldAfterAccept
<1>5. CASE CopyDone
  BY <1>5 DEF CopyDone
<1>6. CASE BumpIndex
  BY <1>6 DEF BumpIndex
<1>6a. CASE BumpSeenFirst
  BY <1>6a DEF BumpSeenFirst
<1>6b. CASE Settle
  BY <1>6b, HeldAfterSettle
<1>7. CASE NotifyFrame
  BY <1>7 DEF NotifyFrame, Wake
<1>8. CASE LoopTest
  BY <1>8 DEF LoopTest
<1>9. CASE FindEmpty
  BY <1>9 DEF FindEmpty
<1>10. CASE ClaimSlot
  BY <1>10, HeldAfterClaim
<1>11. CASE FallAsleep
  BY <1>11 DEF FallAsleep
<1>12. CASE StopBeforeFrame
  BY <1>12 DEF StopBeforeFrame
<1>13. CASE FirstFrame
  BY <1>13 DEF FirstFrame
<1>14. CASE RefuseFormat
  BY <1>14 DEF RefuseFormat
<1>15. CASE ReadBegin
  BY <1>15 DEF ReadBegin
<1>16. CASE ConvertEnd
  BY <1>16, HeldAfterConvert
<1>17. CASE MergeEnd
  BY <1>17 DEF MergeEnd
<1>18. CASE HandOver
  BY <1>18, HeldAfterHandOver
<1>19. CASE SpuriousWake
  BY <1>19 DEF SpuriousWake
<1>20. CASE Stop
  BY <1>20 DEF Stop
<1>21. CASE CloseClient
  BY <1>21 DEF CloseClient, Arrive
<1>22. CASE NotifyStop
  BY <1>22 DEF NotifyStop, Wake
<1>23. CASE UNCHANGED cqVars
  BY <1>23 DEF cqVars
<1>24. QED
  BY <1>1, <1>2, <1>3, <1>4, <1>5, <1>6, <1>6a, <1>6b, <1>7, <1>8, <1>9, <1>10, <1>11,
     <1>12, <1>13, <1>14, <1>15, <1>16, <1>17, <1>18, <1>19, <1>20, <1>21,
     <1>22, <1>23
     DEF CQNext, Callback, PreprocessWorker, Shutdown
-----------------------------------------------------------------------------
(***************************************************************************)
(* The theorems.                                                             *)
(***************************************************************************)

\* The initial ring satisfies the inductive invariant: nothing has been inserted,
\* so no slot holds a frame and the two indices are equal.
LEMMA RingInvInit == CQInit => RingInv
<1> SUFFICES ASSUME CQInit
             PROVE  RingInv
  OBVIOUS
<1>1. CQTypeOK
  <2>1. [frame |-> 0, format |-> "other", pixels |-> {0}]
          \in [frame : Nat, format : AllFormats, pixels : SUBSET Nat]
    BY DEF AllFormats
  <2>2. slots \in [Slot -> [frame : Nat, format : AllFormats, pixels : SUBSET Nat]]
    BY <2>1 DEF CQInit
  <2>3. 0 \in Slot
    BY CameraQueueAssumption DEF Slot
  <2>4. before \in [frame : Nat, format : AllFormats]
    BY DEF CQInit, NoMeta, AllFormats
  <2>5. QED
    BY <2>2, <2>3, <2>4 DEF CQInit, CQTypeOK
<1>2. Inserted = 0 /\ \A i \in Slot : Age(i) >= 1
  BY <1>1, AgeInLap DEF CQInit, Inserted
<1>3. RingContents
  <2>1. \A i \in Slot : ~(Age(i) <= Inserted)
    BY <1>1, <1>2, AgeInLap, CameraQueueAssumption
  <2>2. \A i \in Slot : slots[i].frame = 0
    BY DEF CQInit
  <2>3. QED
    BY <2>1, <2>2 DEF CQInit, RingContents, Writing
<1>4. WorkerPosition
  BY <1>2 DEF CQInit, WorkerPosition
<1>5. HeldFrame
  BY DEF CQInit, HeldFrame, Holding, Reading
<1>6. QED
  BY <1>1, <1>3, <1>4, <1>5 DEF RingInv

\* The state of the ring keeps its types; in particular no index ever leaves the
\* ring (main.cpp:266, inference_handler.cpp:92).
THEOREM RingTyping == CQSpec => []CQTypeOK
<1>1. CQInit => CQTypeOK
  BY RingInvInit DEF RingInv
<1>2. CQTypeOK /\ [CQNext]_cqVars => CQTypeOK'
  BY RingTypingStep
<1>3. QED
  BY <1>1, <1>2, PTL DEF CQSpec

\* The slots behind insert_idx hold the last lap of frames, the worker stands
\* where the frames it has not claimed begin, and what it reads is what it
\* claimed until the callback writes that slot.
THEOREM RingInvariant == CQSpec => []RingInv
<1>1. CQInit => RingInv
  BY RingInvInit
<1>2. RingInv /\ [CQNext]_cqVars => RingInv'
  BY RingTypingStep, RingContentsStep, WorkerPositionStep, HeldFrameStep DEF RingInv
<1>3. QED
  BY <1>1, <1>2, PTL DEF CQSpec

\* An image that is handed on shows the frame whose metadata belongs with it,
\* unless the callback overran the slot or the index was seen before the pixels
\* (model_helper.cpp:268-337, main.cpp:264-266).
THEOREM RingImages == CQSpec => []ImageIsTheFrame
<1>1. RingInv => ImageIsTheFrame
  BY DEF RingInv, HeldFrame, Holding, ImageIsTheFrame
<1>2. QED
  BY <1>1, RingInvariant, PTL

\* preprocess_worker claims frames in strictly increasing order, even when the
\* callback has lapped it (inference_handler.cpp:82-92).
THEOREM RingClaims == CQSpec => ClaimsIncrease
<1>1. RingInv /\ [CQNext]_cqVars => [claimed' # claimed => claimed' > claimed]_claimed
  <2> SUFFICES ASSUME RingInv, [CQNext]_cqVars, claimed' # claimed
               PROVE  claimed' > claimed
    OBVIOUS
  <2> USE DEF callbackVars, workerVars, races
  <2>1. CASE SkipFrame
    BY <2>1 DEF SkipFrame, Arrive, NotAccepted
  <2>2. CASE RefuseBackup
    BY <2>2 DEF RefuseBackup, Arrive, NotAccepted
  <2>3. CASE RefuseFrame
    BY <2>3 DEF RefuseFrame, Arrive, NotAccepted
  <2>4. CASE AcceptFrame
    BY <2>4 DEF AcceptFrame, StoreFrame, Arrive
  <2>5. CASE CopyDone
    BY <2>5 DEF CopyDone
  <2>6. CASE BumpIndex
    BY <2>6 DEF BumpIndex
  <2>6a. CASE BumpSeenFirst
    BY <2>6a DEF BumpSeenFirst
  <2>6b. CASE Settle
    BY <2>6b DEF Settle
  <2>7. CASE NotifyFrame
    BY <2>7 DEF NotifyFrame, Wake
  <2>8. CASE LoopTest
    BY <2>8 DEF LoopTest
  <2>9. CASE FindEmpty
    BY <2>9 DEF FindEmpty
  <2>10. CASE ClaimSlot
    <3>1. queue_index # insert_idx /\ claimed' = slots[queue_index].frame
      BY <2>10 DEF ClaimSlot
    <3>2. claimed < Inserted + 1 - Age(queue_index)
      BY <3>1, ClaimedSlot DEF RingInv
    <3>3. slots[queue_index].frame = Inserted + 1 - Age(queue_index)
      BY <3>1, ClaimedSlot DEF RingInv
    <3>4. QED
      BY <3>1, <3>2, <3>3
  <2>11. CASE FallAsleep
    BY <2>11 DEF FallAsleep
  <2>12. CASE StopBeforeFrame
    BY <2>12 DEF StopBeforeFrame
  <2>13. CASE FirstFrame
    BY <2>13 DEF FirstFrame
  <2>14. CASE RefuseFormat
    BY <2>14 DEF RefuseFormat
  <2>15. CASE ReadBegin
    BY <2>15 DEF ReadBegin
  <2>16. CASE ConvertEnd
    BY <2>16 DEF ConvertEnd
  <2>17. CASE MergeEnd
    BY <2>17 DEF MergeEnd
  <2>18. CASE HandOver
    BY <2>18 DEF HandOver
  <2>19. CASE SpuriousWake
    BY <2>19 DEF SpuriousWake
  <2>20. CASE Stop
    BY <2>20 DEF Stop
  <2>21. CASE CloseClient
    BY <2>21 DEF CloseClient, Arrive
  <2>22. CASE NotifyStop
    BY <2>22 DEF NotifyStop, Wake
  <2>23. CASE UNCHANGED cqVars
    BY <2>23 DEF cqVars
  <2>24. QED
    BY <2>1, <2>2, <2>3, <2>4, <2>5, <2>6, <2>6a, <2>6b, <2>7, <2>8, <2>9, <2>10,
       <2>11, <2>12, <2>13, <2>14, <2>15, <2>16, <2>17, <2>18, <2>19, <2>20,
       <2>21, <2>22, <2>23
       DEF CQNext, Callback, PreprocessWorker, Shutdown
<1>2. QED
  BY <1>1, RingInvariant, PTL DEF CQSpec, ClaimsIncrease

\* With fewer than QUEUE_SIZE frames inserted since the last claim, the next
\* claim takes the very next frame: below its capacity the ring loses nothing,
\* although neither thread holds a lock.
THEOREM RingLossless == CQSpec => NothingSkippedBelowCapacity
<1>1. RingInv /\ [CQNext]_cqVars =>
        [(pre = "compare" /\ pre' = "claimed" /\ Inserted - claimed < QUEUE_SIZE)
           => claimed' = claimed + 1]_cqVars
  <2> SUFFICES ASSUME RingInv, [CQNext]_cqVars, pre = "compare", pre' = "claimed",
                      Inserted - claimed < QUEUE_SIZE
               PROVE  claimed' = claimed + 1
    OBVIOUS
  <2> USE DEF callbackVars, workerVars, races
  <2>1. CASE SkipFrame
    BY <2>1 DEF SkipFrame, Arrive, NotAccepted
  <2>2. CASE RefuseBackup
    BY <2>2 DEF RefuseBackup, Arrive, NotAccepted
  <2>3. CASE RefuseFrame
    BY <2>3 DEF RefuseFrame, Arrive, NotAccepted
  <2>4. CASE AcceptFrame
    BY <2>4 DEF AcceptFrame, StoreFrame, Arrive
  <2>5. CASE CopyDone
    BY <2>5 DEF CopyDone
  <2>6. CASE BumpIndex
    BY <2>6 DEF BumpIndex
  <2>6a. CASE BumpSeenFirst
    BY <2>6a DEF BumpSeenFirst
  <2>6b. CASE Settle
    BY <2>6b DEF Settle
  <2>7. CASE NotifyFrame
    BY <2>7 DEF NotifyFrame, Wake
  <2>8. CASE LoopTest
    BY <2>8 DEF LoopTest
  <2>9. CASE FindEmpty
    BY <2>9 DEF FindEmpty
  <2>10. CASE ClaimSlot
    <3>1. queue_index # insert_idx /\ claimed' = slots[queue_index].frame
      BY <2>10 DEF ClaimSlot
    <3>2. claimed + 1 = Inserted + 1 - Age(queue_index)
      BY <3>1, ClaimedSlot DEF RingInv
    <3>3. slots[queue_index].frame = Inserted + 1 - Age(queue_index)
      BY <3>1, ClaimedSlot DEF RingInv
    <3>4. QED
      BY <3>1, <3>2, <3>3
  <2>11. CASE FallAsleep
    BY <2>11 DEF FallAsleep
  <2>12. CASE StopBeforeFrame
    BY <2>12 DEF StopBeforeFrame
  <2>13. CASE FirstFrame
    BY <2>13 DEF FirstFrame
  <2>14. CASE RefuseFormat
    BY <2>14 DEF RefuseFormat
  <2>15. CASE ReadBegin
    BY <2>15 DEF ReadBegin
  <2>16. CASE ConvertEnd
    BY <2>16 DEF ConvertEnd
  <2>17. CASE MergeEnd
    BY <2>17 DEF MergeEnd
  <2>18. CASE HandOver
    BY <2>18 DEF HandOver
  <2>19. CASE SpuriousWake
    BY <2>19 DEF SpuriousWake
  <2>20. CASE Stop
    BY <2>20 DEF Stop
  <2>21. CASE CloseClient
    BY <2>21 DEF CloseClient, Arrive
  <2>22. CASE NotifyStop
    BY <2>22 DEF NotifyStop, Wake
  <2>23. CASE UNCHANGED cqVars
    BY <2>23 DEF cqVars
  <2>24. QED
    BY <2>1, <2>2, <2>3, <2>4, <2>5, <2>6, <2>6a, <2>6b, <2>7, <2>8, <2>9, <2>10,
       <2>11, <2>12, <2>13, <2>14, <2>15, <2>16, <2>17, <2>18, <2>19, <2>20,
       <2>21, <2>22, <2>23
       DEF CQNext, Callback, PreprocessWorker, Shutdown
<1>2. QED
  BY <1>1, RingInvariant, PTL DEF CQSpec, NothingSkippedBelowCapacity

\* But for the two races, an overrun and a slot handed on unsettled, the ring
\* implements the ordered lossy channel: frames are handed on with their own
\* metadata, in camera order, none twice (main.cpp:263-266).
THEOREM RingOrder == CQSpec => ChannelUntilRace
<1>1. CQInit => Chan!ChanInit
  BY DEF CQInit, Chan!ChanInit
<1>2. RingInv /\ [CQNext]_cqVars
        => [Chan!ChanNext \/ overrun \/ Settling(slot)]_(Chan!chanVars)
  <2> SUFFICES ASSUME RingInv, [CQNext]_cqVars, ~overrun, ~Settling(slot)
               PROVE  Chan!ChanNext \/ UNCHANGED Chan!chanVars
    OBVIOUS
  <2> USE DEF callbackVars, workerVars, races, Chan!chanVars
  <2>1. CASE SkipFrame
    BY <2>1 DEF SkipFrame, Arrive, NotAccepted
  <2>2. CASE RefuseBackup
    BY <2>2 DEF RefuseBackup, Arrive, NotAccepted
  <2>3. CASE RefuseFrame
    BY <2>3 DEF RefuseFrame, Arrive, NotAccepted
  <2>4. CASE AcceptFrame
    <3>1. sent' = sent + 1 /\ sent \in Nat /\ UNCHANGED <<delivered, handed>>
      BY <2>4 DEF AcceptFrame, StoreFrame, RingInv, CQTypeOK
    <3>2. QED
      BY <3>1 DEF Chan!ChanNext, Chan!Send
  <2>5. CASE CopyDone
    BY <2>5 DEF CopyDone
  <2>6. CASE BumpIndex
    BY <2>6 DEF BumpIndex
  <2>6a. CASE BumpSeenFirst
    BY <2>6a DEF BumpSeenFirst
  <2>6b. CASE Settle
    BY <2>6b DEF Settle
  <2>7. CASE NotifyFrame
    BY <2>7 DEF NotifyFrame, Wake
  <2>8. CASE LoopTest
    BY <2>8 DEF LoopTest
  <2>9. CASE FindEmpty
    BY <2>9 DEF FindEmpty
  <2>10. CASE ClaimSlot
    BY <2>10 DEF ClaimSlot
  <2>11. CASE FallAsleep
    BY <2>11 DEF FallAsleep
  <2>12. CASE StopBeforeFrame
    BY <2>12 DEF StopBeforeFrame
  <2>13. CASE FirstFrame
    BY <2>13 DEF FirstFrame
  <2>14. CASE RefuseFormat
    BY <2>14 DEF RefuseFormat
  <2>15. CASE ReadBegin
    BY <2>15 DEF ReadBegin
  <2>16. CASE ConvertEnd
    BY <2>16 DEF ConvertEnd
  <2>17. CASE MergeEnd
    BY <2>17 DEF MergeEnd
  <2>18. CASE HandOver
    <3>1. /\ \E m \in SeenMeta(slot) : delivered' = m.frame
          /\ handed' = handed + 1 /\ sent' = sent /\ pre = "converted"
      BY <2>18 DEF HandOver
    <3>2. delivered' = claimed /\ delivered < claimed
      BY <3>1, SeenMetadata DEF RingInv, HeldFrame, Holding
    <3>3. claimed <= sent /\ claimed \in Nat /\ delivered \in Nat
      BY DEF RingInv, CQTypeOK, WorkerPosition, Inserted
    <3>4. QED
      BY <3>1, <3>2, <3>3 DEF Chan!ChanNext, Chan!Deliver
  <2>19. CASE SpuriousWake
    BY <2>19 DEF SpuriousWake
  <2>20. CASE Stop
    BY <2>20 DEF Stop
  <2>21. CASE CloseClient
    BY <2>21 DEF CloseClient, Arrive
  <2>22. CASE NotifyStop
    BY <2>22 DEF NotifyStop, Wake
  <2>23. CASE UNCHANGED cqVars
    BY <2>23 DEF cqVars
  <2>24. QED
    BY <2>1, <2>2, <2>3, <2>4, <2>5, <2>6, <2>6a, <2>6b, <2>7, <2>8, <2>9, <2>10,
       <2>11, <2>12, <2>13, <2>14, <2>15, <2>16, <2>17, <2>18, <2>19, <2>20,
       <2>21, <2>22, <2>23
       DEF CQNext, Callback, PreprocessWorker, Shutdown
<1>3. QED
  BY <1>1, <1>2, RingInvariant, PTL DEF CQSpec, ChannelUntilRace

\* Frames are only handed on by HandOver.
LEMMA OnlyHandOverHands == [CQNext]_cqVars /\ handed' # handed => HandOver
<1> SUFFICES ASSUME [CQNext]_cqVars, handed' # handed
             PROVE  HandOver
  OBVIOUS
<1> USE DEF callbackVars, workerVars, races
<1>1. ~Callback
  BY DEF Callback, SkipFrame, RefuseBackup, RefuseFrame, NotAccepted, AcceptFrame, StoreFrame,
     CopyDone, BumpIndex, BumpSeenFirst, Settle, NotifyFrame
<1>2. CASE PreprocessWorker
  BY <1>2 DEF PreprocessWorker, LoopTest, FindEmpty, ClaimSlot, FallAsleep, StopBeforeFrame,
     FirstFrame, RefuseFormat, ReadBegin, ConvertEnd, MergeEnd
<1>3. ~SpuriousWake /\ ~Shutdown /\ ~UNCHANGED cqVars
  BY DEF SpuriousWake, Shutdown, Stop, CloseClient, NotifyStop, cqVars
<1>4. QED
  BY <1>1, <1>2, <1>3 DEF CQNext

\* The metadata that goes out with an image is that of the frame claimed; from a
\* slot whose stores have not settled it may be that of the last lap, never of
\* another frame (main.cpp:263-266, inference_handler.cpp:112).
THEOREM RingMetadata == CQSpec => MetadataOfALap
<1>1. RingInv /\ [CQNext]_cqVars /\ handed' # handed /\ ~overrun
        => \/ delivered' = claimed
           \/ Settling(slot) /\ delivered' = LastLap(claimed)
  <2> SUFFICES ASSUME RingInv, HandOver, ~overrun
               PROVE  \/ delivered' = claimed
                      \/ Settling(slot) /\ delivered' = LastLap(claimed)
    BY OnlyHandOverHands
  <2>1. Holding /\ \E m \in SeenMeta(slot) : delivered' = m.frame
    BY DEF HandOver, Holding
  <2>2. QED
    BY <2>1, SeenMetadata DEF RingInv
<1>2. QED
  BY <1>1, RingInvariant, PTL DEF CQSpec, MetadataOfALap
-----------------------------------------------------------------------------
(***************************************************************************)
(* The formats written back into the camera's slots.                         *)
(***************************************************************************)

\* A frame the worker has not claimed yet has the format the camera gave it, and
\* so has the one it has just claimed: what ConvertEnd writes back stays with
\* frames that were claimed before.
FreshFormats ==
    ~overrun =>
      /\ \A i \in Slot : slots[i].frame > claimed => slots[i].format \in Formats
      /\ pre = "claimed" => slots[slot].format \in Formats

\* Only five steps touch a slot or claim one.
LEMMA StepsOnSlots ==
    ASSUME [CQNext]_cqVars
    PROVE  \/ AcceptFrame \/ CopyDone \/ Settle \/ ClaimSlot \/ ConvertEnd
           \/ /\ UNCHANGED <<slots, claimed, slot, overrun>>
              /\ pre' = "claimed" => pre = "claimed"
<1> USE DEF callbackVars, workerVars, races
<1>1. CASE Callback
  BY <1>1 DEF Callback, SkipFrame, RefuseBackup, RefuseFrame, NotAccepted, BumpIndex,
     BumpSeenFirst, NotifyFrame, Wake
<1>2. CASE PreprocessWorker
  BY <1>2 DEF PreprocessWorker, LoopTest, FindEmpty, FallAsleep, StopBeforeFrame, FirstFrame,
     RefuseFormat, ReadBegin, MergeEnd, HandOver
<1>3. CASE SpuriousWake
  BY <1>3 DEF SpuriousWake
<1>4. CASE Shutdown
  BY <1>4 DEF Shutdown, Stop, CloseClient, NotifyStop, Wake
<1>5. CASE UNCHANGED cqVars
  BY <1>5 DEF cqVars
<1>6. QED
  BY <1>1, <1>2, <1>3, <1>4, <1>5 DEF CQNext

\* Every step keeps the formats of the frames to come.
LEMMA FreshFormatsStep == RingInv /\ FreshFormats /\ [CQNext]_cqVars => FreshFormats'
<1> SUFFICES ASSUME RingInv, FreshFormats, [CQNext]_cqVars, ~overrun'
             PROVE  FreshFormats'
  BY DEF FreshFormats
<1>0. CQTypeOK
  BY DEF RingInv
<1>1. CASE AcceptFrame
  <2>1. PICK f \in Formats : StoreFrame(f)
    BY <1>1 DEF AcceptFrame
  <2>2. /\ slots' = [slots EXCEPT ![insert_idx] =
                       [frame |-> sent + 1, format |-> f,
                        pixels |-> slots[insert_idx].pixels \cup {sent + 1}]]
        /\ UNCHANGED <<claimed, slot, pre>>
        /\ ~overrun /\ ~(Holding /\ slot = insert_idx)
    BY <2>1 DEF StoreFrame
  <2>3. slots'[insert_idx].format \in Formats
    BY <1>0, <2>2 DEF CQTypeOK
  <2>4. \A i \in Slot : i # insert_idx => slots'[i] = slots[i]
    BY <1>0, <2>2 DEF CQTypeOK
  <2>5. QED
    BY <1>0, <2>2, <2>3, <2>4 DEF FreshFormats, CQTypeOK, Holding
<1>2. CASE CopyDone \/ Settle
  <2>1. /\ \A i \in Slot : slots'[i].frame = slots[i].frame /\ slots'[i].format = slots[i].format
        /\ UNCHANGED <<claimed, slot, pre, overrun>>
    BY <1>0, <1>2 DEF CopyDone, Settle, CQTypeOK, workerVars, races
  <2>2. QED
    BY <1>0, <2>1 DEF FreshFormats, CQTypeOK
<1>3. CASE ClaimSlot
  <2>1. /\ queue_index # insert_idx /\ slot' = queue_index
        /\ claimed' = slots[queue_index].frame /\ UNCHANGED <<slots, overrun>>
    BY <1>3 DEF ClaimSlot, races
  <2>2. claimed' > claimed /\ claimed \in Nat /\ claimed' \in Nat /\ queue_index \in Slot
    <3>1. claimed < Inserted + 1 - Age(queue_index)
      BY <2>1, ClaimedSlot DEF RingInv
    <3>2. slots[queue_index].frame = Inserted + 1 - Age(queue_index)
      BY <2>1, ClaimedSlot DEF RingInv
    <3>3. QED
      BY <1>0, <2>1, <3>1, <3>2 DEF CQTypeOK
  <2>3. \A i \in Slot : slots[i].frame \in Nat
    BY <1>0 DEF CQTypeOK
  <2>4. QED
    BY <2>1, <2>2, <2>3 DEF FreshFormats
<1>4. CASE ConvertEnd
  <2>1. /\ slots' = [slots EXCEPT ![slot].format = "rgb"] \/ slots' = slots
        /\ pre' = "converted" /\ UNCHANGED <<claimed, slot, overrun>> /\ Holding
    BY <1>4 DEF ConvertEnd, workerVars, races, Holding, Reading
  <2>2. slots[slot].frame = claimed
    BY <2>1 DEF RingInv, HeldFrame
  <2>3. /\ slots'[slot].frame = claimed
        /\ \A i \in Slot : i # slot => slots'[i] = slots[i]
    BY <1>0, <2>1, <2>2 DEF CQTypeOK
  <2>4. QED
    BY <1>0, <2>1, <2>3 DEF FreshFormats, CQTypeOK
<1>5. CASE /\ UNCHANGED <<slots, claimed, slot, overrun>>
           /\ pre' = "claimed" => pre = "claimed"
  BY <1>5 DEF FreshFormats
<1>6. QED
  BY <1>1, <1>2, <1>3, <1>4, <1>5, StepsOnSlots

\* No lap mistakes the "rgb" that preprocess() leaves in a slot for the format of
\* a camera frame, whatever the size of the ring, unless the slot is read before
\* the new format has settled (model_helper.cpp:268-337, main.cpp:263-266).
THEOREM RingFormats == CQSpec => []FormatNotStale
<1>1. CQInit => FreshFormats
  BY DEF CQInit, FreshFormats
<1>2. RingInv /\ FreshFormats /\ [CQNext]_cqVars => FreshFormats'
  BY FreshFormatsStep
<1>3. RingInv /\ FreshFormats => FormatNotStale
  <2> SUFFICES ASSUME RingInv, FreshFormats, pre = "claimed", ~overrun, ~Settling(slot),
                      NEW m \in SeenMeta(slot), m.format = "rgb"
               PROVE  "rgb" \in Formats
    BY DEF FormatNotStale
  <2>1. m = Meta(slot)
    BY SeenMetadata DEF RingInv, Holding
  <2>2. slots[slot].format \in Formats
    BY DEF FreshFormats
  <2>3. QED
    BY <2>1, <2>2 DEF Meta
<1>4. QED
  BY <1>1, <1>2, <1>3, RingInvariant, PTL DEF CQSpec
-----------------------------------------------------------------------------
(***************************************************************************)
(* The spacing of accepted frames.                                           *)
(***************************************************************************)

\* n_skipped never claims more frames than really went by since the last one
\* accepted, whatever mixture of skips, backups and refusals they were.
LEMMA SkippedWentBy == CQTypeOK /\ n_skipped <= gap /\ [CQNext]_cqVars => (n_skipped <= gap)'
<1> SUFFICES ASSUME CQTypeOK, n_skipped <= gap, [CQNext]_cqVars
             PROVE  (n_skipped <= gap)'
  OBVIOUS
<1> USE CameraQueueAssumption DEF CQTypeOK, callbackVars, workerVars, races
<1>1. CASE SkipFrame \/ RefuseBackup \/ RefuseFrame
  BY <1>1 DEF SkipFrame, RefuseBackup, RefuseFrame, NotAccepted
<1>2. CASE AcceptFrame
  BY <1>2 DEF AcceptFrame, StoreFrame
<1>3. CASE Callback /\ ~(SkipFrame \/ RefuseBackup \/ RefuseFrame \/ AcceptFrame)
  BY <1>3 DEF Callback, CopyDone, BumpIndex, BumpSeenFirst, Settle, NotifyFrame, Wake
<1>4. CASE PreprocessWorker
  BY <1>4 DEF PreprocessWorker, LoopTest, FindEmpty, ClaimSlot, FallAsleep, StopBeforeFrame,
     FirstFrame, RefuseFormat, ReadBegin, ConvertEnd, MergeEnd, HandOver
<1>5. CASE SpuriousWake
  BY <1>5 DEF SpuriousWake
<1>6. CASE Shutdown
  BY <1>6 DEF Shutdown, Stop, CloseClient, NotifyStop, Wake
<1>7. CASE UNCHANGED cqVars
  BY <1>7 DEF cqVars
<1>8. QED
  BY <1>1, <1>2, <1>3, <1>4, <1>5, <1>6, <1>7 DEF CQNext

\* A frame is accepted only by AcceptFrame.
LEMMA OnlyAcceptSends == [CQNext]_cqVars /\ sent' # sent => AcceptFrame
<1> SUFFICES ASSUME [CQNext]_cqVars, sent' # sent
             PROVE  AcceptFrame
  OBVIOUS
<1> USE DEF callbackVars, workerVars, races
<1>1. CASE Callback
  BY <1>1 DEF Callback, SkipFrame, RefuseBackup, RefuseFrame, NotAccepted, CopyDone, BumpIndex,
     BumpSeenFirst, Settle, NotifyFrame
<1>2. ~PreprocessWorker
  BY DEF PreprocessWorker, LoopTest, FindEmpty, ClaimSlot, FallAsleep, StopBeforeFrame,
     FirstFrame, RefuseFormat, ReadBegin, ConvertEnd, MergeEnd, HandOver
<1>3. ~SpuriousWake /\ ~Shutdown /\ ~UNCHANGED cqVars
  BY DEF SpuriousWake, Shutdown, Stop, CloseClient, NotifyStop, cqVars
<1>4. QED
  BY <1>1, <1>2, <1>3 DEF CQNext

\* Between two accepted frames at least skip_n_frames others arrived, for every
\* value of skip_n_frames (main.cpp:229-262, config_file.h:71).
THEOREM RingSpacing == CQSpec => AcceptedFramesSpaced
<1>1. CQInit => n_skipped <= gap
  BY DEF CQInit
<1>2. CQTypeOK /\ n_skipped <= gap /\ [CQNext]_cqVars => (n_skipped <= gap)'
  BY SkippedWentBy
<1>3. CQTypeOK /\ n_skipped <= gap /\ [CQNext]_cqVars
        => [sent' # sent => gap >= SKIP_N_FRAMES]_cqVars
  BY OnlyAcceptSends, CameraQueueAssumption DEF AcceptFrame, CQTypeOK
<1>4. QED
  BY <1>1, <1>2, <1>3, RingTyping, PTL DEF CQSpec, AcceptedFramesSpaced
=============================================================================
