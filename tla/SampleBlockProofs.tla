-------------------------- MODULE SampleBlockProofs --------------------------
(***************************************************************************)
(* Machine-checked proofs about SampleBlock: for blocks of any size and    *)
(* rings of any length, the CRC of a block that was sent is the one its    *)
(* reader computes, its samples are in order, and the records and samples  *)
(* it lacks are those that time-outs and failed reads account for.         *)
(***************************************************************************)
EXTENDS SampleBlock, RingLemmas, FiniteSetTheorems, FunctionTheorems, TLAPS

Block_t ==
  [seqId: Nat \cup {NULL}, record: [1 .. Records -> Nat], size: 0 .. Records, crc: Crc]

-----------------------------------------------------------------------------
(* Blocks *)

\* The CRC so far is that of the header and of the records that count.
Unsealed(b) ==
  b.crc = [header |-> b.seqId, body |-> SubSeq(b.record, 1, b.size), footer |-> <<>>]

LEMMA RecordIsSeq ==
  ASSUME NEW r \in [1 .. Records -> Nat]
  PROVE  r \in Seq(Nat) /\ Len(r) = Records
  BY SampleBlockAssumption

LEMMA SubSeqGrows ==
  ASSUME NEW r \in [1 .. Records -> Nat], NEW s \in 0 .. Records, NEW n \in Nat,
         s + n <= Records
  PROVE  /\ SubSeq(r, 1, s) \o SubSeq(r, s + 1, s + n) = SubSeq(r, 1, s + n)
         /\ SubSeq(r, s + 1, s + n) \in Seq(Nat)
<1>1. r \in Seq(Nat) /\ Len(r) = Records
  BY RecordIsSeq
<1>2. QED
  BY <1>1, SampleBlockAssumption

LEMMA SubSeqAlike ==
  ASSUME NEW r \in [1 .. Records -> Nat], NEW q \in [1 .. Records -> Nat],
         NEW s \in 0 .. Records, \A j \in 1 .. s : r[j] = q[j]
  PROVE  SubSeq(r, 1, s) = SubSeq(q, 1, s)
<1>1. r \in Seq(Nat) /\ Len(r) = Records /\ q \in Seq(Nat) /\ Len(q) = Records
  BY RecordIsSeq
<1>2. QED
  BY <1>1, SampleBlockAssumption

LEMMA BegunUnsealed ==
  ASSUME NEW b \in Block_t, NEW s \in Nat
  PROVE  Begun(b, s) \in Block_t /\ Unsealed(Begun(b, s)) /\ Begun(b, s).size = 0
<1>1. b.record \in Seq(Nat) /\ SubSeq(b.record, 1, 0) = <<>>
  BY RecordIsSeq DEF Block_t
<1> DEFINE e == Begun(b, s)
           c == [header |-> s, body |-> <<>>, footer |-> <<>>]
<1>2. e.seqId = s /\ e.record = b.record /\ e.size = 0 /\ e.crc = c
  BY DEF Begun, Block_t
<1>3. Begun(b, s) \in Block_t
  <2>1. c \in Crc
    BY DEF Crc
  <2> HIDE DEF c
  <2>2. [b EXCEPT !.seqId = s, !.size = 0, !.crc = c] \in Block_t
    <3>1. s \in Nat \cup {NULL} /\ 0 \in 0 .. Records
      BY SampleBlockAssumption
    <3> HIDE DEF e
    <3>2. QED
      BY <2>1, <3>1 DEF Block_t
  <2>3. QED
    BY <2>2 DEF Begun, c
<1>4. QED
  BY <1>1, <1>2, <1>3 DEF Unsealed

\* Counting records feeds the CRC exactly those.
LEMMA UpdatedUnsealed ==
  ASSUME NEW b \in Block_t, NEW n \in Nat, b.size + n <= Records, Unsealed(b)
  PROVE  /\ Updated(b, n) \in Block_t /\ Unsealed(Updated(b, n))
         /\ Updated(b, n).size = b.size + n
<1> DEFINE grown == b.crc.body \o SubSeq(b.record, b.size + 1, b.size + n)
<1>1. grown = SubSeq(b.record, 1, b.size + n)
  <2>1. b.record \in [1 .. Records -> Nat] /\ b.size \in 0 .. Records
    BY DEF Block_t
  <2>2. b.crc.body = SubSeq(b.record, 1, b.size)
    BY DEF Unsealed, Block_t, Crc
  <2>3. QED
    BY <2>1, <2>2, SubSeqGrows
<1>2. grown \in Seq(Nat)
  <2>1. b.record \in Seq(Nat) /\ Len(b.record) = Records
    BY RecordIsSeq DEF Block_t
  <2>2. b.size \in 0 .. Records
    BY DEF Block_t
  <2> HIDE DEF grown
  <2>3. b.size + n \in 0 .. Len(b.record)
    BY <2>1, <2>2, SampleBlockAssumption
  <2>4. SubSeq(b.record, 1, b.size + n) \in Seq(Nat)
    BY <2>1, <2>3
  <2>5. QED
    BY <1>1, <2>4
<1> DEFINE e == Updated(b, n)
<1>3. /\ e.seqId = b.seqId /\ e.record = b.record /\ e.size = b.size + n
      /\ e.crc = [header |-> b.crc.header, body |-> grown, footer |-> b.crc.footer]
  BY DEF Updated, Counted, Block_t, Crc
<1>4. Updated(b, n) \in Block_t
  <2>1. Updated(b, n) = [b EXCEPT !.size = b.size + n, !.crc.body = grown]
    BY DEF Updated, Counted
  <2>2. b.size + n \in 0 .. Records
    BY SampleBlockAssumption DEF Block_t
  <2> DEFINE c == [b.crc EXCEPT !.body = grown]
  <2>3. b.crc \in Crc
    BY DEF Block_t
  <2> HIDE DEF grown, e
  <2>4. c \in Crc
    BY <1>2, <2>3 DEF Crc
  <2>5. Updated(b, n) = [b EXCEPT !.size = b.size + n, !.crc = c]
    BY <2>1 DEF Block_t
  <2> HIDE DEF c
  <2>6. QED
    BY <2>2, <2>4, <2>5 DEF Block_t
<1>5. b.crc.header = b.seqId /\ b.crc.footer = <<>>
  BY DEF Unsealed, Block_t, Crc
<1>6. QED
  BY <1>1, <1>3, <1>4, <1>5 DEF Unsealed

\* Samples that are stored behind the records that count leave it as it is.
LEMMA StoredUnsealed ==
  ASSUME NEW b \in Block_t, NEW position \in Nat, NEW n \in Nat, b.size <= position,
         next \in Nat \ {0}, Unsealed(b)
  PROVE  /\ Stored(b, position, n) \in Block_t /\ Unsealed(Stored(b, position, n))
         /\ Stored(b, position, n).size = b.size
<1> DEFINE r == [j \in 1 .. Records |-> IF j \in position + 1 .. position + n
                                        THEN next + j - position - 1 ELSE b.record[j]]
<1>1. r \in [1 .. Records -> Nat]
  BY SampleBlockAssumption DEF Block_t
<1>2. \A j \in 1 .. b.size : b.record[j] = r[j]
  BY SampleBlockAssumption DEF Block_t
<1>3. Stored(b, position, n) = [b EXCEPT !.record = r]
  BY DEF Stored, Block_t
<1> HIDE DEF r
<1>4. SubSeq(b.record, 1, b.size) = SubSeq(r, 1, b.size)
  BY <1>1, <1>2, SubSeqAlike DEF Block_t
<1>5. QED
  BY <1>1, <1>3, <1>4 DEF Unsealed, Block_t

\* Finalised once, a block is valid.
LEMMA FinalizedBlock ==
  ASSUME NEW b \in Block_t
  PROVE  Finalized(b) \in Block_t /\ (Unsealed(b) => Valid(Finalized(b)))
<1> DEFINE r == [j \in 1 .. Records |-> IF j <= b.size THEN b.record[j] ELSE 0]
           footer == Append(b.crc.footer, b.size)
<1>1. r \in [1 .. Records -> Nat] /\ footer \in Seq(0 .. Records)
  BY SampleBlockAssumption DEF Block_t, Crc
<1>2. /\ \A j \in 1 .. b.size : b.record[j] = r[j]
      /\ \A j \in b.size + 1 .. Records : r[j] = 0
  BY SampleBlockAssumption DEF Block_t
<1>3. Unsealed(b) => footer = <<b.size>>
  BY DEF Unsealed
<1> DEFINE e == Finalized(b)
<1>4. /\ e.seqId = b.seqId /\ e.record = r /\ e.size = b.size
      /\ e.crc = [header |-> b.crc.header, body |-> b.crc.body, footer |-> footer]
  BY DEF Finalized, Block_t, Crc
<1>0. e = [b EXCEPT !.record = r, !.crc.footer = footer]
  BY DEF Finalized
<1> HIDE DEF r, footer, e
<1>5. SubSeq(b.record, 1, b.size) = SubSeq(r, 1, b.size)
  BY <1>1, <1>2, SubSeqAlike DEF Block_t
<1>6. Finalized(b) \in Block_t
  <2> DEFINE c == [b.crc EXCEPT !.footer = footer]
  <2>1. b.crc \in Crc
    BY DEF Block_t
  <2>2. c \in Crc
    BY <1>1, <2>1 DEF Crc
  <2>3. e = [b EXCEPT !.record = r, !.crc = c]
    BY <1>0 DEF Block_t
  <2> HIDE DEF c
  <2>4. QED
    BY <1>1, <2>2, <2>3 DEF Block_t, e
<1>7. ASSUME Unsealed(b) PROVE Valid(Finalized(b))
  <2>1. b.crc = [header |-> b.seqId, body |-> SubSeq(b.record, 1, b.size), footer |-> <<>>]
    BY <1>7 DEF Unsealed
  <2>2. /\ b.crc.header = b.seqId
        /\ b.crc.body = SubSeq(b.record, 1, b.size)
    BY <2>1 DEF Block_t, Crc
  <2>3. e.crc = [header |-> e.seqId, body |-> SubSeq(e.record, 1, e.size),
                 footer |-> <<e.size>>]
    BY <1>3, <1>4, <1>5, <1>7, <2>2
  <2>4. QED
    BY <1>2, <1>4, <2>3 DEF Valid, e
<1>8. QED
  BY <1>6, <1>7

-----------------------------------------------------------------------------
(* The invariant *)

\* Where the task is, where its descriptor points, and how far it has come.
Progress ==
  /\ at = "begin" => i = 0 /\ ~errval /\ logdesc # Current
  /\ at = "read" => ~errval /\ logdesc = Current
  /\ at = "read" /\ user = "IMU" => i < Records /\ buffer[Current].size <= i
  /\ at \in {"finalize", "send"} /\ logdesc # Current => errval /\ user = "IMU"

\* The block being filled is not one of those sent; when it is sent, it is valid.
Filling ==
  /\ at \in {"read", "finalize"} /\ logdesc = Current =>
       Current \notin sent /\ Unsealed(buffer[Current])
  /\ at = "send" /\ logdesc = Current => Valid(buffer[Current])

History_t == [taken: SUBSET Nat, timeouts: Nat, failed: Nat]

IInv == TypeOK /\ Progress /\ Filling /\ SealedIsValid

LEMMA CurrentIsSlot ==
  ASSUME TypeOK
  PROVE  Current \in Slot /\ seqId \in Nat
<1>1. seqId \in Nat /\ NumBuffers \in Nat \ {0}
  BY SampleBlockAssumption DEF TypeOK
<1>2. seqId % NumBuffers \in 0 .. NumBuffers - 1
  BY <1>1, Division
<1>3. QED
  BY <1>1, <1>2 DEF Current, Slot

\* The block at hand, in the record loop.
LEMMA BlockAtHand ==
  ASSUME IInv, at \in {"begin", "read"}
  PROVE  /\ Block \in Block_t /\ Unsealed(Block)
         /\ History \in History_t
         /\ user = "IMU" => i < Records /\ Block.size <= i
<1>1. Current \in Slot /\ seqId \in Nat /\ buffer[Current] \in Block_t
      /\ history[Current] \in History_t
  BY CurrentIsSlot DEF IInv, TypeOK, Block_t, History_t
<1>2. NoHistory \in History_t
  BY DEF NoHistory, History_t
<1>3. CASE at = "begin"
  BY <1>1, <1>2, <1>3, BegunUnsealed, SampleBlockAssumption
     DEF Block, History, IInv, Progress
<1>4. CASE at = "read"
  BY <1>1, <1>4 DEF Block, History, IInv, Progress, Filling
<1>5. QED
  BY <1>3, <1>4

\* What a pass of either loop leaves behind.
LEMMA FillStep ==
  ASSUME IInv, at \in {"begin", "read"}, NEW b \in Block_t, Unsealed(b),
         NEW h \in History_t, Fill(b, h)
  PROVE  /\ buffer' \in [Slot -> Block_t] /\ history' \in [Slot -> History_t]
         /\ logdesc' = Current /\ Current' = Current /\ Current \in Slot
         /\ user' = user /\ seqId' = seqId /\ sent' \in SUBSET Slot
         /\ buffer'[Current] = b /\ Current \notin sent'
         /\ \A k \in sent' : Valid(buffer'[k])
<1>1. Current \in Slot
  BY CurrentIsSlot DEF IInv
<1>2. buffer \in [Slot -> Block_t] /\ history \in [Slot -> History_t]
      /\ sent \in SUBSET Slot
  BY DEF IInv, TypeOK, Block_t, History_t
<1>3. \A k \in sent : Valid(buffer[k])
  BY DEF IInv, SealedIsValid, PollFailedFirst
<1>4. Current' = Current
  BY DEF Fill, Current
<1>5. QED
  BY <1>1, <1>2, <1>3, <1>4 DEF Fill

\* After a pass that leaves the task in the loop, at its end, or stopped.
LEMMA PassKeeps ==
  ASSUME IInv, at \in {"begin", "read"}, NEW b \in Block_t, Unsealed(b),
         NEW h \in History_t, Fill(b, h),
         at' \in {"read", "finalize", "stopped"}, errval' \in BOOLEAN,
         i' \in 0 .. Records, next' \in Nat \ {0},
         at' = "read" => ~errval' /\ (user = "IMU" => i' < Records /\ b.size <= i')
  PROVE  IInv'
<1>1. /\ buffer' \in [Slot -> Block_t] /\ history' \in [Slot -> History_t]
      /\ logdesc' = Current /\ Current' = Current /\ Current \in Slot
      /\ user' = user /\ seqId' = seqId /\ sent' \in SUBSET Slot
      /\ buffer'[Current] = b /\ Current \notin sent'
      /\ \A k \in sent' : Valid(buffer'[k])
  BY FillStep
<1>2. TypeOK'
  BY <1>1 DEF IInv, TypeOK, At, Block_t, History_t
<1>3. Progress'
  BY <1>1 DEF Progress
<1>4. Filling'
  BY <1>1 DEF Filling
<1>5. SealedIsValid'
  BY <1>1 DEF SealedIsValid
<1>6. QED
  BY <1>2, <1>3, <1>4, <1>5 DEF IInv

LEMMA ImuStep == IInv /\ ImuPass => IInv'
<1> SUFFICES ASSUME IInv, ImuPass PROVE IInv'
  OBVIOUS
<1>1. CASE Imu_PollFails
  <2>1. Current' = Current /\ at' = "finalize" /\ errval' = TRUE
        /\ UNCHANGED <<user, buffer, logdesc, seqId, i, next, history, sent>>
    BY <1>1 DEF Imu_PollFails, Current
  <2>2. TypeOK'
    BY <2>1 DEF IInv, TypeOK, At
  <2>3. Progress' /\ Filling'
    BY <1>1, <2>1 DEF IInv, Progress, Filling, Imu_PollFails
  <2>4. SealedIsValid'
    BY <1>1, <2>1 DEF IInv, SealedIsValid, PollFailedFirst, Imu_PollFails
  <2>5. QED
    BY <2>2, <2>3, <2>4 DEF IInv
<1>2. ASSUME NEW isStopped \in BOOLEAN, Pass(isStopped),
             NEW b \in Block_t, Unsealed(b), b.size <= i + 1,
             NEW h \in History_t, Fill(b, h), next' \in Nat \ {0}
      PROVE  IInv'
  <2>1. at \in {"begin", "read"} /\ user = "IMU"
    BY <1>2 DEF Pass
  <2>2. i < Records /\ i \in 0 .. Records
    BY <2>1, BlockAtHand DEF IInv, TypeOK
  <2>3. /\ errval' = isStopped
        /\ i' = IF isStopped THEN i ELSE i + 1
        /\ at' = IF isStopped \/ i' = Records THEN "finalize" ELSE "read"
    BY <1>2 DEF Pass
  <2>4. i' \in 0 .. Records /\ (at' = "read" => i' < Records /\ i' = i + 1 /\ ~errval')
    BY <2>2, <2>3, SampleBlockAssumption
  <2>5. at' \in {"read", "finalize", "stopped"} /\ errval' \in BOOLEAN
    BY <2>3
  <2>6. at' = "read" => ~errval' /\ (user = "IMU" => i' < Records /\ b.size <= i')
    BY <1>2, <2>4
  <2>7. QED
    BY <1>2, <2>1, <2>4, <2>5, <2>6, PassKeeps
<1>3. ASSUME at \in {"begin", "read"}, user = "IMU"
      PROVE  /\ Block \in Block_t /\ Unsealed(Block) /\ History \in History_t
             /\ Block.size \in Nat /\ Block.size <= i /\ i \in Nat /\ i < Records
             /\ next \in Nat \ {0}
             /\ [History EXCEPT !.timeouts = @ + 1] \in History_t
             /\ [History EXCEPT !.failed = @ + 1] \in History_t
             /\ [History EXCEPT !.taken = @ \cup {next}] \in History_t
  <2>1. /\ Block \in Block_t /\ Unsealed(Block) /\ History \in History_t
        /\ Block.size <= i /\ i < Records
    BY <1>3, BlockAtHand
  <2>2. next \in Nat \ {0} /\ i \in Nat
    BY SampleBlockAssumption DEF IInv, TypeOK
  <2>3. Block.size \in Nat
    BY <2>1, SampleBlockAssumption DEF Block_t
  <2>4. QED
    BY <2>1, <2>2, <2>3 DEF History_t
<1>4. ASSUME NEW b \in Block_t, Unsealed(b), b.size + 1 <= Records
      PROVE  Updated(b, 1) \in Block_t /\ Unsealed(Updated(b, 1))
             /\ Updated(b, 1).size = b.size + 1
  BY <1>4, UpdatedUnsealed
<1>5. CASE Imu_TimeOut
  <2> DEFINE h == [History EXCEPT !.timeouts = @ + 1]
  <2>1. Pass(FALSE) /\ Fill(Block, h) /\ next' = next
    BY <1>5 DEF Imu_TimeOut, TimedOut
  <2>2. at \in {"begin", "read"} /\ user = "IMU"
    BY <2>1 DEF Pass
  <2>3. /\ Block \in Block_t /\ Unsealed(Block) /\ h \in History_t
        /\ Block.size <= i + 1 /\ next \in Nat \ {0}
    BY <1>3, <2>2
  <2> HIDE DEF h
  <2>4. QED
    BY <1>2, <2>1, <2>3
<1>6. CASE Imu_Read
  <2> DEFINE b == Stored(Block, i, 1)
             h == [History EXCEPT !.taken = @ \cup {next}]
  <2>1. PICK isStopped \in BOOLEAN : Pass(isStopped)
    BY <1>6 DEF Imu_Read
  <2>2. Fill(Updated(b, 1), h) /\ next' = next + 1
    BY <1>6 DEF Imu_Read
  <2>3. at \in {"begin", "read"} /\ user = "IMU"
    BY <2>1 DEF Pass
  <2>4. /\ Block \in Block_t /\ Unsealed(Block) /\ Block.size \in Nat
        /\ Block.size <= i /\ i \in Nat /\ i < Records /\ next \in Nat \ {0}
        /\ h \in History_t
    BY <1>3, <2>3
  <2>5. b \in Block_t /\ Unsealed(b) /\ b.size = Block.size
    BY <2>4, StoredUnsealed
  <2> HIDE DEF b, h
  <2>6. b.size + 1 <= Records
    BY <2>4, <2>5, SampleBlockAssumption
  <2>7. Updated(b, 1) \in Block_t /\ Unsealed(Updated(b, 1))
        /\ Updated(b, 1).size <= i + 1 /\ next' \in Nat \ {0}
    BY <1>4, <2>2, <2>4, <2>5, <2>6
  <2>8. QED
    BY <1>2, <2>1, <2>2, <2>4, <2>7
<1>7. CASE Imu_ReadFails
  <2> DEFINE h == [History EXCEPT !.failed = @ + 1]
  <2>1. PICK isStopped \in BOOLEAN : Pass(isStopped)
    BY <1>7 DEF Imu_ReadFails
  <2>2. Fill(Updated(Block, 1), h) /\ next' = next
    BY <1>7 DEF Imu_ReadFails
  <2>3. at \in {"begin", "read"} /\ user = "IMU"
    BY <2>1 DEF Pass
  <2>4. /\ Block \in Block_t /\ Unsealed(Block) /\ Block.size \in Nat
        /\ Block.size <= i /\ i \in Nat /\ i < Records /\ next \in Nat \ {0}
        /\ h \in History_t
    BY <1>3, <2>3
  <2> HIDE DEF h
  <2>5. Block.size + 1 <= Records
    BY <2>4, SampleBlockAssumption
  <2>6. Updated(Block, 1) \in Block_t /\ Unsealed(Updated(Block, 1))
        /\ Updated(Block, 1).size <= i + 1
    BY <1>4, <2>4, <2>5
  <2>7. QED
    BY <1>2, <2>1, <2>2, <2>4, <2>6
<1>8. CASE Imu_Event
  <2>1. Pass(TRUE) /\ Fill(Block, History) /\ next' = next
    BY <1>8 DEF Imu_Event
  <2>2. at \in {"begin", "read"} /\ user = "IMU"
    BY <2>1 DEF Pass
  <2>3. /\ Block \in Block_t /\ Unsealed(Block) /\ History \in History_t
        /\ Block.size <= i + 1 /\ next \in Nat \ {0}
    BY <1>3, <2>2
  <2>4. QED
    BY <1>2, <2>1, <2>3
<1>9. QED
  BY <1>1, <1>5, <1>6, <1>7, <1>8 DEF ImuPass

LEMMA BatteryStep == IInv /\ BatteryRead => IInv'
<1> SUFFICES ASSUME IInv, BatteryRead PROVE IInv'
  OBVIOUS
<1>1. ASSUME at = "read", user = "POWER", NEW n \in 0 .. Remaining(Block)
      PROVE  /\ Block \in Block_t /\ Unsealed(Block)
             /\ Taking(n) \in History_t
             /\ n \in Nat /\ Block.size \in Nat /\ Block.size + n <= Records
             /\ next \in Nat \ {0} /\ next + n \in Nat \ {0}
             /\ i \in 0 .. Records /\ errval \in BOOLEAN /\ ~errval
  <2>1. Block \in Block_t /\ Unsealed(Block) /\ History \in History_t
    BY <1>1, BlockAtHand
  <2>2. next \in Nat \ {0} /\ i \in 0 .. Records /\ errval \in BOOLEAN /\ ~errval
    BY <1>1 DEF IInv, TypeOK, Progress
  <2>3. Block.size \in 0 .. Records /\ n \in 0 .. Records - Block.size
    BY <2>1 DEF Block_t, Remaining
  <2>4. n \in Nat /\ Block.size \in Nat /\ Block.size + n <= Records
        /\ next + n \in Nat \ {0}
    BY <2>2, <2>3, SampleBlockAssumption
  <2>5. next .. next + n - 1 \in SUBSET Nat
    BY <2>2, <2>4
  <2>6. Taking(n) \in History_t
    BY <2>1, <2>5 DEF Taking, History_t
  <2>7. QED
    BY <2>1, <2>2, <2>4, <2>6
<1>2. CASE Battery_Begin
  <2>1. at = "begin" /\ user = "POWER" /\ Fill(Block, History)
        /\ at' = "read" /\ i' = i /\ errval' = errval /\ next' = next
    BY <1>2 DEF Battery_Begin
  <2>2. i \in 0 .. Records /\ ~errval /\ errval \in BOOLEAN /\ next \in Nat \ {0}
    BY <2>1 DEF IInv, TypeOK, Progress
  <2>3. Block \in Block_t /\ Unsealed(Block) /\ History \in History_t
    BY <2>1, BlockAtHand
  <2>4. QED
    BY <2>1, <2>2, <2>3, PassKeeps
<1>3. CASE Battery_Read
  <2>1. PICK n \in 0 .. Remaining(Block) : Even(Block.size, n)
    BY <1>3 DEF Battery_Read
  <2> DEFINE b == Stored(Block, Block.size, n)
  <2>2. at = "read" /\ user = "POWER" /\ Fill(Updated(b, n), Taking(n))
        /\ at' = at /\ i' = i /\ errval' = errval /\ next' = next + n
    BY <2>1 DEF Even, Reading
  <2>3. /\ Block \in Block_t /\ Unsealed(Block) /\ Taking(n) \in History_t
        /\ n \in Nat /\ Block.size \in Nat /\ Block.size + n <= Records
        /\ next \in Nat \ {0} /\ next + n \in Nat \ {0}
        /\ i \in 0 .. Records /\ errval \in BOOLEAN /\ ~errval
    BY <1>1, <2>2
  <2>4. b \in Block_t /\ Unsealed(b) /\ b.size = Block.size
    BY <2>3, StoredUnsealed
  <2> HIDE DEF b
  <2>5. Updated(b, n) \in Block_t /\ Unsealed(Updated(b, n))
    BY <2>3, <2>4, UpdatedUnsealed
  <2>6. QED
    BY <2>2, <2>3, <2>5, PassKeeps
<1>4. CASE Battery_Odd
  <2>1. PICK n \in 0 .. Remaining(Block) - 1 :
          /\ Reading(Block.size, n)
          /\ Fill(Stored(Block, Block.size, n), Taking(n))
          /\ errval' \in BOOLEAN
          /\ at' = IF errval' THEN "stopped" ELSE "finalize"
    BY <1>4 DEF Battery_Odd
  <2> DEFINE b == Stored(Block, Block.size, n)
  <2>2. at = "read" /\ user = "POWER" /\ i' = i /\ next' = next + n
    BY <2>1 DEF Reading
  <2>3. n \in 0 .. Remaining(Block)
    <3>1. Remaining(Block) \in Int
      BY <2>2, BlockAtHand, SampleBlockAssumption DEF Remaining, Block_t
    <3>2. QED
      BY <3>1
  <2>4. /\ Block \in Block_t /\ Unsealed(Block) /\ Taking(n) \in History_t
        /\ n \in Nat /\ Block.size \in Nat /\ next \in Nat \ {0}
        /\ next + n \in Nat \ {0} /\ i \in 0 .. Records
    BY <1>1, <2>2, <2>3
  <2>5. b \in Block_t /\ Unsealed(b)
    BY <2>4, StoredUnsealed
  <2>6. Fill(b, Taking(n)) /\ errval' \in BOOLEAN /\ at' \in {"stopped", "finalize"}
    BY <2>1
  <2> HIDE DEF b
  <2>7. QED
    BY <2>2, <2>4, <2>5, <2>6, PassKeeps
<1>5. CASE Battery_ReadFails \/ Battery_Full
  <2>1. /\ user = "POWER" /\ at = "read" /\ at' \in {"stopped", "finalize"}
        /\ errval' \in {errval, TRUE}
        /\ UNCHANGED <<user, buffer, logdesc, seqId, i, next, history, sent>>
    BY <1>5 DEF Battery_ReadFails, Battery_Full
  <2>2. Current' = Current
    BY <2>1 DEF Current
  <2>3. TypeOK'
    BY <2>1 DEF IInv, TypeOK, At
  <2>4. Progress' /\ Filling'
    BY <2>1, <2>2 DEF IInv, Progress, Filling
  <2>5. SealedIsValid'
    BY <2>1, <2>2 DEF IInv, SealedIsValid, PollFailedFirst
  <2>6. QED
    BY <2>3, <2>4, <2>5 DEF IInv
<1>6. QED
  BY <1>2, <1>3, <1>4, <1>5 DEF BatteryRead

LEMMA FinalizeStep == IInv /\ (Finalize \/ Finalize_Null) => IInv'
<1> SUFFICES ASSUME IInv, Finalize \/ Finalize_Null PROVE IInv'
  OBVIOUS
<1>1. at = "finalize" /\ Current' = Current
      /\ UNCHANGED <<user, logdesc, seqId, i, errval, next, history, sent>>
  BY DEF Finalize, Finalize_Null, Current
<1>2. \A k \in sent : Valid(buffer[k])
  BY <1>1 DEF IInv, SealedIsValid, PollFailedFirst
<1>3. Current \in Slot /\ Current # NULL
  BY CurrentIsSlot, SampleBlockAssumption DEF IInv, Slot, NULL
<1>4. buffer \in [Slot -> Block_t]
  BY DEF IInv, TypeOK, Block_t
<1>5. CASE Finalize
  <2>1. logdesc \in Slot /\ at' = "send"
        /\ buffer' = [buffer EXCEPT ![logdesc] = Finalized(buffer[logdesc])]
    BY <1>5 DEF Finalize, IInv, TypeOK
  <2>2. /\ Finalized(buffer[logdesc]) \in Block_t
        /\ Unsealed(buffer[logdesc]) => Valid(Finalized(buffer[logdesc]))
    BY <1>4, <2>1, FinalizedBlock
  <2>3. buffer' \in [Slot -> Block_t]
    BY <1>4, <2>1, <2>2
  <2>4. TypeOK'
    BY <1>1, <2>1, <2>3 DEF IInv, TypeOK, At, Block_t
  <2>5. Progress'
    BY <1>1, <2>1 DEF IInv, Progress
  <2>6. Filling'
    BY <1>1, <1>4, <2>1, <2>2 DEF IInv, Filling
  <2>7. SealedIsValid'
    <3>1. CASE logdesc = Current
      BY <1>1, <1>2, <1>4, <2>1, <2>2, <3>1 DEF IInv, Filling, SealedIsValid
    <3>2. CASE logdesc # Current
      <4>1. PollFailedFirst'
        BY <1>1, <2>1, <3>2 DEF IInv, Progress, PollFailedFirst
      <4>2. \A k \in sent : k # logdesc => buffer'[k] = buffer[k]
        BY <1>4, <2>1 DEF IInv, TypeOK
      <4>3. QED
        BY <1>1, <1>2, <4>1, <4>2 DEF SealedIsValid
    <3>3. QED
      BY <3>1, <3>2
  <2>8. QED
    BY <2>4, <2>5, <2>6, <2>7 DEF IInv
<1>6. CASE Finalize_Null
  <2>1. logdesc = NULL /\ at' \in {"send", "lost"} /\ buffer' = buffer
    BY <1>6 DEF Finalize_Null
  <2>2. TypeOK'
    BY <1>1, <2>1 DEF IInv, TypeOK, At
  <2>3. Progress' /\ Filling'
    BY <1>1, <1>3, <2>1 DEF IInv, Progress, Filling
  <2>4. SealedIsValid'
    BY <1>1, <1>2, <2>1 DEF SealedIsValid
  <2>5. QED
    BY <2>2, <2>3, <2>4 DEF IInv
<1>7. QED
  BY <1>5, <1>6

LEMMA SendStep == IInv /\ Send => IInv'
<1> SUFFICES ASSUME IInv, Send PROVE IInv'
  OBVIOUS
<1>1. at = "send" /\ sent' = sent \cup {Current} /\ i' = 0
      /\ UNCHANGED <<user, buffer, logdesc, errval, next, history>>
  BY DEF Send
<1>2. Current \in Slot /\ seqId \in Nat /\ NumBuffers \in Nat /\ NumBuffers > 1
  BY CurrentIsSlot, SampleBlockAssumption DEF IInv
<1>3. CASE errval
  <2>1. at' = "stopped" /\ Current' = Current /\ seqId' = seqId
    BY <1>3 DEF Send, Current
  <2>2. TypeOK'
    <3>1. i' \in 0 .. Records /\ at' \in At /\ sent' \in SUBSET Slot
      BY <1>1, <1>2, <2>1, SampleBlockAssumption DEF IInv, TypeOK, At
    <3>2. QED
      BY <1>1, <2>1, <3>1 DEF IInv, TypeOK
  <2>3. Progress' /\ Filling'
    BY <1>1, <2>1 DEF Progress, Filling
  <2>4. logdesc # Current => PollFailedFirst'
    BY <1>1, <1>3, <2>1 DEF IInv, Progress, PollFailedFirst
  <2>5. PollFailedFirst => PollFailedFirst'
    BY <1>1, <2>1 DEF PollFailedFirst
  <2>6. Valid(buffer[Current]) \/ logdesc # Current
    BY <1>1 DEF IInv, Filling
  <2>7. SealedIsValid'
    BY <1>1, <2>1, <2>4, <2>5, <2>6 DEF IInv, SealedIsValid
  <2>8. QED
    BY <2>2, <2>3, <2>7 DEF IInv
<1>4. CASE ~errval
  <2>1. at' = "begin" /\ seqId' = seqId + 1 /\ seqId < MaxSeq
    BY <1>4 DEF Send
  <2>2. logdesc = Current
    BY <1>1, <1>4 DEF IInv, Progress
  <2>3. Current' # Current
    <3>1. /\ seqId + 1 \in Nat /\ seqId < seqId + 1 /\ seqId + 1 < seqId + NumBuffers
          /\ NumBuffers \in Nat \ {0}
      BY <1>2
    <3>2. seqId % NumBuffers # (seqId + 1) % NumBuffers
      BY <1>2, <3>1, SlotsApart
    <3>3. QED
      BY <2>1, <3>2 DEF Current
  <2>4. TypeOK'
    <3>1. i' \in 0 .. Records /\ at' \in At /\ sent' \in SUBSET Slot
      BY <1>1, <1>2, <2>1, SampleBlockAssumption DEF IInv, TypeOK, At
    <3>2. seqId' \in 0 .. MaxSeq
      BY <1>2, <2>1, SampleBlockAssumption
    <3>3. QED
      BY <1>1, <3>1, <3>2 DEF IInv, TypeOK
  <2>5. Progress' /\ Filling'
    BY <1>1, <1>4, <2>1, <2>2, <2>3 DEF Progress, Filling
  <2>6. \A k \in sent : Valid(buffer[k])
    BY <1>4 DEF IInv, SealedIsValid, PollFailedFirst
  <2>7. Valid(buffer[Current])
    BY <1>1, <2>2 DEF IInv, Filling
  <2>8. SealedIsValid'
    BY <1>1, <2>6, <2>7 DEF SealedIsValid
  <2>9. QED
    BY <2>4, <2>5, <2>8 DEF IInv
<1>5. QED
  BY <1>3, <1>4

LEMMA IInvInit == Init => IInv
<1> SUFFICES ASSUME Init PROVE IInv
  OBVIOUS
<1>1. Blank \in Block_t
  BY SampleBlockAssumption DEF Blank, Block_t, Crc
<1>2. NoHistory \in History_t
  BY DEF NoHistory, History_t
<1>3. TypeOK
  <2>1. buffer \in [Slot -> Block_t] /\ history \in [Slot -> History_t]
    BY <1>1, <1>2 DEF Init
  <2>2. /\ logdesc \in Slot \cup {NULL} /\ seqId \in 0 .. MaxSeq /\ i \in 0 .. Records
        /\ next \in Nat \ {0} /\ sent \in SUBSET Slot
    BY SampleBlockAssumption DEF Init
  <2>3. user \in User /\ errval \in BOOLEAN /\ at \in At
    BY DEF Init, At
  <2>4. QED
    BY <2>1, <2>2, <2>3 DEF TypeOK, Block_t, History_t
<1>4. Current # NULL
  BY <1>3, CurrentIsSlot, SampleBlockAssumption DEF Slot, NULL
<1>5. Progress /\ Filling /\ SealedIsValid
  BY <1>4 DEF Init, Progress, Filling, SealedIsValid
<1>6. QED
  BY <1>3, <1>5 DEF IInv

LEMMA IInvariant == Spec => []IInv
<1>1. IInv /\ UNCHANGED vars => IInv'
  BY DEF vars, IInv, TypeOK, Progress, Filling, SealedIsValid, PollFailedFirst, Current,
         Unsealed, Valid, At
<1>2. IInv /\ [Next]_vars => IInv'
  BY <1>1, ImuStep, BatteryStep, FinalizeStep, SendStep DEF Next
<1>3. QED
  BY IInvInit, <1>2, PTL DEF Spec

-----------------------------------------------------------------------------
(***************************************************************************)
(* Type correctness: size stays within the body though Imu's index and the *)
(* size move apart (Imu_Logging.c:203-209, Logging_Buffer.c:41-52).        *)
(***************************************************************************)
THEOREM TypeCorrect == Spec => []TypeOK
<1>1. IInv => TypeOK
  BY DEF IInv
<1>2. QED
  BY <1>1, IInvariant, PTL

(***************************************************************************)
(* The CRC of a sent block matches its contents, whatever timed out or     *)
(* failed on the way, unless a poll failed before the first pass of a      *)
(* block (Logging_Buffer.c:41-66, Imu_Logging.c:191-238).                  *)
(***************************************************************************)
THEOREM SealedBlocksAreValid == Spec => []SealedIsValid
<1>1. IInv => SealedIsValid
  BY DEF IInv
<1>2. QED
  BY <1>1, IInvariant, PTL

-----------------------------------------------------------------------------
(* What a block holds of the samples taken for it *)

KeptIn(b, h) == {b.record[j] : j \in 1 .. b.size} \cap h.taken
LostIn(b, h) == h.taken \ KeptIn(b, h)
ForeignIn(b, h) == {j \in 1 .. b.size : b.record[j] \notin h.taken}

\* GapsAccounted and InOrder, of one block and its history.
Accounted(b, h) ==
  /\ Cardinality(ForeignIn(b, h)) = Cardinality(LostIn(b, h)) + h.failed
  /\ Cardinality(LostIn(b, h)) <= h.timeouts
  /\ \A x \in LostIn(b, h), y \in KeptIn(b, h) : y < x

Ordered(b, h) ==
  \A j, l \in (1 .. b.size) \ ForeignIn(b, h) : j < l => b.record[j] < b.record[l]

Unbroken(b, h) ==
  /\ \A j \in 2 .. b.size : b.record[j] = b.record[j - 1] + 1
  /\ Remaining(b) = 0 => KeptIn(b, h) = h.taken

Good(b, h) ==
  /\ Ordered(b, h)
  /\ user = "IMU" => Accounted(b, h)
  /\ user = "POWER" => Unbroken(b, h)

\* All that is in the records was read before the sample x.
OlderThan(b, x) == \A j \in 1 .. Records : b.record[j] < x

\* Imu's block: its own samples stand in order, at passes already made, and
\* each pass has read one, counted one too many, or counted one too few.
ImuFilling(b, h, passes) ==
  /\ passes = b.size + h.timeouts
  /\ \A x \in h.taken : \E j \in 1 .. Records : b.record[j] = x
  /\ \A j \in 1 .. Records : b.record[j] \in h.taken => j <= passes
  /\ \A j, l \in 1 .. Records :
       j < l /\ b.record[j] \in h.taken /\ b.record[l] \in h.taken =>
         b.record[j] < b.record[l]
  /\ IsFiniteSet(h.taken) /\ Cardinality(h.taken) + h.failed = b.size

\* Battery's block: the newest samples, without a hole, and no others.
BatteryFilling(b, h, x) ==
  /\ \A j \in 1 .. b.size : b.record[j] + b.size = x + j - 1
  /\ h.taken = {b.record[j] : j \in 1 .. b.size}

\* Every block is good, also the one that is being filled.
SlotInv(k) ==
  /\ Good(buffer[k], history[k]) /\ OlderThan(buffer[k], next)
  /\ at = "read" /\ k = Current =>
       /\ user = "IMU" => ImuFilling(buffer[k], history[k], i)
       /\ user = "POWER" => BatteryFilling(buffer[k], history[k], next)

GapInv == \A k \in Slot : SlotInv(k)

LEMMA BlockParts ==
  ASSUME NEW b \in Block_t, NEW h \in History_t
  PROVE  /\ Records \in Nat \ {0} /\ b.size \in 0 .. Records /\ b.size \in Nat
         /\ b.record \in [1 .. Records -> Nat] /\ \A j \in 1 .. Records : b.record[j] \in Nat
         /\ 1 .. b.size \subseteq 1 .. Records
         /\ h.taken \subseteq Nat /\ h.timeouts \in Nat /\ h.failed \in Nat
<1>1. Records \in Nat \ {0}
  BY SampleBlockAssumption
<1>2. b.size \in 0 .. Records /\ b.record \in [1 .. Records -> Nat]
  BY DEF Block_t
<1>3. h.taken \subseteq Nat /\ h.timeouts \in Nat /\ h.failed \in Nat
  BY DEF History_t
<1>4. QED
  BY <1>1, <1>2, <1>3

\* Only the records that count matter.
LEMMA SameFront ==
  ASSUME NEW b \in Block_t, NEW c \in Block_t, NEW h \in History_t, b.size = c.size,
         \A j \in 1 .. b.size : b.record[j] = c.record[j], Good(b, h)
  PROVE  Good(c, h)
<1>1. KeptIn(c, h) = KeptIn(b, h) /\ ForeignIn(c, h) = ForeignIn(b, h)
  BY DEF KeptIn, ForeignIn
<1>2. LostIn(c, h) = LostIn(b, h) /\ Remaining(c) = Remaining(b)
  BY <1>1 DEF LostIn, Remaining
<1>3. Ordered(c, h)
  BY <1>1 DEF Good, Ordered
<1>4. user = "IMU" => Accounted(c, h)
  BY <1>1, <1>2 DEF Good, Accounted
<1>5. ASSUME user = "POWER" PROVE Unbroken(c, h)
  <2>1. \A j \in 2 .. b.size : j \in 1 .. b.size /\ j - 1 \in 1 .. b.size
    BY BlockParts
  <2>2. Unbroken(b, h)
    BY <1>5 DEF Good
  <2>3. QED
    BY <1>1, <1>2, <2>1, <2>2 DEF Unbroken
<1>6. QED
  BY <1>3, <1>4, <1>5 DEF Good

-----------------------------------------------------------------------------
(* Imu's blocks *)

\* As many kept as records that are the block's own: no sample is there twice.
LEMMA OwnAreKept ==
  ASSUME NEW b \in Block_t, NEW h \in History_t, NEW passes, ImuFilling(b, h, passes)
  PROVE  /\ IsFiniteSet(KeptIn(b, h)) /\ IsFiniteSet(ForeignIn(b, h))
         /\ Cardinality(KeptIn(b, h)) \in Nat /\ Cardinality(ForeignIn(b, h)) \in Nat
         /\ Cardinality(ForeignIn(b, h)) = b.size - Cardinality(KeptIn(b, h))
<1> DEFINE K == KeptIn(b, h)
           W == {j \in 1 .. b.size : b.record[j] \in h.taken}
           f == [j \in W |-> b.record[j]]
<1>1. /\ b.size \in Nat /\ 1 .. b.size \subseteq 1 .. Records /\ Records \in Nat
      /\ \A j \in 1 .. Records : b.record[j] \in Nat
  BY BlockParts
<1>2. IsFiniteSet(1 .. b.size) /\ Cardinality(1 .. b.size) = b.size
  <2> DEFINE n == b.size
  <2>1. n \in Nat
    BY <1>1
  <2> HIDE DEF n
  <2>2. IsFiniteSet(1 .. n) /\ Cardinality(1 .. n) = IF 1 > n THEN 0 ELSE (n - 1) + 1
    BY <2>1, FS_Interval
  <2>3. QED
    BY <2>1, <2>2 DEF n
<1>3. IsFiniteSet(W) /\ Cardinality(W) \in Nat
  BY <1>2, FS_Subset, FS_CardinalityType
<1>4. f \in [W -> K] /\ \A x \in K : \E j \in W : f[j] = x
  BY DEF KeptIn
<1>5. ASSUME NEW j \in W, NEW l \in W, f[j] = f[l] PROVE j = l
  <2>1. j \in 1 .. Records /\ l \in 1 .. Records /\ b.record[j] = b.record[l]
        /\ b.record[j] \in h.taken /\ b.record[l] \in h.taken /\ b.record[j] \in Nat
    BY <1>1, <1>5
  <2>2. ~(j < l) /\ ~(l < j)
    BY <2>1 DEF ImuFilling
  <2>3. QED
    BY <1>1, <2>1, <2>2
<1>6. f \in Bijection(W, K)
  BY <1>4, <1>5, Fun_IsBij
<1>7. IsFiniteSet(K) /\ Cardinality(K) = Cardinality(W)
  BY <1>3, <1>6, FS_Bijection, Fun_ExistsBij
<1>8. ForeignIn(b, h) = (1 .. b.size) \ W /\ (1 .. b.size) \cap W = W
  BY DEF ForeignIn
<1>9. /\ IsFiniteSet(ForeignIn(b, h))
      /\ Cardinality(ForeignIn(b, h)) = b.size - Cardinality(W)
  <2> DEFINE S == 1 .. b.size
  <2>1. IsFiniteSet(S) /\ Cardinality(S) = b.size
    BY <1>2
  <2>2. ForeignIn(b, h) = S \ W /\ S \cap W = W
    BY <1>8
  <2> HIDE DEF S, W
  <2>3. IsFiniteSet(S \ W) /\ Cardinality(S \ W) = Cardinality(S) - Cardinality(S \cap W)
    BY <2>1, FS_Difference
  <2>4. QED
    BY <2>1, <2>2, <2>3
<1>10. QED
  BY <1>3, <1>7, <1>9, FS_CardinalityType

LEMMA LostAreLate ==
  ASSUME NEW b \in Block_t, NEW h \in History_t, NEW passes, ImuFilling(b, h, passes)
  PROVE  /\ Cardinality(LostIn(b, h)) = Cardinality(h.taken) - Cardinality(KeptIn(b, h))
         /\ Cardinality(LostIn(b, h)) <= h.timeouts
         /\ \A x \in LostIn(b, h), y \in KeptIn(b, h) : y < x
<1> DEFINE L == LostIn(b, h)
           D == b.size + 1 .. b.size + h.timeouts
           f == [x \in L |-> CHOOSE j \in 1 .. Records : b.record[j] = x]
<1>1. /\ b.size \in Nat /\ 1 .. b.size \subseteq 1 .. Records /\ Records \in Nat
      /\ \A j \in 1 .. Records : b.record[j] \in Nat
      /\ h.timeouts \in Nat
  BY BlockParts
<1>2. IsFiniteSet(h.taken) /\ h.taken \cap KeptIn(b, h) = KeptIn(b, h)
  BY DEF ImuFilling, KeptIn
<1>3. IsFiniteSet(L) /\ Cardinality(L) = Cardinality(h.taken) - Cardinality(KeptIn(b, h))
  BY <1>2, FS_Difference DEF LostIn
<1>4. ASSUME NEW x \in L, NEW j \in 1 .. Records, b.record[j] = x
      PROVE  j \in D
  <2>1. x \in h.taken /\ x \notin KeptIn(b, h)
    BY DEF LostIn
  <2>2. j <= b.size + h.timeouts
    BY <1>4, <2>1 DEF ImuFilling
  <2>3. ~(j \in 1 .. b.size)
    BY <1>4, <2>1 DEF KeptIn
  <2>4. QED
    BY <1>1, <2>2, <2>3
<1>5. \A x \in L : f[x] \in 1 .. Records /\ b.record[f[x]] = x
  <2>1. \A x \in L : \E j \in 1 .. Records : b.record[j] = x
    BY DEF LostIn, ImuFilling
  <2>2. QED
    BY <2>1
<1>6. f \in [L -> D]
  BY <1>4, <1>5
<1> HIDE DEF f
<1>7. f \in Injection(L, D)
  BY <1>5, <1>6, Fun_IsInj
<1>8. IsFiniteSet(D) /\ Cardinality(D) = h.timeouts
  <2> DEFINE m == b.size + 1
             n == b.size + h.timeouts
  <2>1. m \in Int /\ n \in Int /\ (IF m > n THEN 0 ELSE (n - m) + 1) = h.timeouts
    BY <1>1
  <2> HIDE DEF m, n
  <2>2. IsFiniteSet(m .. n) /\ Cardinality(m .. n) = IF m > n THEN 0 ELSE (n - m) + 1
    BY <2>1, FS_Interval
  <2>3. QED
    BY <2>1, <2>2 DEF m, n
<1>9. Cardinality(L) <= h.timeouts
  BY <1>7, <1>8, FS_Injection
<1>10. ASSUME NEW x \in L, NEW y \in KeptIn(b, h) PROVE y < x
  <2>1. f[x] \in 1 .. Records /\ b.record[f[x]] = x /\ f[x] \in D /\ x \in h.taken
    BY <1>5, <1>6 DEF LostIn
  <2>2. PICK l \in 1 .. b.size : b.record[l] = y /\ y \in h.taken
    BY DEF KeptIn
  <2>3. l \in 1 .. Records /\ l < f[x]
    BY <1>1, <2>1, <2>2
  <2>4. QED
    BY <2>1, <2>2, <2>3 DEF ImuFilling
<1>11. QED
  BY <1>3, <1>9, <1>10

LEMMA ImuFillingIsGood ==
  ASSUME NEW b \in Block_t, NEW h \in History_t, NEW passes, ImuFilling(b, h, passes),
         user = "IMU"
  PROVE  Good(b, h)
<1>1. /\ 1 .. b.size \subseteq 1 .. Records /\ b.size \in Nat /\ h.failed \in Nat
  BY BlockParts
<1>2. Ordered(b, h)
  BY <1>1 DEF Ordered, ForeignIn, ImuFilling
<1>3. Accounted(b, h)
  <2>1. Cardinality(h.taken) \in Nat /\ Cardinality(h.taken) + h.failed = b.size
    BY FS_CardinalityType DEF ImuFilling
  <2>2. Cardinality(ForeignIn(b, h)) = Cardinality(LostIn(b, h)) + h.failed
    BY <1>1, <2>1, OwnAreKept, LostAreLate
  <2>3. QED
    BY <2>2, LostAreLate DEF Accounted
<1>4. QED
  BY <1>2, <1>3 DEF Good

\* A pass that begins a block, that reads, fails to read, or times out.
LEMMA ImuBegins ==
  ASSUME NEW b \in Block_t, NEW s \in Nat
  PROVE  ImuFilling(Begun(b, s), NoHistory, 0)
<1>1. Begun(b, s).size = 0
  BY DEF Begun, Block_t
<1>2. /\ NoHistory.taken = {} /\ NoHistory.timeouts = 0 /\ NoHistory.failed = 0
  BY DEF NoHistory
<1>3. IsFiniteSet({}) /\ Cardinality({}) = 0
  BY FS_EmptySet
<1>4. QED
  BY <1>1, <1>2, <1>3 DEF ImuFilling

LEMMA ImuTimesOut ==
  ASSUME NEW b \in Block_t, NEW h \in History_t, NEW passes, ImuFilling(b, h, passes)
  PROVE  ImuFilling(b, [h EXCEPT !.timeouts = @ + 1], passes + 1)
<1> DEFINE g == [h EXCEPT !.timeouts = @ + 1]
<1>1. g.taken = h.taken /\ g.failed = h.failed /\ g.timeouts = h.timeouts + 1
  BY DEF History_t
<1>2. b.size \in Nat /\ h.timeouts \in Nat /\ Records \in Nat
  BY BlockParts
<1> HIDE DEF g
<1>3. passes \in Nat /\ passes + 1 = b.size + g.timeouts
  BY <1>1, <1>2 DEF ImuFilling
<1>4. \A j \in 1 .. Records : b.record[j] \in g.taken => j <= passes + 1
  BY <1>1, <1>2, <1>3 DEF ImuFilling
<1>5. ImuFilling(b, g, passes + 1)
  BY <1>1, <1>3, <1>4 DEF ImuFilling
<1>6. QED
  BY <1>5 DEF g

LEMMA ImuReadFails ==
  ASSUME NEW b \in Block_t, NEW h \in History_t, NEW passes, ImuFilling(b, h, passes)
  PROVE  ImuFilling(Updated(b, 1), [h EXCEPT !.failed = @ + 1], passes + 1)
<1> DEFINE g == [h EXCEPT !.failed = @ + 1]
           e == Updated(b, 1)
<1>1. g.taken = h.taken /\ g.failed = h.failed + 1 /\ g.timeouts = h.timeouts
  BY DEF History_t
<1>2. b.size \in Nat /\ h.timeouts \in Nat /\ h.failed \in Nat /\ Records \in Nat
  BY BlockParts
<1>3. e.size = b.size + 1 /\ e.record = b.record
  BY DEF Updated, Counted, Block_t
<1> HIDE DEF g, e
<1>4. passes \in Nat /\ passes + 1 = e.size + g.timeouts
  BY <1>1, <1>2, <1>3 DEF ImuFilling
<1>5. \A j \in 1 .. Records : e.record[j] \in g.taken => j <= passes + 1
  BY <1>1, <1>2, <1>3, <1>4 DEF ImuFilling
<1>6. IsFiniteSet(g.taken) /\ Cardinality(g.taken) + g.failed = e.size
  <2>1. Cardinality(h.taken) \in Nat
    BY FS_CardinalityType DEF ImuFilling
  <2>2. QED
    BY <1>1, <1>2, <1>3, <2>1 DEF ImuFilling
<1>7. ImuFilling(e, g, passes + 1)
  BY <1>1, <1>3, <1>4, <1>5, <1>6 DEF ImuFilling
<1>8. QED
  BY <1>7 DEF e, g

LEMMA ImuReads ==
  ASSUME NEW b \in Block_t, NEW h \in History_t, NEW passes \in Nat, passes < Records,
         ImuFilling(b, h, passes), OlderThan(b, next), next \in Nat \ {0}
  PROVE  ImuFilling(Updated(Stored(b, passes, 1), 1), [h EXCEPT !.taken = @ \cup {next}],
                    passes + 1)
<1> DEFINE g == [h EXCEPT !.taken = @ \cup {next}]
           e == Updated(Stored(b, passes, 1), 1)
<1>1. g.taken = h.taken \cup {next} /\ g.failed = h.failed /\ g.timeouts = h.timeouts
  BY DEF History_t
<1>2. /\ b.size \in Nat /\ h.timeouts \in Nat /\ h.failed \in Nat /\ Records \in Nat
      /\ \A j \in 1 .. Records : b.record[j] \in Nat /\ b.record[j] < next
      /\ passes + 1 \in 1 .. Records /\ passes \in Nat
  BY BlockParts DEF OlderThan
<1>3. /\ e.size = b.size + 1
      /\ \A j \in 1 .. Records : e.record[j] = IF j = passes + 1 THEN next ELSE b.record[j]
  <2>1. \A j \in 1 .. Records :
          Stored(b, passes, 1).record[j] = IF j = passes + 1 THEN next ELSE b.record[j]
    BY <1>2 DEF Stored, Block_t
  <2>2. Stored(b, passes, 1).size = b.size
    BY DEF Stored, Block_t
  <2>3. /\ e.size = Stored(b, passes, 1).size + 1
        /\ e.record = Stored(b, passes, 1).record
    BY DEF Updated, Counted, Stored, Block_t
  <2>4. QED
    BY <2>1, <2>2, <2>3
<1> HIDE DEF g, e
<1>4. \A j \in 1 .. Records : b.record[j] \in h.taken => j <= passes /\ j # passes + 1
  BY <1>2 DEF ImuFilling
<1>5. \A j \in 1 .. Records :
        e.record[j] \in g.taken <=> j = passes + 1 \/ b.record[j] \in h.taken
  BY <1>1, <1>2, <1>3, <1>4
<1>6. passes + 1 = e.size + g.timeouts
  BY <1>1, <1>2, <1>3 DEF ImuFilling
<1>7. ASSUME NEW x \in g.taken PROVE \E j \in 1 .. Records : e.record[j] = x
  <2>1. CASE x = next
    BY <1>2, <1>3, <2>1
  <2>2. CASE x \in h.taken
    <3>1. PICK j \in 1 .. Records : b.record[j] = x
      BY <2>2 DEF ImuFilling
    <3>2. QED
      BY <1>3, <1>4, <2>2, <3>1
  <2>3. QED
    BY <1>1, <2>1, <2>2
<1>8. \A j \in 1 .. Records : e.record[j] \in g.taken => j <= passes + 1
  BY <1>2, <1>4, <1>5
<1>9. ASSUME NEW j \in 1 .. Records, NEW l \in 1 .. Records, j < l,
             e.record[j] \in g.taken, e.record[l] \in g.taken
      PROVE  e.record[j] < e.record[l]
  <2>1. j # passes + 1 /\ b.record[j] \in h.taken
    BY <1>2, <1>5, <1>8, <1>9
  <2>2. e.record[j] = b.record[j]
    BY <1>3, <2>1
  <2>3. CASE l = passes + 1
    BY <1>2, <1>3, <2>2, <2>3
  <2>4. CASE l # passes + 1
    BY <1>3, <1>5, <1>9, <2>1, <2>2, <2>4 DEF ImuFilling
  <2>5. QED
    BY <2>3, <2>4
<1>10. IsFiniteSet(g.taken) /\ Cardinality(g.taken) + g.failed = e.size
  <2>1. IsFiniteSet(h.taken) /\ Cardinality(h.taken) \in Nat
    BY FS_CardinalityType DEF ImuFilling
  <2>2. next \notin h.taken
    <3>1. \A x \in h.taken : \E j \in 1 .. Records : b.record[j] = x
      BY DEF ImuFilling
    <3>2. \A j \in 1 .. Records : b.record[j] # next
      BY <1>2
    <3>3. QED
      BY <3>1, <3>2
  <2>3. IsFiniteSet(g.taken) /\ Cardinality(g.taken) = Cardinality(h.taken) + 1
    BY <1>1, <2>1, <2>2, FS_AddElement
  <2>4. QED
    BY <1>1, <1>2, <1>3, <2>1, <2>3 DEF ImuFilling
<1>11. ImuFilling(e, g, passes + 1)
  BY <1>6, <1>7, <1>8, <1>9, <1>10 DEF ImuFilling
<1>12. QED
  BY <1>11 DEF e, g

-----------------------------------------------------------------------------
(* Battery's blocks *)

\* Records that follow each other are in order.
LEMMA UnbrokenIsOrdered ==
  ASSUME NEW b \in Block_t, NEW x \in Nat,
         \A j \in 1 .. b.size : b.record[j] + b.size = x + j - 1
  PROVE  /\ \A j, l \in 1 .. b.size : j < l => b.record[j] < b.record[l]
         /\ \A j \in 2 .. b.size : b.record[j] = b.record[j - 1] + 1
<1>1. /\ b.size \in Nat /\ \A j \in 1 .. b.size : b.record[j] \in Nat
  BY SampleBlockAssumption DEF Block_t
<1>2. ASSUME NEW j \in 1 .. b.size, NEW l \in 1 .. b.size, j < l
      PROVE  b.record[j] < b.record[l]
  <2>1. b.record[j] + b.size = x + j - 1 /\ b.record[l] + b.size = x + l - 1
    OBVIOUS
  <2>2. QED
    BY <1>1, <1>2, <2>1
<1>3. ASSUME NEW j \in 2 .. b.size PROVE b.record[j] = b.record[j - 1] + 1
  <2>1. j \in 1 .. b.size /\ j - 1 \in 1 .. b.size
    BY <1>1
  <2>2. b.record[j] + b.size = x + j - 1 /\ b.record[j - 1] + b.size = x + (j - 1) - 1
    BY <2>1
  <2>3. QED
    BY <1>1, <2>1, <2>2
<1>4. QED
  BY <1>2, <1>3

LEMMA BatteryFillingIsGood ==
  ASSUME NEW b \in Block_t, NEW h \in History_t, NEW x \in Nat, BatteryFilling(b, h, x),
         user = "POWER"
  PROVE  Good(b, h)
<1>1. KeptIn(b, h) = h.taken
  BY DEF KeptIn, BatteryFilling
<1>2. QED
  BY <1>1, UnbrokenIsOrdered DEF Good, Ordered, Unbroken, BatteryFilling

LEMMA BatteryBegins ==
  ASSUME NEW b \in Block_t, NEW s \in Nat, NEW x
  PROVE  BatteryFilling(Begun(b, s), NoHistory, x)
<1>1. Begun(b, s).size = 0
  BY DEF Begun, Block_t
<1>2. NoHistory.taken = {}
  BY DEF NoHistory
<1>3. 1 .. 0 = {}
  OBVIOUS
<1>4. QED
  BY <1>1, <1>2, <1>3 DEF BatteryFilling

\* What a read leaves in the records, counted or not.
LEMMA StoredRecords ==
  ASSUME NEW b \in Block_t, NEW n \in Nat, b.size + n <= Records, next \in Nat
  PROVE  LET c == Stored(b, b.size, n) IN
         /\ c.size = b.size
         /\ Updated(c, n).size = b.size + n /\ Updated(c, n).record = c.record
         /\ \A j \in 1 .. b.size : c.record[j] = b.record[j]
         /\ \A j \in b.size + 1 .. b.size + n : c.record[j] = next + j - b.size - 1
<1>1. /\ Records \in Nat /\ b.size \in Nat /\ b.size <= Records
  BY SampleBlockAssumption DEF Block_t
<1> DEFINE c == Stored(b, b.size, n)
<1>2. c.size = b.size
  BY DEF Stored, Block_t
<1>3. Updated(c, n).size = c.size + n /\ Updated(c, n).record = c.record
  BY DEF Stored, Updated, Counted, Block_t
<1>4. c.record = [j \in 1 .. Records |-> IF j \in b.size + 1 .. b.size + n
                                         THEN next + j - b.size - 1 ELSE b.record[j]]
  BY DEF Stored, Block_t
<1> HIDE DEF c
<1>5. \A j \in 1 .. b.size : c.record[j] = b.record[j]
  BY <1>1, <1>4
<1>6. \A j \in b.size + 1 .. b.size + n : c.record[j] = next + j - b.size - 1
  BY <1>1, <1>4
<1>7. QED
  BY <1>2, <1>3, <1>5, <1>6 DEF c

LEMMA BatteryReads ==
  ASSUME NEW b \in Block_t, NEW h \in History_t, NEW n \in Nat, b.size + n <= Records,
         next \in Nat, BatteryFilling(b, h, next)
  PROVE  BatteryFilling(Updated(Stored(b, b.size, n), n),
                        [h EXCEPT !.taken = @ \cup next .. next + n - 1], next + n)
<1> DEFINE g == [h EXCEPT !.taken = @ \cup next .. next + n - 1]
           e == Updated(Stored(b, b.size, n), n)
<1>1. g.taken = h.taken \cup next .. next + n - 1
  BY DEF History_t
<1>2. /\ e.size = b.size + n
      /\ \A j \in 1 .. b.size : e.record[j] = b.record[j]
      /\ \A j \in b.size + 1 .. b.size + n : e.record[j] = next + j - b.size - 1
  BY StoredRecords
<1> HIDE DEF g, e
<1>3. b.size \in Nat /\ \A j \in 1 .. b.size : b.record[j] \in Nat
  BY SampleBlockAssumption DEF Block_t
<1>4. ASSUME NEW j \in 1 .. e.size PROVE e.record[j] + e.size = next + n + j - 1
  <2>1. CASE j <= b.size
    <3>1. j \in 1 .. b.size
      BY <1>2, <1>3, <2>1
    <3>2. e.record[j] = b.record[j] /\ b.record[j] + b.size = next + j - 1
          /\ b.record[j] \in Nat
      BY <1>2, <1>3, <3>1 DEF BatteryFilling
    <3>3. QED
      BY <1>2, <1>3, <3>1, <3>2
  <2>2. CASE j > b.size
    <3>1. j \in b.size + 1 .. b.size + n
      BY <1>2, <1>3, <2>2
    <3>2. QED
      BY <1>2, <1>3, <3>1
  <2>3. QED
    BY <1>2, <1>3, <2>1, <2>2
<1>5. ASSUME NEW x \in g.taken PROVE \E j \in 1 .. e.size : x = e.record[j]
  <2>1. CASE x \in h.taken
    <3>1. PICK j \in 1 .. b.size : x = b.record[j]
      BY <2>1 DEF BatteryFilling
    <3>2. j \in 1 .. e.size /\ x = e.record[j]
      BY <1>2, <1>3, <3>1
    <3>3. QED
      BY <3>2
  <2>2. CASE x \in next .. next + n - 1
    <3> DEFINE j == x - next + b.size + 1
    <3>1. j \in b.size + 1 .. b.size + n /\ j \in 1 .. e.size /\ x = next + j - b.size - 1
      BY <1>2, <1>3, <2>2
    <3> HIDE DEF j
    <3>2. e.record[j] = x
      BY <1>2, <3>1
    <3>3. QED
      BY <3>1, <3>2
  <2>3. QED
    BY <1>1, <2>1, <2>2
<1>6. ASSUME NEW j \in 1 .. e.size PROVE e.record[j] \in g.taken
  <2>1. CASE j <= b.size
    <3>1. j \in 1 .. b.size
      BY <1>2, <1>3, <2>1
    <3>2. e.record[j] = b.record[j] /\ b.record[j] \in h.taken
      BY <1>2, <3>1 DEF BatteryFilling
    <3>3. QED
      BY <1>1, <3>2
  <2>2. CASE j > b.size
    <3>1. j \in b.size + 1 .. b.size + n
      BY <1>2, <1>3, <2>2
    <3>2. e.record[j] \in next .. next + n - 1
      BY <1>2, <1>3, <3>1
    <3>3. QED
      BY <1>1, <3>2
  <2>3. QED
    BY <1>2, <1>3, <2>1, <2>2
<1>7. BatteryFilling(e, g, next + n)
  BY <1>4, <1>5, <1>6 DEF BatteryFilling
<1>8. QED
  BY <1>7 DEF e, g

\* An odd read: samples are lost, but the block is then not full.
LEMMA BatteryReadsOdd ==
  ASSUME NEW b \in Block_t, NEW h \in History_t, NEW n \in Nat, b.size + n < Records,
         next \in Nat, BatteryFilling(b, h, next), user = "POWER",
         Stored(b, b.size, n) \in Block_t
  PROVE  Good(Stored(b, b.size, n), [h EXCEPT !.taken = @ \cup next .. next + n - 1])
<1> DEFINE c == Stored(b, b.size, n)
           g == [h EXCEPT !.taken = @ \cup next .. next + n - 1]
<1>1. Records \in Nat /\ b.size \in Nat
  BY SampleBlockAssumption DEF Block_t
<1>2. c.size = b.size /\ \A j \in 1 .. b.size : c.record[j] = b.record[j]
  BY <1>1, StoredRecords
<1>3. c \in Block_t
  OBVIOUS
<1> HIDE DEF c, g
<1>4. \A j \in 1 .. c.size : c.record[j] + c.size = next + j - 1
  BY <1>2 DEF BatteryFilling
<1>5. /\ \A j, l \in 1 .. c.size : j < l => c.record[j] < c.record[l]
      /\ \A j \in 2 .. c.size : c.record[j] = c.record[j - 1] + 1
  BY <1>3, <1>4, UnbrokenIsOrdered
<1>6. Remaining(c) # 0
  BY <1>1, <1>2 DEF Remaining
<1>7. Good(c, g)
  BY <1>5, <1>6 DEF Good, Ordered, Unbroken
<1>8. QED
  BY <1>7 DEF c, g

-----------------------------------------------------------------------------
(* The steps *)

LEMMA PrimedSlot ==
  ASSUME NEW k, user' = user, Good(buffer'[k], history'[k]), OlderThan(buffer'[k], next'),
         at' = "read" /\ k = Current' =>
           /\ user = "IMU" => ImuFilling(buffer'[k], history'[k], i')
           /\ user = "POWER" => BatteryFilling(buffer'[k], history'[k], next')
  PROVE  SlotInv(k)'
<1>1. Good(buffer[k], history[k])'
  BY DEF Good, Ordered, Accounted, Unbroken, KeptIn, LostIn, ForeignIn, Remaining
<1>2. OlderThan(buffer[k], next)'
  BY DEF OlderThan
<1>3. ImuFilling(buffer'[k], history'[k], i') => ImuFilling(buffer[k], history[k], i)'
  BY DEF ImuFilling
<1>4. BatteryFilling(buffer'[k], history'[k], next') => BatteryFilling(buffer[k], history[k], next)'
  BY DEF BatteryFilling
<1>5. QED
  BY <1>1, <1>2, <1>3, <1>4 DEF SlotInv

\* The block at hand and what was taken for it, at the start of a pass.
LEMMA HistoryAtHand ==
  ASSUME IInv, GapInv, at \in {"begin", "read"}
  PROVE  /\ Block \in Block_t /\ History \in History_t /\ Current \in Slot
         /\ next \in Nat \ {0} /\ OlderThan(Block, next)
         /\ user = "IMU" => ImuFilling(Block, History, i) /\ i \in Nat /\ i < Records
         /\ user = "POWER" => BatteryFilling(Block, History, next)
<1>1. /\ Current \in Slot /\ seqId \in Nat /\ buffer[Current] \in Block_t
      /\ next \in Nat \ {0} /\ i \in Nat
  BY CurrentIsSlot, SampleBlockAssumption DEF IInv, TypeOK, Block_t
<1>2. Block \in Block_t /\ History \in History_t /\ (user = "IMU" => i < Records)
  BY BlockAtHand
<1>3. SlotInv(Current)
  BY <1>1 DEF GapInv
<1>4. CASE at = "begin"
  <2>1. Block = Begun(buffer[Current], seqId) /\ History = NoHistory
    BY <1>4 DEF Block, History
  <2>2. i = 0
    BY <1>4 DEF IInv, Progress
  <2>3. Begun(buffer[Current], seqId).record = buffer[Current].record
    BY <1>1 DEF Begun, Block_t
  <2>4. OlderThan(Block, next)
    BY <1>3, <2>1, <2>3 DEF SlotInv, OlderThan
  <2>5. ImuFilling(Block, History, i) /\ BatteryFilling(Block, History, next)
    BY <1>1, <2>1, <2>2, ImuBegins, BatteryBegins
  <2>6. QED
    BY <1>1, <1>2, <2>4, <2>5
<1>5. CASE at = "read"
  <2>1. Block = buffer[Current] /\ History = history[Current]
    BY <1>5 DEF Block, History
  <2>2. QED
    BY <1>1, <1>2, <1>3, <1>5, <2>1 DEF SlotInv
<1>6. QED
  BY <1>4, <1>5

LEMMA LaterIsOlder ==
  ASSUME NEW b \in Block_t, NEW x \in Nat, NEW y \in Nat, x <= y, OlderThan(b, x)
  PROVE  OlderThan(b, y)
<1>1. \A j \in 1 .. Records : b.record[j] \in Nat
  BY DEF Block_t
<1>2. QED
  BY <1>1 DEF OlderThan

LEMMA FillKeeps ==
  ASSUME IInv, IInv', GapInv, NEW b, NEW h, Fill(b, h), Good(b, h), OlderThan(b, next'),
         next <= next',
         at' = "read" => /\ user = "IMU" => ImuFilling(b, h, i')
                         /\ user = "POWER" => BatteryFilling(b, h, next')
  PROVE  GapInv'
<1>1. /\ Current \in Slot /\ Current' = Current /\ user' = user
      /\ buffer \in [Slot -> Block_t] /\ next \in Nat /\ next' \in Nat
  BY CurrentIsSlot DEF Fill, Current, IInv, TypeOK, Block_t
<1>2. DOMAIN history = Slot
  BY DEF IInv, TypeOK
<1>3. buffer' = [buffer EXCEPT ![Current] = b] /\ history' = [history EXCEPT ![Current] = h]
  BY DEF Fill
<1> SUFFICES ASSUME NEW k \in Slot PROVE SlotInv(k)'
  BY DEF GapInv, Slot
<1>4. CASE k = Current
  <2>1. buffer'[k] = b /\ history'[k] = h
    BY <1>1, <1>2, <1>3, <1>4
  <2>2. QED
    BY <1>1, <2>1, PrimedSlot
<1>5. CASE k # Current
  <2>1. buffer'[k] = buffer[k] /\ history'[k] = history[k] /\ buffer[k] \in Block_t
    BY <1>1, <1>2, <1>3, <1>5
  <2>2. Good(buffer[k], history[k]) /\ OlderThan(buffer[k], next)
    BY DEF GapInv, SlotInv
  <2>3. OlderThan(buffer[k], next')
    BY <1>1, <2>1, <2>2, LaterIsOlder
  <2>4. QED
    BY <1>1, <1>5, <2>1, <2>2, <2>3, PrimedSlot
<1>6. QED
  BY <1>4, <1>5

LEMMA ImuGaps == IInv /\ IInv' /\ GapInv /\ ImuPass /\ ~Imu_PollFails => GapInv'
<1> SUFFICES ASSUME IInv, IInv', GapInv, ImuPass, ~Imu_PollFails PROVE GapInv'
  OBVIOUS
<1>1. PICK isStopped \in BOOLEAN : Pass(isStopped)
  BY DEF ImuPass, Imu_TimeOut, Imu_Read, Imu_ReadFails, Imu_Event
<1>2. user = "IMU" /\ at \in {"begin", "read"} /\ (at' = "read" => i' = i + 1)
  BY <1>1 DEF Pass
<1>3. /\ Block \in Block_t /\ History \in History_t /\ next \in Nat \ {0}
      /\ OlderThan(Block, next) /\ ImuFilling(Block, History, i) /\ i \in Nat /\ i < Records
  BY <1>2, HistoryAtHand
<1>4. ASSUME NEW b \in Block_t, NEW h \in History_t, Fill(b, h), OlderThan(b, next'),
             next <= next', ImuFilling(b, h, i + 1)
      PROVE  GapInv'
  <2>1. Good(b, h)
    BY <1>2, <1>4, ImuFillingIsGood
  <2>2. QED
    BY <1>2, <1>4, <2>1, FillKeeps
<1>5. CASE Imu_TimeOut
  <2> DEFINE h == [History EXCEPT !.timeouts = @ + 1]
  <2>1. Fill(Block, h) /\ next' = next
    BY <1>5 DEF Imu_TimeOut, TimedOut
  <2>2. h \in History_t
    BY <1>3 DEF History_t
  <2>3. ImuFilling(Block, h, i + 1)
    BY <1>3, ImuTimesOut
  <2> HIDE DEF h
  <2>4. QED
    BY <1>3, <1>4, <2>1, <2>2, <2>3
<1>6. CASE Imu_Read
  <2> DEFINE b == Updated(Stored(Block, i, 1), 1)
             h == [History EXCEPT !.taken = @ \cup {next}]
  <2>1. Fill(b, h) /\ next' = next + 1
    BY <1>6 DEF Imu_Read
  <2>2. h \in History_t
    BY <1>3 DEF History_t
  <2>3. ImuFilling(b, h, i + 1)
    BY <1>3, ImuReads
  <2>4. b \in Block_t
    <3>1. buffer'[Current] = b /\ Current \in Slot
      BY <2>1, HistoryAtHand, <1>2 DEF Fill, IInv, TypeOK
    <3>2. buffer' \in [Slot -> Block_t]
      BY DEF IInv, TypeOK, Block_t
    <3>3. QED
      BY <3>1, <3>2
  <2>5. OlderThan(b, next')
    <3>1. b.record = [j \in 1 .. Records |-> IF j \in i + 1 .. i + 1
                                             THEN next + j - i - 1 ELSE Block.record[j]]
      BY <1>3 DEF Updated, Counted, Stored, Block_t
    <3>2. \A j \in 1 .. Records : Block.record[j] \in Nat /\ Block.record[j] < next
      BY <1>3 DEF OlderThan, Block_t
    <3> HIDE DEF b
    <3>3. QED
      BY <1>3, <2>1, <3>1, <3>2 DEF OlderThan
  <2> HIDE DEF b, h
  <2>6. QED
    BY <1>3, <1>4, <2>1, <2>2, <2>3, <2>4, <2>5
<1>7. CASE Imu_ReadFails
  <2> DEFINE b == Updated(Block, 1)
             h == [History EXCEPT !.failed = @ + 1]
  <2>1. Fill(b, h) /\ next' = next
    BY <1>7 DEF Imu_ReadFails
  <2>2. h \in History_t
    BY <1>3 DEF History_t
  <2>3. ImuFilling(b, h, i + 1)
    BY <1>3, ImuReadFails
  <2>4. b \in Block_t
    <3>1. buffer'[Current] = b /\ Current \in Slot
      BY <2>1, HistoryAtHand, <1>2 DEF Fill, IInv, TypeOK
    <3>2. buffer' \in [Slot -> Block_t]
      BY DEF IInv, TypeOK, Block_t
    <3>3. QED
      BY <3>1, <3>2
  <2>5. OlderThan(b, next')
    <3>1. b.record = Block.record
      BY <1>3 DEF Updated, Counted, Block_t
    <3> HIDE DEF b
    <3>2. QED
      BY <1>3, <2>1, <3>1 DEF OlderThan
  <2> HIDE DEF b, h
  <2>6. QED
    BY <1>3, <1>4, <2>1, <2>2, <2>3, <2>4, <2>5
<1>8. CASE Imu_Event
  <2>1. Pass(TRUE) /\ Fill(Block, History) /\ next' = next
    BY <1>8 DEF Imu_Event
  <2>2. at' = "finalize"
    BY <2>1 DEF Pass
  <2>3. Good(Block, History)
    BY <1>2, <1>3, ImuFillingIsGood
  <2>4. QED
    BY <1>3, <2>1, <2>2, <2>3, FillKeeps
<1>9. QED
  BY <1>5, <1>6, <1>7, <1>8 DEF ImuPass

LEMMA BatteryGaps ==
  IInv /\ IInv' /\ GapInv /\ (Battery_Begin \/ Battery_Read \/ Battery_Odd) => GapInv'
<1> SUFFICES ASSUME IInv, IInv', GapInv, Battery_Begin \/ Battery_Read \/ Battery_Odd
             PROVE  GapInv'
  OBVIOUS
<1>1. user = "POWER" /\ at \in {"begin", "read"}
  BY DEF Battery_Begin, Battery_Read, Even, Battery_Odd, Reading
<1>2. /\ Block \in Block_t /\ History \in History_t /\ next \in Nat \ {0}
      /\ OlderThan(Block, next) /\ BatteryFilling(Block, History, next)
      /\ Current \in Slot
  BY <1>1, HistoryAtHand
<1>3. Block.size \in Nat /\ Records \in Nat /\ Remaining(Block) = Records - Block.size
  BY <1>2, SampleBlockAssumption DEF Block_t, Remaining
<1>4. ASSUME NEW b, NEW h, Fill(b, h) PROVE b \in Block_t /\ h \in History_t
  <2>1. buffer'[Current] = b /\ history'[Current] = h
    BY <1>2, <1>4 DEF Fill, IInv, TypeOK
  <2>2. buffer' \in [Slot -> Block_t] /\ history' \in [Slot -> History_t]
    BY DEF IInv, TypeOK, Block_t, History_t
  <2>3. QED
    BY <1>2, <2>1, <2>2
<1>5. ASSUME NEW n \in Nat, Block.size + n <= Records
      PROVE  OlderThan(Stored(Block, Block.size, n), next + n)
  <2> DEFINE c == Stored(Block, Block.size, n)
  <2>1. c.record = [j \in 1 .. Records |->
                      IF j \in Block.size + 1 .. Block.size + n
                      THEN next + j - Block.size - 1 ELSE Block.record[j]]
    BY <1>2 DEF Stored, Block_t
  <2>2. \A j \in 1 .. Records : Block.record[j] \in Nat /\ Block.record[j] < next
    BY <1>2 DEF OlderThan, Block_t
  <2> HIDE DEF c
  <2>3. ASSUME NEW j \in 1 .. Records PROVE c.record[j] < next + n
    <3>1. CASE j \in Block.size + 1 .. Block.size + n
      <4>1. c.record[j] = next + j - Block.size - 1
        BY <2>1, <3>1
      <4>2. QED
        BY <1>2, <1>3, <3>1, <4>1
    <3>2. CASE j \notin Block.size + 1 .. Block.size + n
      BY <1>2, <2>1, <2>2, <3>2
    <3>3. QED
      BY <3>1, <3>2
  <2>4. QED
    BY <2>3 DEF c, OlderThan
<1>6. CASE Battery_Begin
  <2>1. Fill(Block, History) /\ next' = next
    BY <1>6 DEF Battery_Begin
  <2>2. Good(Block, History)
    BY <1>1, <1>2, BatteryFillingIsGood
  <2>3. QED
    BY <1>1, <1>2, <2>1, <2>2, FillKeeps
<1>7. CASE Battery_Read
  <2>1. PICK n \in 0 .. Remaining(Block) : Even(Block.size, n)
    BY <1>7 DEF Battery_Read
  <2> DEFINE b == Updated(Stored(Block, Block.size, n), n)
             h == [History EXCEPT !.taken = @ \cup next .. next + n - 1]
  <2>2. Fill(b, h) /\ next' = next + n
    BY <2>1 DEF Even, Reading, Taking
  <2>3. n \in Nat /\ Block.size + n <= Records
    BY <1>3, <2>1
  <2>4. BatteryFilling(b, h, next')
    BY <1>2, <2>2, <2>3, BatteryReads
  <2>5. OlderThan(b, next')
    <3>1. OlderThan(Stored(Block, Block.size, n), next')
      BY <1>5, <2>2, <2>3
    <3>2. b.record = Stored(Block, Block.size, n).record
      BY <1>2, <2>3, StoredRecords
    <3> HIDE DEF b
    <3>3. QED
      BY <3>1, <3>2 DEF OlderThan
  <2> HIDE DEF b, h
  <2>6. b \in Block_t /\ h \in History_t /\ next' \in Nat /\ next <= next'
    BY <1>2, <1>4, <2>2, <2>3
  <2>7. Good(b, h)
    BY <1>1, <2>4, <2>6, BatteryFillingIsGood
  <2>8. QED
    BY <1>1, <2>2, <2>4, <2>5, <2>6, <2>7, FillKeeps
<1>8. CASE Battery_Odd
  <2>1. PICK n \in 0 .. Remaining(Block) - 1 :
          /\ Reading(Block.size, n)
          /\ Fill(Stored(Block, Block.size, n), Taking(n))
          /\ at' = IF errval' THEN "stopped" ELSE "finalize"
    BY <1>8 DEF Battery_Odd
  <2> DEFINE b == Stored(Block, Block.size, n)
             h == [History EXCEPT !.taken = @ \cup next .. next + n - 1]
  <2>2. Fill(b, h) /\ next' = next + n /\ at' # "read"
    BY <2>1 DEF Reading, Taking
  <2>3. n \in Nat /\ Block.size + n < Records /\ Block.size + n <= Records
    BY <1>3, <2>1
  <2>4. OlderThan(b, next')
    BY <1>5, <2>2, <2>3
  <2>5. b \in Block_t /\ next <= next'
    <3> HIDE DEF b, h
    <3>1. QED
      BY <1>2, <1>4, <2>2, <2>3
  <2>6. Good(b, h)
    BY <1>1, <1>2, <2>3, <2>5, BatteryReadsOdd
  <2> HIDE DEF b, h
  <2>7. QED
    BY <2>2, <2>4, <2>5, <2>6, FillKeeps
<1>9. QED
  BY <1>6, <1>7, <1>8

LEMMA FinalizeGaps == IInv /\ IInv' /\ GapInv /\ Finalize => GapInv'
<1> SUFFICES ASSUME IInv, IInv', GapInv, Finalize, NEW k \in Slot PROVE SlotInv(k)'
  BY DEF GapInv, Slot
<1>1. /\ at' = "send" /\ UNCHANGED <<user, history, next>>
      /\ buffer' = [buffer EXCEPT ![logdesc] = Finalized(buffer[logdesc])]
  BY DEF Finalize
<1>2. buffer \in [Slot -> Block_t] /\ history \in [Slot -> History_t] /\ next \in Nat \ {0}
  BY DEF IInv, TypeOK, Block_t, History_t
<1>3. Good(buffer[k], history[k]) /\ OlderThan(buffer[k], next)
  BY DEF GapInv, SlotInv
<1>4. CASE k = logdesc
  <2> DEFINE b == buffer[k]
             c == Finalized(b)
  <2>1. b \in Block_t /\ buffer'[k] = c
    BY <1>1, <1>2, <1>4
  <2>2. c \in Block_t
    BY <2>1, FinalizedBlock
  <2>3. c.size = b.size
        /\ c.record = [j \in 1 .. Records |-> IF j <= b.size THEN b.record[j] ELSE 0]
    BY <2>1 DEF Finalized, Block_t
  <2>4. b.size \in 0 .. Records /\ Records \in Nat
    BY <2>1, SampleBlockAssumption DEF Block_t
  <2>5. history[k] \in History_t /\ Good(b, history[k]) /\ OlderThan(b, next)
    BY <1>2, <1>3
  <2> HIDE DEF b, c
  <2>6. \A j \in 1 .. b.size : b.record[j] = c.record[j]
    BY <2>3, <2>4
  <2>7. Good(c, history[k])
    BY <2>1, <2>2, <2>3, <2>5, <2>6, SameFront
  <2>8. OlderThan(c, next)
    BY <1>2, <2>3, <2>4, <2>5 DEF OlderThan
  <2>9. QED
    BY <1>1, <2>1, <2>7, <2>8, PrimedSlot
<1>5. CASE k # logdesc
  <2>1. buffer'[k] = buffer[k]
    BY <1>1, <1>2, <1>5
  <2>2. QED
    BY <1>1, <1>3, <2>1, PrimedSlot
<1>6. QED
  BY <1>4, <1>5

\* Steps that touch no block.
LEMMA NoGaps ==
  ASSUME GapInv, UNCHANGED <<user, buffer, history, next>>,
         at' # "read" \/ UNCHANGED <<at, i, seqId>>
  PROVE  GapInv'
<1> SUFFICES ASSUME NEW k \in Slot PROVE SlotInv(k)'
  BY DEF GapInv, Slot
<1>1. /\ Good(buffer[k], history[k]) /\ OlderThan(buffer[k], next)
      /\ at = "read" /\ k = Current =>
           /\ user = "IMU" => ImuFilling(buffer[k], history[k], i)
           /\ user = "POWER" => BatteryFilling(buffer[k], history[k], next)
  BY DEF GapInv, SlotInv
<1>2. UNCHANGED <<at, i, seqId>> => UNCHANGED Current
  BY DEF Current
<1>3. QED
  BY <1>1, <1>2, PrimedSlot

LEMMA GapInvInit == Init => GapInv
<1> SUFFICES ASSUME Init, NEW k \in Slot PROVE SlotInv(k)
  BY DEF GapInv
<1>1. buffer[k] = Blank /\ history[k] = NoHistory /\ at = "begin" /\ next = 1
  BY DEF Init
<1>2. Blank.size = 0 /\ Blank.record = [j \in 1 .. Records |-> 0]
  BY DEF Blank
<1>3. NoHistory.taken = {} /\ NoHistory.timeouts = 0 /\ NoHistory.failed = 0
  BY DEF NoHistory
<1>4. Records \in Nat \ {0}
  BY SampleBlockAssumption
<1>5. /\ KeptIn(Blank, NoHistory) = {} /\ LostIn(Blank, NoHistory) = {}
      /\ ForeignIn(Blank, NoHistory) = {}
  BY <1>2, <1>3 DEF KeptIn, LostIn, ForeignIn
<1>6. Ordered(Blank, NoHistory)
  BY <1>2 DEF Ordered
<1>7. Accounted(Blank, NoHistory)
  BY <1>3, <1>5, FS_EmptySet DEF Accounted
<1>8. Unbroken(Blank, NoHistory)
  BY <1>2, <1>3, <1>5 DEF Unbroken
<1>9. OlderThan(Blank, 1)
  BY <1>2 DEF OlderThan
<1>10. QED
  BY <1>1, <1>6, <1>7, <1>8, <1>9 DEF SlotInv, Good

LEMMA GapInvStep == IInv /\ IInv' /\ GapInv /\ [Next]_vars => GapInv'
<1> SUFFICES ASSUME IInv, IInv', GapInv, [Next]_vars PROVE GapInv'
  OBVIOUS
<1>1. CASE Imu_PollFails \/ Battery_ReadFails \/ Battery_Full \/ Finalize_Null \/ Send
  <2>1. UNCHANGED <<user, buffer, history, next>> /\ at' # "read"
    BY <1>1 DEF Imu_PollFails, Battery_ReadFails, Battery_Full, Finalize_Null, Send
  <2>2. QED
    BY <2>1, NoGaps
<1>2. CASE UNCHANGED vars
  BY <1>2, NoGaps DEF vars
<1>3. QED
  BY <1>1, <1>2, ImuGaps, BatteryGaps, FinalizeGaps DEF Next, ImuPass, BatteryRead

LEMMA GapInvariant == Spec => [](IInv /\ GapInv)
BY IInvariant, GapInvInit, GapInvStep, PTL DEF Spec

(***************************************************************************)
(* Where Imu's index and the size drifted apart, a block holds exactly one *)
(* older record for each sample it lost and each failed read, and loses    *)
(* the newest samples, no more than polls timed out (Imu_Logging.c:203,    *)
(* 211-215).                                                               *)
(***************************************************************************)
THEOREM EveryGapIsAccounted == Spec => []GapsAccounted
<1>1. ASSUME IInv, GapInv, user = "IMU", NEW k \in sent
      PROVE  /\ Cardinality(Foreign(k)) = Cardinality(Lost(k)) + history[k].failed
             /\ Cardinality(Lost(k)) <= history[k].timeouts
             /\ \A x \in Lost(k), y \in Kept(k) : y < x
  <2>1. Accounted(buffer[k], history[k])
    BY <1>1 DEF GapInv, SlotInv, Good, IInv, TypeOK
  <2>2. /\ Kept(k) = KeptIn(buffer[k], history[k]) /\ Lost(k) = LostIn(buffer[k], history[k])
        /\ Foreign(k) = ForeignIn(buffer[k], history[k])
    BY DEF Kept, KeptIn, Lost, LostIn, Foreign, ForeignIn
  <2>3. QED
    BY <2>1, <2>2 DEF Accounted
<1>2. IInv /\ GapInv => GapsAccounted
  BY <1>1 DEF GapsAccounted
<1>3. QED
  BY <1>2, GapInvariant, PTL

(***************************************************************************)
(* The samples in a sent block are in the order they were taken, each      *)
(* once; Battery's follow each other without a hole, and only a block that *)
(* an odd read cut short misses any (Imu_Logging.c:191-230,                *)
(* Battery_Logging.c:90-109).                                              *)
(***************************************************************************)
THEOREM SamplesAreInOrder == Spec => []InOrder
<1>1. ASSUME IInv, GapInv, NEW k \in sent
      PROVE  /\ \A j, l \in (1 .. buffer[k].size) \ Foreign(k) :
                  j < l => buffer[k].record[j] < buffer[k].record[l]
             /\ user = "POWER" =>
                  /\ \A j \in 2 .. buffer[k].size :
                       buffer[k].record[j] = buffer[k].record[j - 1] + 1
                  /\ Remaining(buffer[k]) = 0 => Kept(k) = history[k].taken
  <2>1. Good(buffer[k], history[k])
    BY <1>1 DEF GapInv, SlotInv, IInv, TypeOK
  <2>2. /\ Kept(k) = KeptIn(buffer[k], history[k])
        /\ Foreign(k) = ForeignIn(buffer[k], history[k])
    BY DEF Kept, KeptIn, Foreign, ForeignIn
  <2>3. QED
    BY <2>1, <2>2 DEF Good, Ordered, Unbroken
<1>2. IInv /\ GapInv => InOrder
  BY <1>1 DEF InOrder
<1>3. QED
  BY <1>2, GapInvariant, PTL
=============================================================================
