----------------------------- MODULE SampleBlock -----------------------------
(***************************************************************************)
(* Logging/Logging_Buffer.c and the record loops that fill blocks with it: *)
(* Imu_Logging_Run, which reads one record at a time at an index of its    *)
(* own, and Battery_Logging_Run, which reads whatever fits behind the last *)
(* byte counted.  A block is a header, Records records, and a footer with  *)
(* the bytes counted and a CRC that is fed piece by piece.                 *)
(*                                                                         *)
(* A sample is its number in the order the device delivers them; 0 is a    *)
(* zeroed record.  Sizes are in records.  The CRC is what was fed to it:   *)
(* two different contents never have the same CRC.  Time stamps are left   *)
(* out.  One of the two tasks runs in a behaviour; user says which.        *)
(***************************************************************************)
EXTENDS Integers, Sequences, FiniteSets

CONSTANTS
  Records,     \* IMU_RECORD_NUM, BATTERY_RECORD_NUM
  NumBuffers,  \* NUM_BUFFERS, BUFFER_NUM
  MaxSeq,      \* bound: the last seqId
  User         \* the tasks: a subset of {"IMU", "POWER"}

ASSUME SampleBlockAssumption ==
  /\ Records \in Nat \ {0}
  /\ NumBuffers \in Nat \ {0, 1}
  /\ MaxSeq \in Nat
  /\ User \subseteq {"IMU", "POWER"}

Slot == 0 .. NumBuffers - 1
NULL == -1

VARIABLES
  user,     \* LoggingUser_IMU or LoggingUser_POWER
  buffer,   \* imuLogging_buffer, batteryLogging_buffer
  logdesc,  \* the slot the descriptor points into, or NULL
  seqId,
  i,        \* Imu's index in the record loop
  errval,   \* errval # 0
  at,       \* where the task is
  \* what happened, of which the code keeps no record
  next,     \* the number of the next sample
  history,  \* slot -> how the block in it came about
  sent      \* the slots that were sent and not begun again

vars == <<user, buffer, logdesc, seqId, i, errval, at, next, history, sent>>

\* "begin": before the first pass of a block; "read": in the middle of it.
At == {"begin", "read", "finalize", "send", "stopped", "lost"}

Blank ==
  [seqId |-> NULL, record |-> [j \in 1 .. Records |-> 0], size |-> 0,
   crc |-> [header |-> NULL, body |-> <<>>, footer |-> <<>>]]

\* The samples read for a block, the polls that timed out, the failed reads.
NoHistory == [taken |-> {}, timeouts |-> 0, failed |-> 0]

Init ==
  /\ user \in User
  /\ buffer = [k \in Slot |-> Blank]
  /\ logdesc = NULL
  /\ seqId = 0
  /\ i = 0
  /\ errval = FALSE
  /\ at = "begin"
  /\ next = 1
  /\ history = [k \in Slot |-> NoHistory]
  /\ sent = {}

Current == seqId % NumBuffers   \* buff

-----------------------------------------------------------------------------
(* Logging_Buffer.c: what each function makes of a block *)

\* Logging_Buffer_Init: the records keep what an earlier block left there.
Begun(b, s) ==
  [b EXCEPT !.seqId = s, !.size = 0,
            !.crc = [header |-> s, body |-> <<>>, footer |-> <<>>]]

\* n records are fed from position on, and count.
Counted(b, position, n) ==
  [b EXCEPT !.size = @ + n,
            !.crc.body = @ \o SubSeq(b.record, position + 1, position + n)]

\* Mutant: the CRC is fed from the start of the body.
Updated_FromStart(b, n) == Counted(b, 0, n)

\* Logging_Buffer_Update: the next n records count, whatever is in them.
Updated(b, n) == Counted(b, b.size, n)

\* Logging_Buffer_GetRemainingSize.
Remaining(b) == Records - b.size

\* Logging_Buffer_Finalize: zero the rest, feed the footer, invert.
Finalized(b) ==
  [b EXCEPT !.record = [j \in 1 .. Records |-> IF j <= b.size THEN @[j] ELSE 0],
            !.crc.footer = Append(@, b.size)]

\* read puts the next n samples into the records behind position.
Stored(b, position, n) ==
  [b EXCEPT !.record =
     [j \in 1 .. Records |-> IF j \in position + 1 .. position + n
                             THEN next + j - position - 1 ELSE @[j]]]

-----------------------------------------------------------------------------
(* Both tasks *)

\* The current block and its history, begun where this is its first pass.
Block ==
  IF at = "begin" THEN Begun(buffer[Current], seqId) ELSE buffer[Current]
History == IF at = "begin" THEN NoHistory ELSE history[Current]

Fill(b, h) ==
  /\ buffer' = [buffer EXCEPT ![Current] = b]
  /\ history' = [history EXCEPT ![Current] = h]
  /\ logdesc' = Current
  /\ sent' = sent \ {Current}
  /\ UNCHANGED <<user, seqId>>

\* It works on the block the descriptor points at.
Finalize ==
  /\ at = "finalize"
  /\ logdesc # NULL
  /\ buffer' = [buffer EXCEPT ![logdesc] = Finalized(@)]
  /\ at' = "send"
  /\ UNCHANGED <<user, logdesc, seqId, i, errval, next, history, sent>>

\* The first poll of all failed: undefined; the task goes on or is lost.
Finalize_Null ==
  /\ at = "finalize"
  /\ logdesc = NULL
  /\ at' \in {"send", "lost"}
  /\ UNCHANGED <<user, buffer, logdesc, seqId, i, errval, next, history, sent>>

\* The message for the current slot; then the next block, or END.
Send ==
  /\ at = "send"
  /\ sent' = sent \cup {Current}
  /\ \/ errval /\ at' = "stopped" /\ seqId' = seqId
     \/ ~errval /\ seqId < MaxSeq /\ at' = "begin" /\ seqId' = seqId + 1
  /\ i' = 0
  /\ UNCHANGED <<user, buffer, logdesc, errval, next, history>>

-----------------------------------------------------------------------------
(* Imu: a step is one pass of the record loop *)

\* poll fails: nothing is begun, and the descriptor stays where it was.
Imu_PollFails ==
  /\ user = "IMU"
  /\ at \in {"begin", "read"}
  /\ errval' = TRUE
  /\ at' = "finalize"
  /\ UNCHANGED <<user, buffer, logdesc, seqId, i, next, history, sent>>

\* The end of a pass; isStopped: the event has been read.
Pass(isStopped) ==
  /\ user = "IMU"
  /\ at \in {"begin", "read"}
  /\ errval' = isStopped
  /\ i' = IF isStopped THEN i ELSE i + 1
  /\ at' = IF isStopped \/ i' = Records THEN "finalize" ELSE "read"

TimedOut == Fill(Block, [History EXCEPT !.timeouts = @ + 1]) /\ UNCHANGED next

\* Mutant: after a time-out the end of the body is not tested.
Imu_TimeOut_Continue ==
  /\ user = "IMU"
  /\ at \in {"begin", "read"}
  /\ i' = i + 1
  /\ at' = "read"
  /\ UNCHANGED errval
  /\ TimedOut

\* Mutant: Logging_Buffer_Update is called whether or not there was a read.
Imu_TimeOut_Updated ==
  /\ Pass(FALSE)
  /\ Fill(Updated(Block, 1), [History EXCEPT !.timeouts = @ + 1])
  /\ UNCHANGED next

\* poll timed out: the index moves on, the size does not.
Imu_TimeOut == Pass(FALSE) /\ TimedOut

\* The record goes to the index, the size counts the next one.
Imu_Read ==
  /\ \E isStopped \in BOOLEAN : Pass(isStopped)
  /\ Fill(Updated(Stored(Block, i, 1), 1), [History EXCEPT !.taken = @ \cup {next}])
  /\ next' = next + 1

\* A read that returns no record counts all the same.
Imu_ReadFails ==
  /\ \E isStopped \in BOOLEAN : Pass(isStopped)
  /\ Fill(Updated(Block, 1), [History EXCEPT !.failed = @ + 1])
  /\ UNCHANGED next

Imu_Event ==
  /\ Pass(TRUE)
  /\ Fill(Block, History)
  /\ UNCHANGED next

-----------------------------------------------------------------------------
(* Battery: a step is one read of the inner loop *)

Battery_Begin ==
  /\ user = "POWER"
  /\ at = "begin"
  /\ Fill(Block, History)
  /\ at' = "read"
  /\ UNCHANGED <<i, errval, next>>

\* A read of n samples to the records behind position.
Reading(position, n) ==
  /\ user = "POWER"
  /\ at = "read"
  /\ Remaining(Block) > 0
  /\ next' = next + n
  /\ UNCHANGED i

Taking(n) == [History EXCEPT !.taken = @ \cup next .. next + n - 1]

Even(position, n) ==
  /\ Reading(position, n)
  /\ Fill(Updated(Stored(Block, position, n), n), Taking(n))
  /\ UNCHANGED <<errval, at>>

\* Mutant: every read goes to the start of the body.
Battery_Read_AtStart == \E n \in 0 .. Remaining(Block) : Even(0, n)

Battery_Read == \E n \in 0 .. Remaining(Block) : Even(Block.size, n)

(***************************************************************************)
(* An odd number of bytes: nothing counts, and errno, which no call has    *)
(* set just now, decides whether the short block is sent or the task ends. *)
(***************************************************************************)
Battery_Odd ==
  \E n \in 0 .. Remaining(Block) - 1 :
    /\ Reading(Block.size, n)
    /\ Fill(Stored(Block, Block.size, n), Taking(n))
    /\ errval' \in BOOLEAN
    /\ at' = IF errval' THEN "stopped" ELSE "finalize"

\* The task ends without sending what it has.
Battery_ReadFails ==
  /\ user = "POWER"
  /\ at = "read"
  /\ Remaining(Block) > 0
  /\ errval' = TRUE
  /\ at' = "stopped"
  /\ UNCHANGED <<user, buffer, logdesc, seqId, i, next, history, sent>>

Battery_Full ==
  /\ user = "POWER"
  /\ at = "read"
  /\ Remaining(Block) = 0
  /\ at' = "finalize"
  /\ UNCHANGED <<user, buffer, logdesc, seqId, i, errval, next, history, sent>>

-----------------------------------------------------------------------------
ImuPass ==
  \/ Imu_PollFails
  \/ Imu_TimeOut
  \/ Imu_Read
  \/ Imu_ReadFails
  \/ Imu_Event

BatteryRead ==
  \/ Battery_Begin
  \/ Battery_Read
  \/ Battery_Odd
  \/ Battery_ReadFails
  \/ Battery_Full

Next ==
  \/ ImuPass
  \/ BatteryRead
  \/ Finalize
  \/ Finalize_Null
  \/ Send

Spec == Init /\ [][Next]_vars

-----------------------------------------------------------------------------
(* Properties *)

Crc == [header: Nat \cup {NULL}, body: Seq(Nat), footer: Seq(0 .. Records)]

\* Type invariant: the size never exceeds the body, whatever the index does.
TypeOK ==
  /\ user \in User
  /\ buffer \in [Slot -> [seqId: Nat \cup {NULL}, record: [1 .. Records -> Nat],
                          size: 0 .. Records, crc: Crc]]
  /\ logdesc \in Slot \cup {NULL}
  /\ seqId \in 0 .. MaxSeq
  /\ i \in 0 .. Records
  /\ errval \in BOOLEAN
  /\ at \in At
  /\ next \in Nat \ {0}
  /\ history \in [Slot -> [taken: SUBSET Nat, timeouts: Nat, failed: Nat]]
  /\ sent \in SUBSET Slot

(***************************************************************************)
(* A reader of the block finds the CRC it computes itself, over the        *)
(* header, the records that count and the footer, and zeros behind them.   *)
(***************************************************************************)
Valid(b) ==
  /\ b.crc = [header |-> b.seqId, body |-> SubSeq(b.record, 1, b.size),
              footer |-> <<b.size>>]
  /\ \A j \in b.size + 1 .. Records : b.record[j] = 0

\* poll failed before the first pass of a block.
PollFailedFirst ==
  user = "IMU" /\ errval /\ at \in {"send", "stopped"} /\ logdesc # Current

(***************************************************************************)
(* The CRC of every block that was sent and is not being filled again      *)
(* matches its contents, however many polls timed out and reads failed.    *)
(* Only a poll that fails before the first pass of a block breaks it: the  *)
(* previous block is finalised twice, and the slot that is sent may never  *)
(* have been filled (Imu_Logging.c:198, 238; Logging_Buffer.c:61-65).      *)
(***************************************************************************)
SealedIsValid ==
  \A k \in sent :
    Valid(buffer[k]) \/ (PollFailedFirst /\ k \in {logdesc, Current})

Kept(k) == {buffer[k].record[j] : j \in 1 .. buffer[k].size} \cap history[k].taken
Lost(k) == history[k].taken \ Kept(k)
Foreign(k) == {j \in 1 .. buffer[k].size : buffer[k].record[j] \notin history[k].taken}

(***************************************************************************)
(* Imu's index and the size drift apart by one with each time-out.  A      *)
(* block then holds exactly one record of an earlier lap for each sample   *)
(* lost at its end and each failed read, and loses no more samples, the    *)
(* newest, than polls timed out; none, if all went well (Imu_Logging.c:203 *)
(* and 211-215).                                                           *)
(***************************************************************************)
GapsAccounted ==
  user = "IMU" => \A k \in sent :
    /\ Cardinality(Foreign(k)) = Cardinality(Lost(k)) + history[k].failed
    /\ Cardinality(Lost(k)) <= history[k].timeouts
    /\ \A x \in Lost(k), y \in Kept(k) : y < x

(***************************************************************************)
(* The samples in a block of either task are in the order they were taken, *)
(* each once.  Battery's follow each other without a hole, and only a      *)
(* block that an odd read cut short misses any (Battery_Logging.c:90-109). *)
(***************************************************************************)
InOrder ==
  \A k \in sent :
    /\ \A j, l \in (1 .. buffer[k].size) \ Foreign(k) :
         j < l => buffer[k].record[j] < buffer[k].record[l]
    /\ user = "POWER" =>
         /\ \A j \in 2 .. buffer[k].size :
              buffer[k].record[j] = buffer[k].record[j - 1] + 1
         /\ Remaining(buffer[k]) = 0 => Kept(k) = history[k].taken
=============================================================================
