------------------------------- MODULE Logging -------------------------------
(***************************************************************************)
(* Logging/Logging.c and Logging/Logging_main.c: the message queue between *)
(* the tasks that produce blocks of samples and the logger task that hands *)
(* them to the SD-card writer, the open count that tells the logger when   *)
(* the last producer has finished, and the rings of buffers the blocks     *)
(* stay in (Imu_Logging.c, Battery_Logging.c): a message carries a pointer *)
(* into its producer's ring, and the producer moves on without waiting for *)
(* the block to be written.                                                *)
(***************************************************************************)
EXTENDS Integers, Sequences, FiniteSets

CONSTANTS
  Producer,    \* tasks that send blocks
  Counted,     \* those that open the queue with isIncrementOpenCount
  Notifier,    \* the task that runs the logger's ShutdownNotify
  QueueMax,    \* MESSAGE_QUEUE_MAX
  NumBuffers,  \* NUM_BUFFERS, BUFFER_NUM: the slots of a producer's ring
  MaxSeq,      \* bound: the last seqId a producer reaches
  Fault        \* the failures that may happen

ASSUME LoggingAssumption ==
  /\ Counted \subseteq Producer
  /\ Notifier \notin Producer
  /\ IsFiniteSet(Producer)
  /\ QueueMax \in Nat \ {0}
  /\ NumBuffers \in Nat \ {0}
  /\ MaxSeq \in Nat
  /\ Fault \subseteq {"initialize", "createQueue", "openQueue", "junkCallback",
                      "poll", "abandon"}

Opener == Producer \cup {Notifier}

VARIABLES
  isQueueCreated,
  openCount,
  queue,       \* logging_queue
  connected,   \* the openers that hold a valid descriptor of it
  loggerAt,    \* where the logger is
  desc,        \* the message the logger is handling
  isShutdown,  \* the logger has received SHUTDOWN
  first,       \* the seqId in the header when the write of the block began
  openerAt,    \* where each producer and the notifier are
  seqId,       \* the producer's block counter
  slot,        \* ring -> slot -> seqId of the block last begun in it
  handed       \* per producer: the blocks given to Logging_Writer_Write

shared == <<isQueueCreated, openCount, queue, connected>>
logger == <<loggerAt, desc, isShutdown, first, handed>>
producers == <<openerAt, seqId, slot>>
vars == <<shared, logger, producers>>

(***************************************************************************)
(* A message of LoggingType_WRITE points at a slot; LoggingType_END comes  *)
(* from a producer, SHUTDOWN from the notifier.  The callback of an END is *)
(* read from an uninitialised local (Imu_Logging.c:251-256), so it may be  *)
(* junk; that of every other message is NULL.                              *)
(***************************************************************************)
Message ==
  [type: {"WRITE", "END", "SHUTDOWN"}, user: Opener, ptr: 0 .. NumBuffers - 1,
   callback: {"NULL", "junk"}]

NoMessage == [type |-> "none"]

WriteMessage(p) == [type |-> "WRITE", user |-> p, ptr |-> seqId[p] % NumBuffers,
                    callback |-> "NULL"]
EndMessage(p, c) == [type |-> "END", user |-> p, ptr |-> 0, callback |-> c]
ShutdownMessage == [type |-> "SHUTDOWN", user |-> Notifier, ptr |-> 0,
                    callback |-> "NULL"]

LoggerAt == {"mount", "register", "create", "receive", "dispatch", "write",
             "close", "notify", "stopped", "failed", "crashed"}
OpenerAt == {"fresh", "opened", "filling", "ending", "ended", "abandoned"}

Init ==
  /\ isQueueCreated = FALSE
  /\ openCount = 0
  /\ queue = <<>>
  /\ connected = {}
  /\ loggerAt = "mount"
  /\ desc = NoMessage
  /\ isShutdown = FALSE
  /\ first = 0
  /\ openerAt = [t \in Opener |-> "fresh"]
  /\ seqId = [p \in Producer |-> 0]
  /\ slot = [p \in Producer |-> [k \in 0 .. NumBuffers - 1 |-> 0]]
  /\ handed = [p \in Producer |-> <<>>]

-----------------------------------------------------------------------------
(* Logging.c *)

\* The counter and the flag change under the mutex; mq_open comes after it.
Logging_OpenQueue(t, isIncrementOpenCount) ==
  /\ isQueueCreated
  /\ openCount' = IF isIncrementOpenCount THEN openCount + 1 ELSE openCount
  /\ \/ connected' = connected \cup {t}
     \/ "openQueue" \in Fault /\ connected' = connected
  /\ UNCHANGED <<isQueueCreated, queue>>

\* Mutant: a full queue is not waited for.
Logging_SendQueue_Unbounded(t, m) ==
  /\ queue' = IF t \in connected THEN Append(queue, m) ELSE queue
  /\ UNCHANGED <<isQueueCreated, openCount, connected>>

\* Mutant: END has a higher priority than WRITE.
Logging_SendQueue_EndFirst(t, m) ==
  /\ IF t \in connected
     THEN /\ Len(queue) < QueueMax
          /\ queue' = IF m.type = "END" THEN <<m>> \o queue ELSE Append(queue, m)
     ELSE queue' = queue
  /\ UNCHANGED <<isQueueCreated, openCount, connected>>

\* mq_send blocks while the queue is full, and fails on a bad descriptor.
Logging_SendQueue(t, m) ==
  /\ IF t \in connected
     THEN Len(queue) < QueueMax /\ queue' = Append(queue, m)
     ELSE queue' = queue
  /\ UNCHANGED <<isQueueCreated, openCount, connected>>

-----------------------------------------------------------------------------
(* The logger: Logging_main.c *)

\* The SD card is mounted and Logging_Writer_Initialize has returned.
Initialize ==
  /\ loggerAt = "mount"
  /\ \/ loggerAt' = "register"
     \/ "initialize" \in Fault /\ loggerAt' = "failed"
  /\ UNCHANGED <<shared, desc, isShutdown, first, handed, producers>>

\* PowerCtrl_SetShutdownCallback has returned; its result is not looked at.
Register ==
  /\ loggerAt = "register"
  /\ loggerAt' = "create"
  /\ UNCHANGED <<shared, desc, isShutdown, first, handed, producers>>

\* Without a queue the first mq_receive fails, and main returns -1.
CreateQueue ==
  /\ loggerAt = "create"
  /\ \/ isQueueCreated' = TRUE /\ loggerAt' = "receive"
     \/ /\ "createQueue" \in Fault
        /\ isQueueCreated' = isQueueCreated
        /\ loggerAt' = "failed"
  /\ UNCHANGED <<openCount, queue, connected, desc, isShutdown, first, handed,
                 producers>>

Receive ==
  /\ loggerAt = "receive"
  /\ queue # <<>>
  /\ desc' = Head(queue)
  /\ queue' = Tail(queue)
  /\ loggerAt' = "dispatch"
  /\ UNCHANGED <<isQueueCreated, openCount, connected, isShutdown, first, handed,
                 producers>>

\* Logging_Writer_Write starts reading the block its message points at.
WriteBegin ==
  /\ loggerAt = "dispatch"
  /\ desc.type = "WRITE"
  /\ first' = slot[desc.user][desc.ptr]
  /\ loggerAt' = "write"
  /\ UNCHANGED <<shared, desc, isShutdown, handed, producers>>

\* It returns; the block may have changed meanwhile.
WriteEnd ==
  /\ loggerAt = "write"
  /\ handed' = [handed EXCEPT ![desc.user] =
                  Append(@, [first |-> first, last |-> slot[desc.user][desc.ptr]])]
  /\ first' = 0
  /\ desc' = NoMessage
  /\ loggerAt' = "receive"
  /\ UNCHANGED <<shared, isShutdown, producers>>

(***************************************************************************)
(* The end of the loop's body for END and SHUTDOWN: leave the loop, or     *)
(* call the callback if there is one.  After a junk callback the logger is *)
(* lost; whether the other tasks go on is left open.                       *)
(***************************************************************************)
Handled(count, isStopped) ==
  /\ loggerAt = "dispatch"
  /\ desc.type \in {"END", "SHUTDOWN"}
  /\ openCount' = count
  /\ isShutdown' = (isShutdown \/ desc.type = "SHUTDOWN")
  /\ loggerAt' = IF desc.callback # "NULL" THEN "crashed"
                 ELSE IF isStopped THEN "close"
                 ELSE "receive"
  /\ desc' = NoMessage
  /\ UNCHANGED <<isQueueCreated, queue, connected, first, handed, producers>>

\* Mutant: SHUTDOWN does not fall through to END.
EndOrShutdown_NoFallthrough ==
  Handled(IF desc.type = "END" THEN openCount - 1 ELSE openCount,
          openCount' <= 0 /\ isShutdown')

\* Mutant: the open count is not looked at.
EndOrShutdown_AtOnce == Handled(openCount - 1, isShutdown')

\* Mutant: count < 0 instead of count <= 0.
EndOrShutdown_Below == Handled(openCount - 1, openCount' < 0 /\ isShutdown')

\* SHUTDOWN falls through to END: count down, and decide.
EndOrShutdown == Handled(openCount - 1, openCount' <= 0 /\ isShutdown')

\* Logging_Writer_Close.
Close ==
  /\ loggerAt = "close"
  /\ loggerAt' = "notify"
  /\ UNCHANGED <<shared, desc, isShutdown, first, handed, producers>>

\* PowerCtrl_NotifyStop has returned, and main returns.
NotifyStop ==
  /\ loggerAt = "notify"
  /\ loggerAt' = "stopped"
  /\ UNCHANGED <<shared, desc, isShutdown, first, handed, producers>>

-----------------------------------------------------------------------------
(* The producers: Imu_Logging_Run, Battery_Logging_Run *)

Place(t, place) == openerAt' = [openerAt EXCEPT ![t] = place]

Open(p) ==
  /\ openerAt[p] = "fresh"
  /\ Logging_OpenQueue(p, p \in Counted)
  /\ Place(p, "opened")
  /\ UNCHANGED <<logger, seqId, slot>>

\* Logging_Buffer_Init on the next slot of the ring.
Fill(p) ==
  /\ openerAt[p] = "opened"
  /\ slot' = [slot EXCEPT ![p][seqId[p] % NumBuffers] = seqId[p]]
  /\ Place(p, "filling")
  /\ UNCHANGED <<shared, logger, seqId>>

\* Send the block and go on to the next one.
Send(p) ==
  /\ openerAt[p] = "filling"
  /\ seqId[p] < MaxSeq
  /\ Logging_SendQueue(p, WriteMessage(p))
  /\ seqId' = [seqId EXCEPT ![p] = @ + 1]
  /\ Place(p, "opened")
  /\ UNCHANGED <<logger, slot>>

\* Send the last block: told to stop, or poll failed (Imu_Logging.c:244-247).
SendLast(p) ==
  /\ p \in Counted
  /\ openerAt[p] = "filling"
  /\ Logging_SendQueue(p, WriteMessage(p))
  /\ Place(p, "ending")
  /\ UNCHANGED <<logger, seqId, slot>>

(***************************************************************************)
(* poll fails before the first record of a block: Logging_Buffer_Init has  *)
(* not run, and the slot goes out with what an earlier lap left in it.  In *)
(* the first block Logging_Buffer_Finalize follows a null pointer, which   *)
(* is undefined: the task goes on as here, or is lost as in Abandon.       *)
(***************************************************************************)
SendUnfilled(p) ==
  /\ "poll" \in Fault
  /\ p \in Counted
  /\ openerAt[p] = "opened"
  /\ Logging_SendQueue(p, WriteMessage(p))
  /\ Place(p, "ending")
  /\ UNCHANGED <<logger, seqId, slot>>

SendEnd(p) ==
  /\ openerAt[p] = "ending"
  /\ \E c \in {"NULL"} \cup (IF "junkCallback" \in Fault THEN {"junk"} ELSE {}) :
       Logging_SendQueue(p, EndMessage(p, c))
  /\ Place(p, "ended")
  /\ UNCHANGED <<logger, seqId, slot>>

(***************************************************************************)
(* The task returns without END: a counted producer whose set-up fails     *)
(* before its first block or is lost in it, an uncounted one whose device  *)
(* fails at any time (Battery_Logging.c:58-81, 111-113).                   *)
(***************************************************************************)
Abandon(p) ==
  /\ "abandon" \in Fault
  /\ \/ openerAt[p] = "opened" /\ seqId[p] = 0
     \/ openerAt[p] = "filling" /\ p \notin Counted
  /\ Place(p, "abandoned")
  /\ UNCHANGED <<shared, logger, seqId, slot>>

-----------------------------------------------------------------------------
(* ShutdownNotify, the logger's handler, run by the notifier *)

ShutdownNotify_Open ==
  /\ openerAt[Notifier] = "fresh"
  /\ Logging_OpenQueue(Notifier, TRUE)
  /\ Place(Notifier, "ending")
  /\ UNCHANGED <<logger, seqId, slot>>

ShutdownNotify_Send ==
  /\ openerAt[Notifier] = "ending"
  /\ Logging_SendQueue(Notifier, ShutdownMessage)
  /\ Place(Notifier, "ended")
  /\ UNCHANGED <<logger, seqId, slot>>

-----------------------------------------------------------------------------
LoggerNext ==
  \/ Initialize
  \/ Register
  \/ CreateQueue
  \/ Receive
  \/ WriteBegin
  \/ WriteEnd
  \/ EndOrShutdown
  \/ Close
  \/ NotifyStop

ProducerNext(p) ==
  \/ Open(p)
  \/ Fill(p)
  \/ Send(p)
  \/ SendLast(p)
  \/ SendUnfilled(p)
  \/ SendEnd(p)
  \/ Abandon(p)

Next ==
  \/ LoggerNext
  \/ \E p \in Producer : ProducerNext(p)
  \/ ShutdownNotify_Open
  \/ ShutdownNotify_Send

Spec == Init /\ [][Next]_vars

(***************************************************************************)
(* The logger and a shutdown that has begun keep running.  A counted       *)
(* producer that has opened keeps sampling and, once the shutdown has      *)
(* begun, sends its last block and END.  Senders waiting on a full queue   *)
(* are served in turn, hence the strong fairness.                          *)
(***************************************************************************)
Fairness ==
  /\ WF_vars(LoggerNext)
  /\ SF_vars(ShutdownNotify_Send)
  /\ \A p \in Counted :
       /\ WF_vars(Fill(p))
       /\ SF_vars(openerAt[Notifier] # "fresh" /\ SendLast(p))
       /\ SF_vars(SendEnd(p))

FairSpec == Spec /\ Fairness

-----------------------------------------------------------------------------
(* Properties *)

\* Type invariant.
TypeOK ==
  /\ isQueueCreated \in BOOLEAN
  /\ openCount \in Int
  /\ queue \in Seq(Message) /\ Len(queue) <= QueueMax
  /\ connected \in SUBSET Opener
  /\ loggerAt \in LoggerAt
  /\ desc \in Message \cup {NoMessage}
  /\ isShutdown \in BOOLEAN
  /\ first \in Nat
  /\ openerAt \in [Opener -> OpenerAt]
  /\ seqId \in [Producer -> 0 .. MaxSeq]
  /\ slot \in [Producer -> [0 .. NumBuffers - 1 -> 0 .. MaxSeq]]
  /\ handed \in [Producer -> Seq([first: Nat, last: Nat])]

\* The messages the logger has not finished with.
Pending == {queue[i] : i \in 1 .. Len(queue)} \cup {desc}

(***************************************************************************)
(* The openers the count still stands for: those that opened with          *)
(* isIncrementOpenCount and whose END or SHUTDOWN the logger has not taken *)
(* into account, because it is to come, on its way, or will never come.    *)
(***************************************************************************)
Outstanding ==
  {t \in Counted \cup {Notifier} :
     \/ openerAt[t] \in {"opened", "filling", "ending", "abandoned"}
     \/ openerAt[t] = "ended" /\ t \notin connected
     \/ \E m \in Pending : m.type \in {"END", "SHUTDOWN"} /\ m.user = t}

(***************************************************************************)
(* The open count is exact (Logging.c:66-68 against 121): no interleaving  *)
(* of openers and of the logger's count-down, none of them in one critical *)
(* section with the queue operation it belongs to, loses an opener.        *)
(***************************************************************************)
OpenCountExact == openCount = Cardinality(Outstanding)

(***************************************************************************)
(* The logger closes the file only when nothing a counted producer has     *)
(* sent is still on its way, and none of them is in the middle of a block  *)
(* (Logging_main.c:83-85).  A producer may still open afterwards: then     *)
(* PowerCtrl refuses it.                                                   *)
(***************************************************************************)
CleanStop ==
  [][loggerAt # "close" /\ loggerAt' = "close" =>
       \A p \in Counted :
         /\ openerAt[p] \in {"fresh", "ended"}
         /\ \A m \in Pending' : m # NoMessage => m.user # p]_vars

(***************************************************************************)
(* Every block a producer was able to send before its END has been given   *)
(* to the writer when that END is taken into account: the junk callback,   *)
(* should it bring the board down, comes after the write and the fsync.    *)
(***************************************************************************)
EndMeansAllWritten ==
  \A p \in Counted \cap connected :
    openerAt[p] = "ended" /\ p \notin Outstanding
      => Len(handed[p]) = seqId[p] + 1

(***************************************************************************)
(* The n-th block written for a producer is its n-th block or a later one  *)
(* of the same slot, never an earlier one, and no further ahead than the   *)
(* queue lets the producer run (Imu_Logging.c:192, Battery_Logging.c:85).  *)
(* The header's seqId tells of an overrun that was over before the write   *)
(* began; one during the write shows only in what the write ends with.  A  *)
(* block sent unfilled after a failed poll is an earlier one, so poll must *)
(* not fail.                                                               *)
(***************************************************************************)
OverrunBounded ==
  \A p \in Producer : \A n \in 1 .. Len(handed[p]) :
    LET b == handed[p][n] IN
      /\ n - 1 <= b.first /\ b.first <= b.last
      /\ b.last <= n + QueueMax
      /\ (b.first - (n - 1)) % NumBuffers = 0
      /\ (b.last - (n - 1)) % NumBuffers = 0

(***************************************************************************)
(* Once the logger's handler has been called, the logger stops.  It needs  *)
(* a working queue and producers that send their END.                      *)
(***************************************************************************)
LoggerStops == openerAt[Notifier] # "fresh" ~> loggerAt = "stopped"
=============================================================================
