---------------------------- MODULE LoggingProofs ----------------------------
(***************************************************************************)
(* Machine-checked proofs about Logging: for any producers, any length of  *)
(* the queue and the rings, and any failure, the open count is exact, the  *)
(* logger stops when nothing of a counted producer is on its way, none of  *)
(* its blocks is missing when its END is taken into account, and how far a *)
(* producer that laps its ring can have overwritten what is written.       *)
(***************************************************************************)
EXTENDS Logging, RingLemmas, FiniteSetTheorems, TLAPS

Closer == Counted \cup {Notifier}

IsEnd(m) == m.type \in {"END", "SHUTDOWN"}

\* Who can have sent a message, and where it is then.
Proper(m) ==
  /\ m.user \in connected
  /\ openerAt[m.user] # "fresh"
  /\ m.type = "WRITE" => m.user \in Producer
  /\ IsEnd(m) => m.user \in Closer /\ openerAt[m.user] = "ended"

AllProper ==
  /\ \A i \in 1 .. Len(queue) : Proper(queue[i])
  /\ loggerAt \in {"dispatch", "write"} => desc \in Message /\ Proper(desc)
  /\ loggerAt = "write" => desc.type = "WRITE"
  /\ loggerAt \notin {"dispatch", "write"} => desc = NoMessage

\* Only those with a share in the open count send END or SHUTDOWN.
Closing ==
  \A t \in Opener : openerAt[t] \in {"ending", "ended"} => t \in Closer

TypeInv == TypeOK /\ AllProper /\ Closing

LEMMA TypeInvInit == Init => TypeInv
<1> SUFFICES ASSUME Init PROVE TypeInv
  OBVIOUS
<1> USE LoggingAssumption DEF Init
<1>1. queue \in Seq(Message) /\ Len(queue) = 0 /\ Len(queue) <= QueueMax
  OBVIOUS
<1>2. /\ openerAt \in [Opener -> OpenerAt]
      /\ seqId \in [Producer -> 0 .. MaxSeq]
      /\ slot \in [Producer -> [0 .. NumBuffers - 1 -> 0 .. MaxSeq]]
      /\ handed \in [Producer -> Seq([first: Nat, last: Nat])]
  BY DEF OpenerAt
<1>3. TypeOK
  <2>1. isQueueCreated \in BOOLEAN /\ isShutdown \in BOOLEAN
    OBVIOUS
  <2>2. openCount \in Int /\ first \in Nat /\ connected \in SUBSET Opener
    OBVIOUS
  <2>3. loggerAt \in LoggerAt /\ desc \in Message \cup {NoMessage}
    BY DEF LoggerAt
  <2>4. QED
    BY <1>1, <1>2, <2>1, <2>2, <2>3 DEF TypeOK
<1>4. AllProper /\ Closing
  BY <1>1 DEF AllProper, Closing
<1>5. QED
  BY <1>3, <1>4 DEF TypeInv

-----------------------------------------------------------------------------
(* The queue *)

\* What Logging_SendQueue does to the queue.
Sent(t, m) ==
  /\ queue' \in Seq(Message) /\ Len(queue') <= QueueMax
  /\ UNCHANGED <<isQueueCreated, openCount, connected>>
  /\ \/ t \notin connected /\ queue' = queue
     \/ /\ t \in connected
        /\ Len(queue') = Len(queue) + 1
        /\ \A i \in 1 .. Len(queue) : queue'[i] = queue[i]
        /\ queue'[Len(queue) + 1] = m

LEMMA SendQueue ==
  ASSUME TypeOK, NEW t, NEW m \in Message, Logging_SendQueue(t, m)
  PROVE  Sent(t, m)
<1>1. queue \in Seq(Message) /\ Len(queue) <= QueueMax
  BY DEF TypeOK
<1> HIDE DEF Message
<1>2. UNCHANGED <<isQueueCreated, openCount, connected>>
  BY DEF Logging_SendQueue
<1>3. CASE t \in connected
  <2>1. Len(queue) < QueueMax /\ queue' = Append(queue, m)
    BY <1>3 DEF Logging_SendQueue
  <2>2. QED
    BY <1>1, <1>2, <1>3, <2>1, LoggingAssumption DEF Sent
<1>4. CASE t \notin connected
  BY <1>1, <1>2, <1>4 DEF Logging_SendQueue, Sent
<1>5. QED
  BY <1>3, <1>4

\* What Receive does to it.
Received ==
  /\ desc' \in Message /\ Len(queue) \in Nat \ {0} /\ desc' = queue[1]
  /\ queue' \in Seq(Message) /\ Len(queue') = Len(queue) - 1
  /\ \A i \in 1 .. Len(queue') : i + 1 \in 1 .. Len(queue) /\ queue'[i] = queue[i + 1]

LEMMA ReceiveQueue == ASSUME TypeOK, Receive PROVE Received
<1>1. queue \in Seq(Message) /\ queue # <<>>
  BY DEF TypeOK, Receive
<1>2. desc' = Head(queue) /\ queue' = Tail(queue)
  BY DEF Receive
<1> HIDE DEF Message
<1>3. QED
  BY <1>1, <1>2 DEF Received

\* The messages of the producers are messages.
LEMMA MessageTypes ==
  ASSUME TypeOK
  PROVE  /\ \A p \in Producer : WriteMessage(p) \in Message
         /\ \A p \in Producer, c \in {"NULL", "junk"} : EndMessage(p, c) \in Message
         /\ ShutdownMessage \in Message
<1>1. ASSUME NEW p \in Producer PROVE seqId[p] % NumBuffers \in 0 .. NumBuffers - 1
  <2>1. seqId[p] \in Nat /\ NumBuffers \in Nat \ {0}
    BY LoggingAssumption DEF TypeOK
  <2>2. QED
    BY <2>1
<1>2. 0 \in 0 .. NumBuffers - 1
  BY LoggingAssumption
<1>3. QED
  BY <1>1, <1>2 DEF Message, WriteMessage, EndMessage, ShutdownMessage, Opener

-----------------------------------------------------------------------------
(* The logger's steps *)

LEMMA LoggerTypes == TypeInv /\ LoggerNext => TypeInv'
<1> SUFFICES ASSUME TypeInv, LoggerNext PROVE TypeInv'
  OBVIOUS
<1> USE DEF shared, producers
<1>1. CASE Initialize \/ Register \/ CreateQueue \/ Close \/ NotifyStop
  <2>1. /\ loggerAt' \in LoggerAt \ {"dispatch", "write"}
        /\ loggerAt \notin {"dispatch", "write"}
        /\ isQueueCreated' \in BOOLEAN
        /\ UNCHANGED <<openCount, queue, connected, desc, isShutdown, first, handed,
                       openerAt, seqId, slot>>
    BY <1>1
       DEF Initialize, Register, CreateQueue, Close, NotifyStop, LoggerAt, TypeInv, TypeOK
  <2>2. TypeOK'
    BY <2>1 DEF TypeInv, TypeOK
  <2>3. AllProper' /\ Closing'
    BY <2>1 DEF TypeInv, AllProper, Closing, Proper
  <2>4. QED
    BY <2>2, <2>3 DEF TypeInv
<1>2. CASE Receive
  <2>1. Received
    BY <1>2, ReceiveQueue DEF TypeInv
  <2>2. /\ loggerAt' = "dispatch"
        /\ UNCHANGED <<isQueueCreated, openCount, connected, isShutdown, first, handed,
                       openerAt, seqId, slot>>
    BY <1>2 DEF Receive
  <2>3. Len(queue') <= QueueMax
    BY <2>1, LoggingAssumption DEF Received, TypeInv, TypeOK
  <2>4. TypeOK'
    BY <2>1, <2>2, <2>3 DEF TypeInv, TypeOK, LoggerAt, Received
  <2>5. AllProper'
    <3>1. \A i \in 1 .. Len(queue) : Proper(queue[i])
      BY DEF TypeInv, AllProper
    <3>2. Proper(desc') /\ \A i \in 1 .. Len(queue') : Proper(queue'[i])
      BY <2>1, <3>1 DEF Received
    <3>3. Proper(desc)' /\ \A i \in 1 .. Len(queue') : Proper(queue[i])'
      BY <2>2, <3>2 DEF Proper
    <3>4. QED
      BY <2>1, <2>2, <3>3 DEF AllProper, Received
  <2>6. Closing'
    BY <2>2 DEF TypeInv, Closing
  <2>7. QED
    BY <2>4, <2>5, <2>6 DEF TypeInv
<1>3. CASE WriteBegin
  <2>1. /\ loggerAt = "dispatch" /\ desc.type = "WRITE"
        /\ first' = slot[desc.user][desc.ptr] /\ loggerAt' = "write"
        /\ UNCHANGED <<isQueueCreated, openCount, queue, connected, desc, isShutdown,
                       handed, openerAt, seqId, slot>>
    BY <1>3 DEF WriteBegin
  <2>2. desc.user \in Producer /\ desc.ptr \in 0 .. NumBuffers - 1
    BY <2>1 DEF TypeInv, AllProper, Proper, Message
  <2>3. first' \in Nat
    BY <2>1, <2>2, LoggingAssumption DEF TypeInv, TypeOK
  <2>4. TypeOK'
    BY <2>1, <2>3 DEF TypeInv, TypeOK, LoggerAt
  <2>5. AllProper' /\ Closing'
    BY <2>1 DEF TypeInv, AllProper, Closing, Proper
  <2>6. QED
    BY <2>4, <2>5 DEF TypeInv
<1>4. CASE WriteEnd
  <2> DEFINE b == [first |-> first, last |-> slot[desc.user][desc.ptr]]
  <2>1. /\ loggerAt = "write" /\ loggerAt' = "receive" /\ desc' = NoMessage /\ first' = 0
        /\ handed' = [handed EXCEPT ![desc.user] = Append(handed[desc.user], b)]
        /\ UNCHANGED <<isQueueCreated, openCount, queue, connected, isShutdown,
                       openerAt, seqId, slot>>
    BY <1>4 DEF WriteEnd
  <2>2. desc.user \in Producer /\ desc.ptr \in 0 .. NumBuffers - 1
    BY <2>1 DEF TypeInv, AllProper, Proper, Message
  <2>3. b \in [first: Nat, last: Nat]
    BY <2>2, LoggingAssumption DEF TypeInv, TypeOK
  <2> HIDE DEF b
  <2>4. handed' \in [Producer -> Seq([first: Nat, last: Nat])]
    BY <2>1, <2>2, <2>3 DEF TypeInv, TypeOK
  <2>5. TypeOK'
    BY <2>1, <2>4 DEF TypeInv, TypeOK, LoggerAt
  <2>6. AllProper' /\ Closing'
    BY <2>1 DEF TypeInv, AllProper, Closing, Proper
  <2>7. QED
    BY <2>5, <2>6 DEF TypeInv
<1>5. CASE EndOrShutdown
  <2>1. /\ openCount' = openCount - 1
        /\ isShutdown' = (isShutdown \/ desc.type = "SHUTDOWN")
        /\ loggerAt' \in {"crashed", "close", "receive"} /\ desc' = NoMessage
        /\ UNCHANGED <<isQueueCreated, queue, connected, first, handed, openerAt, seqId,
                       slot>>
    BY <1>5 DEF EndOrShutdown, Handled
  <2>2. openCount' \in Int /\ isShutdown' \in BOOLEAN
    BY <2>1 DEF TypeInv, TypeOK
  <2>3. TypeOK'
    BY <2>1, <2>2 DEF TypeInv, TypeOK, LoggerAt
  <2>4. AllProper' /\ Closing'
    BY <2>1 DEF TypeInv, AllProper, Closing, Proper
  <2>5. QED
    BY <2>3, <2>4 DEF TypeInv
<1>6. QED
  BY <1>1, <1>2, <1>3, <1>4, <1>5 DEF LoggerNext

-----------------------------------------------------------------------------
(* The producers' steps and the notifier's *)

\* t takes a step to place, and sends m.
SendsTo(t, m, place) ==
  Sent(t, m) /\ Place(t, place) /\ UNCHANGED logger /\ UNCHANGED slot

LEMMA SendsTypes ==
  ASSUME TypeInv, NEW t \in Opener, NEW m \in Message, NEW place \in OpenerAt,
         SendsTo(t, m, place), m.user = t,
         m.type = "WRITE" => t \in Producer /\ place # "fresh",
         IsEnd(m) => t \in Closer /\ place = "ended",
         place \in {"ending", "ended"} => t \in Closer,
         openerAt[t] \notin {"fresh", "ended"},
         seqId' \in [Producer -> 0 .. MaxSeq]
  PROVE  TypeInv'
<1>1. /\ openerAt' = [openerAt EXCEPT ![t] = place] /\ openerAt \in [Opener -> OpenerAt]
      /\ UNCHANGED <<loggerAt, desc, isShutdown, first, handed, slot, isQueueCreated,
                     openCount, connected>>
      /\ queue' \in Seq(Message) /\ Len(queue') <= QueueMax
      /\ queue \in Seq(Message)
  BY DEF SendsTo, Sent, Place, logger, TypeInv, TypeOK
<1>2. openerAt' \in [Opener -> OpenerAt]
  BY <1>1
<1>3. TypeOK'
  BY <1>1, <1>2 DEF TypeInv, TypeOK
<1>4. place # "fresh"
  BY DEF Message, IsEnd
<1>5. ASSUME NEW k \in Message, Proper(k) PROVE Proper(k)'
  <2>1. k.user \in Opener
    BY DEF Message
  <2>2. CASE k.user = t
    BY <1>1, <1>4, <1>5, <2>1, <2>2 DEF Proper, IsEnd
  <2>3. CASE k.user # t
    BY <1>1, <1>5, <2>1, <2>3 DEF Proper, IsEnd
  <2>4. QED
    BY <2>2, <2>3
<1>6. ASSUME t \in connected PROVE Proper(m)'
  BY <1>1, <1>4, <1>6 DEF Proper, IsEnd
<1>7. (\A i \in 1 .. Len(queue) : Proper(queue[i]))'
  <2>1. SUFFICES ASSUME NEW i \in 1 .. Len(queue'), NEW k, k = queue'[i]
                 PROVE  Proper(k)'
    BY DEF Proper, IsEnd
  <2>2. CASE i \in 1 .. Len(queue)
    <3>1. k = queue[i]
      BY <2>1, <2>2 DEF SendsTo, Sent
    <3>2. k \in Message /\ Proper(k)
      BY <1>1, <2>2, <3>1 DEF TypeInv, AllProper
    <3>3. QED
      BY <1>5, <3>2
  <2>3. CASE i \notin 1 .. Len(queue)
    <3>1. t \in connected /\ k = m
      BY <1>1, <2>1, <2>3 DEF SendsTo, Sent
    <3>2. QED
      BY <1>6, <3>1
  <2>4. QED
    BY <2>2, <2>3
<1>8. AllProper'
  <2>1. loggerAt \in {"dispatch", "write"} => Proper(desc)'
    <3>1. ASSUME NEW k, k = desc, loggerAt \in {"dispatch", "write"} PROVE Proper(k)'
      BY <1>5, <3>1 DEF TypeInv, AllProper
    <3>2. QED
      BY <1>1, <3>1 DEF Proper, IsEnd
  <2>2. QED
    BY <1>1, <1>7, <2>1 DEF TypeInv, AllProper
<1>9. Closing'
  BY <1>1 DEF TypeInv, Closing
<1>10. QED
  BY <1>3, <1>8, <1>9 DEF TypeInv

ProducersNext ==
  \/ \E p \in Producer : ProducerNext(p)
  \/ ShutdownNotify_Open
  \/ ShutdownNotify_Send

(* A producer or the notifier opens, moves on, sends a block, or ends. *)

Opens(t) ==
  /\ openerAt[t] = "fresh"
  /\ openCount' = IF t \in Closer THEN openCount + 1 ELSE openCount
  /\ connected' \in {connected, connected \cup {t}}
  /\ Place(t, "opened") \/ (t \in Closer /\ Place(t, "ending"))
  /\ UNCHANGED <<isQueueCreated, queue, logger, seqId, slot>>

Moves(t) ==
  /\ openerAt[t] \in {"opened", "filling"}
  /\ Place(t, "filling") \/ Place(t, "abandoned")
  /\ UNCHANGED <<shared, logger, seqId>>
  /\ slot' \in [Producer -> [0 .. NumBuffers - 1 -> 0 .. MaxSeq]]

Writes(t) ==
  /\ t \in Producer
  /\ openerAt[t] \in {"opened", "filling"}
  /\ \E m \in Message, place \in {"opened", "ending"} :
       /\ m.type = "WRITE" /\ m.user = t
       /\ place = "ending" => t \in Closer
       /\ SendsTo(t, m, place)
  /\ seqId' \in [Producer -> 0 .. MaxSeq]

Ends(t) ==
  /\ t \in Closer
  /\ openerAt[t] = "ending"
  /\ \E m \in Message : IsEnd(m) /\ m.user = t /\ SendsTo(t, m, "ended")
  /\ seqId' = seqId

LEMMA Shapes ==
  TypeInv /\ ProducersNext =>
    \E t \in Opener : Opens(t) \/ Moves(t) \/ Writes(t) \/ Ends(t)
<1> SUFFICES ASSUME TypeInv, ProducersNext
             PROVE  \E t \in Opener : Opens(t) \/ Moves(t) \/ Writes(t) \/ Ends(t)
  OBVIOUS
<1>1. TypeOK /\ Counted \subseteq Closer /\ Notifier \in Closer
  BY DEF TypeInv, Closer
<1>2. /\ \A p \in Producer : WriteMessage(p) \in Message
      /\ \A p \in Producer, c \in {"NULL", "junk"} : EndMessage(p, c) \in Message
      /\ ShutdownMessage \in Message
  BY <1>1, MessageTypes
<1>3. ASSUME NEW p \in Producer, ProducerNext(p)
      PROVE  Opens(p) \/ Moves(p) \/ Writes(p) \/ Ends(p)
  <2>1. p \in Closer <=> p \in Counted
    BY LoggingAssumption DEF Closer
  <2>2. CASE Open(p)
    BY <2>1, <2>2 DEF Open, Logging_OpenQueue, Opens
  <2>3. CASE Fill(p)
    <3>1. seqId[p] \in 0 .. MaxSeq /\ seqId[p] % NumBuffers \in 0 .. NumBuffers - 1
      BY <1>1, LoggingAssumption DEF TypeOK
    <3>2. slot' \in [Producer -> [0 .. NumBuffers - 1 -> 0 .. MaxSeq]]
      BY <1>1, <2>3, <3>1 DEF Fill, TypeOK
    <3>3. QED
      BY <2>3, <3>2 DEF Fill, Moves
  <2>4. CASE Abandon(p)
    BY <1>1, <2>4 DEF Abandon, Moves, TypeOK
  <2>5. WriteMessage(p).type = "WRITE" /\ WriteMessage(p).user = p
        /\ seqId \in [Producer -> 0 .. MaxSeq]
    BY <1>1 DEF WriteMessage, TypeOK
  <2>6. CASE Send(p)
    <3>1. Sent(p, WriteMessage(p))
      BY <1>1, <1>2, <2>6, SendQueue DEF Send
    <3>2. SendsTo(p, WriteMessage(p), "opened") /\ openerAt[p] = "filling"
      BY <2>6, <3>1 DEF Send, SendsTo
    <3>3. seqId' \in [Producer -> 0 .. MaxSeq]
      BY <1>1, <2>6, LoggingAssumption DEF Send, TypeOK
    <3>4. QED
      BY <1>2, <2>5, <3>2, <3>3 DEF Writes
  <2>7. CASE SendLast(p) \/ SendUnfilled(p)
    <3>1. Sent(p, WriteMessage(p))
      BY <1>1, <1>2, <2>7, SendQueue DEF SendLast, SendUnfilled
    <3>2. SendsTo(p, WriteMessage(p), "ending") /\ p \in Counted
          /\ openerAt[p] \in {"opened", "filling"} /\ seqId' = seqId
      BY <2>7, <3>1 DEF SendLast, SendUnfilled, SendsTo
    <3>3. QED
      BY <1>2, <2>1, <2>5, <3>2 DEF Writes
  <2>8. CASE SendEnd(p)
    <3>1. PICK c \in {"NULL", "junk"} : Logging_SendQueue(p, EndMessage(p, c))
      BY <2>8 DEF SendEnd
    <3>2. Sent(p, EndMessage(p, c))
      BY <1>1, <1>2, <3>1, SendQueue
    <3>3. SendsTo(p, EndMessage(p, c), "ended") /\ openerAt[p] = "ending" /\ seqId' = seqId
      BY <2>8, <3>2 DEF SendEnd, SendsTo
    <3>4. p \in Closer
      BY <3>3 DEF TypeInv, Closing, Opener
    <3>5. IsEnd(EndMessage(p, c)) /\ EndMessage(p, c).user = p
      BY DEF EndMessage, IsEnd
    <3>6. QED
      BY <1>2, <3>3, <3>4, <3>5 DEF Ends
  <2>9. QED
    BY <1>3, <2>2, <2>3, <2>4, <2>6, <2>7, <2>8 DEF ProducerNext
<1>4. CASE ShutdownNotify_Open
  <2>1. Opens(Notifier)
    BY <1>1, <1>4 DEF ShutdownNotify_Open, Logging_OpenQueue, Opens
  <2>2. QED
    BY <2>1 DEF Opener
<1>5. CASE ShutdownNotify_Send
  <2>1. Sent(Notifier, ShutdownMessage)
    BY <1>1, <1>2, <1>5, SendQueue DEF ShutdownNotify_Send
  <2>2. SendsTo(Notifier, ShutdownMessage, "ended") /\ openerAt[Notifier] = "ending"
        /\ seqId' = seqId
    BY <1>5, <2>1 DEF ShutdownNotify_Send, SendsTo
  <2>3. IsEnd(ShutdownMessage) /\ ShutdownMessage.user = Notifier
    BY DEF ShutdownMessage, IsEnd
  <2>4. Ends(Notifier)
    BY <1>1, <1>2, <2>2, <2>3 DEF Ends
  <2>5. QED
    BY <2>4 DEF Opener
<1>6. QED
  BY <1>3, <1>4, <1>5 DEF ProducersNext, Opener

LEMMA ProducerTypes == TypeInv /\ ProducersNext => TypeInv'
<1> SUFFICES ASSUME TypeInv, NEW t \in Opener,
                    Opens(t) \/ Moves(t) \/ Writes(t) \/ Ends(t)
             PROVE  TypeInv'
  BY Shapes
<1>1. openerAt \in [Opener -> OpenerAt]
  BY DEF TypeInv, TypeOK
<1>2. CASE Opens(t)
  <2>1. /\ openerAt' \in [Opener -> OpenerAt] /\ openCount' \in Int
        /\ connected' \in SUBSET Opener /\ connected \subseteq connected'
        /\ UNCHANGED <<isQueueCreated, queue, loggerAt, desc, isShutdown, first, handed,
                       seqId, slot>>
        /\ \A u \in Opener : openerAt'[u] # openerAt[u] =>
             u = t /\ openerAt[u] = "fresh" /\ openerAt'[u] # "fresh"
    <3>1. UNCHANGED <<isQueueCreated, queue, loggerAt, desc, isShutdown, first, handed,
                      seqId, slot>>
      BY <1>2 DEF Opens, logger
    <3>2. openCount' \in Int
      BY <1>2 DEF Opens, TypeInv, TypeOK
    <3>3. connected' \in SUBSET Opener /\ connected \subseteq connected'
      BY <1>2 DEF Opens, TypeInv, TypeOK
    <3>4. PICK place \in {"opened", "ending"} : openerAt' = [openerAt EXCEPT ![t] = place]
      BY <1>2 DEF Opens, Place
    <3>5. openerAt' \in [Opener -> OpenerAt]
      BY <1>1, <3>4 DEF OpenerAt
    <3>6. \A u \in Opener : openerAt'[u] # openerAt[u] =>
             u = t /\ openerAt[u] = "fresh" /\ openerAt'[u] # "fresh"
      BY <1>1, <1>2, <3>4 DEF Opens
    <3>7. QED
      BY <3>1, <3>2, <3>3, <3>5, <3>6
  <2>2. TypeOK'
    BY <2>1 DEF TypeInv, TypeOK
  <2>3. ASSUME NEW k \in Message, Proper(k) PROVE Proper(k)'
    <3>1. k.user \in Opener
      BY DEF Message
    <3>2. QED
      BY <2>1, <2>3, <3>1 DEF Proper, IsEnd
  <2>4. \A i \in 1 .. Len(queue) : queue[i] \in Message
    BY DEF TypeInv, TypeOK
  <2>5. AllProper'
    BY <2>1, <2>3, <2>4 DEF TypeInv, AllProper, Proper, IsEnd
  <2>6. Closing'
    BY <1>1, <1>2 DEF Opens, Place, TypeInv, Closing
  <2>7. QED
    BY <2>2, <2>5, <2>6 DEF TypeInv
<1>3. CASE Moves(t)
  <2>1. /\ openerAt' \in [Opener -> OpenerAt]
        /\ slot' \in [Producer -> [0 .. NumBuffers - 1 -> 0 .. MaxSeq]]
        /\ UNCHANGED <<isQueueCreated, openCount, connected, queue, loggerAt, desc,
                       isShutdown, first, handed, seqId>>
        /\ \A u \in Opener : openerAt'[u] # openerAt[u] =>
             openerAt[u] \in {"opened", "filling"} /\ openerAt'[u] \in {"filling", "abandoned"}
    BY <1>1, <1>3 DEF Moves, Place, OpenerAt, logger, shared
  <2>2. TypeOK'
    BY <2>1 DEF TypeInv, TypeOK
  <2>3. \A i \in 1 .. Len(queue) : queue[i].user \in Opener
    <3>1. \A i \in 1 .. Len(queue) : queue[i] \in Message
      BY DEF TypeInv, TypeOK
    <3>2. QED
      BY <3>1 DEF Message
  <2>4. desc \in Message => desc.user \in Opener
    BY DEF Message
  <2>5. AllProper'
    BY <2>1, <2>3, <2>4 DEF TypeInv, AllProper, Proper, IsEnd
  <2>6. Closing'
    BY <2>1 DEF TypeInv, Closing
  <2>7. QED
    BY <2>2, <2>5, <2>6 DEF TypeInv
<1>4. CASE Writes(t)
  <2>1. PICK m \in Message, place \in {"opened", "ending"} :
          /\ m.type = "WRITE" /\ m.user = t
          /\ place = "ending" => t \in Closer
          /\ SendsTo(t, m, place)
    BY <1>4 DEF Writes
  <2>2. openerAt[t] \notin {"fresh", "ended"} /\ seqId' \in [Producer -> 0 .. MaxSeq]
        /\ t \in Producer
    BY <1>4 DEF Writes
  <2>3. ~IsEnd(m) /\ place \in OpenerAt
    BY <2>1 DEF IsEnd, OpenerAt
  <2>4. QED
    BY <2>1, <2>2, <2>3, SendsTypes
<1>5. CASE Ends(t)
  <2>1. PICK m \in Message : IsEnd(m) /\ m.user = t /\ SendsTo(t, m, "ended")
    BY <1>5 DEF Ends
  <2>2. openerAt[t] \notin {"fresh", "ended"} /\ t \in Closer
    BY <1>5 DEF Ends
  <2>3. seqId' \in [Producer -> 0 .. MaxSeq]
    BY <1>5 DEF Ends, TypeInv, TypeOK
  <2>4. m.type # "WRITE" /\ "ended" \in OpenerAt
    BY <2>1 DEF IsEnd, OpenerAt
  <2>5. QED
    BY <2>1, <2>2, <2>3, <2>4, SendsTypes
<1>6. QED
  BY <1>2, <1>3, <1>4, <1>5

LEMMA TypeInvariant == Spec => []TypeInv
<1>1. TypeInv /\ UNCHANGED vars => TypeInv'
  BY DEF vars, shared, logger, producers, TypeInv, TypeOK, AllProper, Closing, Proper
<1>2. TypeInv /\ [Next]_vars => TypeInv'
  BY <1>1, LoggerTypes, ProducerTypes DEF Next, ProducersNext
<1>3. QED
  BY TypeInvInit, <1>2, PTL DEF Spec

(***************************************************************************)
(* Type correctness: the queue never grows beyond its size, whoever sends  *)
(* and whatever fails (Logging.c:90-101).                                  *)
(***************************************************************************)
THEOREM TypeCorrect == Spec => []TypeOK
<1>1. TypeInv => TypeOK
  BY DEF TypeInv
<1>2. QED
  BY <1>1, TypeInvariant, PTL

-----------------------------------------------------------------------------
(* The open count *)

\* An END or SHUTDOWN is its sender's last message.
EndLast ==
  /\ \A i, j \in 1 .. Len(queue) :
       i < j /\ IsEnd(queue[i]) => queue[j].user # queue[i].user
  /\ IsEnd(desc) => \A j \in 1 .. Len(queue) : queue[j].user # desc.user

\* Messages of an opener that has ended are followed by its END.
EndFollows ==
  \A i \in 1 .. Len(queue) : openerAt[queue[i].user] = "ended" =>
    \E j \in 1 .. Len(queue) : IsEnd(queue[j]) /\ queue[j].user = queue[i].user

Order == EndLast /\ EndFollows

\* t's END or SHUTDOWN is on its way.
EndPending(t) ==
  \/ \E i \in 1 .. Len(queue) : IsEnd(queue[i]) /\ queue[i].user = t
  \/ IsEnd(desc) /\ desc.user = t

Owing(t) ==
  \/ openerAt[t] \in {"opened", "filling", "ending", "abandoned"}
  \/ openerAt[t] = "ended" /\ t \notin connected
  \/ EndPending(t)

LEMMA OutstandingOwe ==
  /\ Outstanding = {t \in Closer : Owing(t)}
  /\ Outstanding' = {t \in Closer : Owing(t)'}
<1>1. ASSUME NEW t
      PROVE  (\E m \in Pending : m.type \in {"END", "SHUTDOWN"} /\ m.user = t)
               <=> EndPending(t)
  BY DEF Pending, EndPending, IsEnd
<1>2. ASSUME NEW t
      PROVE  (\E m \in Pending' : m.type \in {"END", "SHUTDOWN"} /\ m.user = t)
               <=> EndPending(t)'
  BY DEF Pending, EndPending, IsEnd
<1>3. QED
  BY <1>1, <1>2 DEF Outstanding, Owing, Closer

LEMMA CloserFinite ==
  /\ Closer \subseteq Opener
  /\ IsFiniteSet(Closer)
  /\ \A S \in SUBSET Closer : IsFiniteSet(S)
<1>1. IsFiniteSet(Counted)
  BY LoggingAssumption, FS_Subset
<1>2. IsFiniteSet(Closer)
  BY <1>1, FS_AddElement DEF Closer
<1>3. QED
  BY <1>2, LoggingAssumption, FS_Subset DEF Closer, Opener

(* What a step may do to the count: nothing, or one more, or one less. *)

LEMMA CountSame ==
  ASSUME OpenCountExact, openCount' = openCount,
         \A t \in Closer : Owing(t)' <=> Owing(t)
  PROVE  OpenCountExact'
<1>1. Outstanding' = Outstanding
  BY OutstandingOwe
<1>2. QED
  BY <1>1 DEF OpenCountExact

LEMMA CountUp ==
  ASSUME OpenCountExact, openCount' = openCount + 1,
         NEW t \in Closer, ~Owing(t), Owing(t)',
         \A u \in Closer \ {t} : Owing(u)' <=> Owing(u)
  PROVE  OpenCountExact'
<1>1. Outstanding' = Outstanding \cup {t} /\ t \notin Outstanding
  BY OutstandingOwe
<1>2. IsFiniteSet(Outstanding)
  BY OutstandingOwe, CloserFinite
<1>3. QED
  BY <1>1, <1>2, FS_AddElement DEF OpenCountExact

LEMMA CountDown ==
  ASSUME OpenCountExact, openCount' = openCount - 1,
         NEW t \in Closer, Owing(t), ~Owing(t)',
         \A u \in Closer \ {t} : Owing(u)' <=> Owing(u)
  PROVE  OpenCountExact'
<1>1. Outstanding' = Outstanding \ {t} /\ t \in Outstanding
  BY OutstandingOwe
<1>2. IsFiniteSet(Outstanding)
  BY OutstandingOwe, CloserFinite
<1>3. QED
  BY <1>1, <1>2, FS_RemoveElement DEF OpenCountExact

IInv == TypeInv /\ Order /\ OpenCountExact

LEMMA IInvInit == Init => IInv
<1> SUFFICES ASSUME Init PROVE IInv
  OBVIOUS
<1>1. queue = <<>> /\ Len(queue) = 0 /\ desc = NoMessage /\ openCount = 0
      /\ openerAt = [t \in Opener |-> "fresh"]
  BY DEF Init
<1>2. ~IsEnd(desc)
  BY <1>1 DEF IsEnd, NoMessage
<1>3. Order
  BY <1>1, <1>2 DEF Order, EndLast, EndFollows
<1>4. \A t \in Closer : ~Owing(t)
  BY <1>1, <1>2, CloserFinite DEF Owing, EndPending
<1>5. Outstanding = {}
  BY <1>4, OutstandingOwe
<1>6. OpenCountExact
  BY <1>1, <1>5, FS_EmptySet DEF OpenCountExact
<1>7. QED
  BY <1>3, <1>6, TypeInvInit DEF IInv

\* The messages in the queue, their senders, and the one being handled.
LEMMA Senders ==
  ASSUME TypeInv
  PROVE  /\ \A i \in 1 .. Len(queue) :
              /\ queue[i] \in Message
              /\ queue[i].user \in Opener
              /\ Proper(queue[i])
         /\ Len(queue) \in Nat
<1>1. \A i \in 1 .. Len(queue) : queue[i] \in Message
  BY DEF TypeInv, TypeOK
<1>2. \A k \in Message : k.user \in Opener
  BY DEF Message
<1>3. QED
  BY <1>1, <1>2 DEF TypeInv, TypeOK, AllProper

LEMMA LoggerCounts == IInv /\ LoggerNext => IInv'
<1> SUFFICES ASSUME IInv, LoggerNext PROVE IInv'
  OBVIOUS
<1>1. TypeInv /\ TypeInv' /\ Order /\ OpenCountExact
  BY LoggerTypes DEF IInv
<1> USE DEF shared, producers
<1>2. CASE Initialize \/ Register \/ CreateQueue \/ Close \/ NotifyStop \/ WriteBegin
            \/ WriteEnd
  <2>1. UNCHANGED <<openCount, queue, connected, openerAt>>
    BY <1>2 DEF Initialize, Register, CreateQueue, Close, NotifyStop, WriteBegin, WriteEnd
  <2>2. desc' = desc \/ (~IsEnd(desc) /\ ~IsEnd(desc'))
    <3>1. CASE WriteEnd
      BY <1>1, <3>1 DEF WriteEnd, TypeInv, AllProper, IsEnd, NoMessage
    <3>2. CASE ~WriteEnd
      BY <1>2, <3>2 DEF Initialize, Register, CreateQueue, Close, NotifyStop, WriteBegin
    <3>3. QED
      BY <3>1, <3>2
  <2>3. Order'
    BY <1>1, <2>1, <2>2 DEF Order, EndLast, EndFollows
  <2>4. \A t \in Closer : Owing(t)' <=> Owing(t)
    BY <2>1, <2>2 DEF Owing, EndPending
  <2>5. QED
    BY <1>1, <2>1, <2>3, <2>4, CountSame DEF IInv
<1>3. CASE Receive
  <2>1. Received
    BY <1>1, <1>3, ReceiveQueue DEF TypeInv
  <2>2. UNCHANGED <<openCount, connected, openerAt>> /\ ~IsEnd(desc)
    BY <1>1, <1>3 DEF Receive, TypeInv, AllProper, IsEnd, NoMessage
  <2>3. /\ Len(queue) \in Nat \ {0} /\ desc' = queue[1]
        /\ Len(queue') = Len(queue) - 1
        /\ \A i \in 1 .. Len(queue') : i + 1 \in 1 .. Len(queue) /\ queue'[i] = queue[i + 1]
    BY <2>1 DEF Received
  <2>4. ASSUME NEW j \in 1 .. Len(queue), j # 1
        PROVE  j - 1 \in 1 .. Len(queue') /\ queue'[j - 1] = queue[j]
    <3>1. j - 1 \in 1 .. Len(queue') /\ (j - 1) + 1 = j
      BY <2>3, <2>4
    <3>2. QED
      BY <2>3, <3>1
  <2>5. ASSUME NEW i \in 1 .. Len(queue), NEW j \in 1 .. Len(queue), i < j,
               IsEnd(queue[i])
        PROVE  queue[j].user # queue[i].user
    BY <1>1, <2>5 DEF Order, EndLast
  <2>6. EndLast'
    <3>1. ASSUME NEW i \in 1 .. Len(queue'), NEW j \in 1 .. Len(queue'), i < j,
                 IsEnd(queue'[i])
          PROVE  queue'[j].user # queue'[i].user
      <4>1. /\ i + 1 \in 1 .. Len(queue) /\ queue'[i] = queue[i + 1]
            /\ j + 1 \in 1 .. Len(queue) /\ queue'[j] = queue[j + 1]
            /\ i + 1 < j + 1
        BY <2>3, <3>1
      <4>2. QED
        BY <2>5, <3>1, <4>1
    <3>2. ASSUME NEW j \in 1 .. Len(queue'), IsEnd(desc')
          PROVE  queue'[j].user # desc'.user
      <4>1. /\ j + 1 \in 1 .. Len(queue) /\ queue'[j] = queue[j + 1]
            /\ 1 < j + 1 /\ 1 \in 1 .. Len(queue)
        BY <2>3
      <4>2. QED
        BY <2>3, <2>5, <3>2, <4>1
    <3>3. QED
      BY <3>1, <3>2 DEF EndLast, IsEnd
  <2>7. EndFollows'
    <3>1. SUFFICES ASSUME NEW i \in 1 .. Len(queue'), openerAt'[queue'[i].user] = "ended"
                   PROVE  \E j \in 1 .. Len(queue') :
                            IsEnd(queue'[j]) /\ queue'[j].user = queue'[i].user
      BY DEF EndFollows, IsEnd
    <3>2. i + 1 \in 1 .. Len(queue) /\ queue'[i] = queue[i + 1]
      BY <2>3
    <3>3. PICK j \in 1 .. Len(queue) :
            IsEnd(queue[j]) /\ queue[j].user = queue[i + 1].user
      BY <1>1, <2>2, <3>1, <3>2 DEF Order, EndFollows
    <3>4. j # 1
      <4>1. 1 < i + 1
        BY <2>3
      <4>2. QED
        BY <2>5, <3>2, <3>3, <4>1
    <3>5. QED
      BY <2>4, <3>2, <3>3, <3>4
  <2>8. \A t \in Closer : Owing(t)' <=> Owing(t)
    <3>1. ASSUME NEW t PROVE EndPending(t)' <=> EndPending(t)
      <4>1. ASSUME EndPending(t)' PROVE EndPending(t)
        <5>1. CASE IsEnd(desc') /\ desc'.user = t
          <6>1. 1 \in 1 .. Len(queue)
            BY <2>3
          <6>2. QED
            BY <2>3, <5>1, <6>1 DEF EndPending
        <5>2. CASE ~(IsEnd(desc') /\ desc'.user = t)
          <6>1. PICK i \in 1 .. Len(queue') : IsEnd(queue'[i]) /\ queue'[i].user = t
            BY <4>1, <5>2 DEF EndPending, IsEnd
          <6>2. QED
            BY <2>3, <6>1 DEF EndPending
        <5>3. QED
          BY <5>1, <5>2
      <4>2. ASSUME EndPending(t) PROVE EndPending(t)'
        <5>1. PICK j \in 1 .. Len(queue) : IsEnd(queue[j]) /\ queue[j].user = t
          BY <2>2, <4>2 DEF EndPending
        <5>2. CASE j = 1
          BY <2>3, <5>1, <5>2 DEF EndPending, IsEnd
        <5>3. CASE j # 1
          <6>1. j - 1 \in 1 .. Len(queue') /\ queue'[j - 1] = queue[j]
            BY <2>4, <5>3
          <6>2. QED
            BY <5>1, <6>1 DEF EndPending, IsEnd
        <5>4. QED
          BY <5>2, <5>3
      <4>3. QED
        BY <4>1, <4>2
    <3>2. QED
      BY <2>2, <3>1 DEF Owing
  <2>9. QED
    BY <1>1, <2>2, <2>6, <2>7, <2>8, CountSame DEF IInv, Order
<1>4. CASE EndOrShutdown
  <2>1. /\ openCount' = openCount - 1 /\ desc' = NoMessage
        /\ IsEnd(desc) /\ loggerAt = "dispatch"
        /\ UNCHANGED <<queue, connected, openerAt>>
    BY <1>4 DEF EndOrShutdown, Handled, IsEnd
  <2>2. ~IsEnd(desc')
    BY <2>1 DEF IsEnd, NoMessage
  <2>3. desc.user \in Closer /\ openerAt[desc.user] = "ended" /\ desc.user \in connected
    BY <1>1, <2>1 DEF TypeInv, AllProper, Proper
  <2>4. Order'
    BY <1>1, <2>1, <2>2 DEF Order, EndLast, EndFollows
  <2>5. Owing(desc.user)
    BY <2>1 DEF Owing, EndPending
  <2>6. \A t : EndPending(t)' <=>
                 (\E i \in 1 .. Len(queue) : IsEnd(queue[i]) /\ queue[i].user = t)
    BY <2>1, <2>2 DEF EndPending, IsEnd
  <2>7. ASSUME NEW t, t = desc.user PROVE ~Owing(t)'
    BY <1>1, <2>1, <2>3, <2>6, <2>7 DEF Owing, Order, EndLast
  <2>8. \A u \in Closer \ {desc.user} : Owing(u)' <=> Owing(u)
    BY <2>1, <2>6 DEF Owing, EndPending
  <2>9. QED
    <3>1. PICK t \in Closer : t = desc.user
      BY <2>3
    <3>2. OpenCountExact'
      BY <1>1, <2>1, <2>5, <2>7, <2>8, <3>1, CountDown
    <3>3. QED
      BY <1>1, <2>4, <3>2 DEF IInv
<1>5. QED
  BY <1>2, <1>3, <1>4 DEF LoggerNext

\* A block is sent: it comes before its sender's END.
LEMMA WriteCounts ==
  ASSUME IInv, NEW t \in Opener, Writes(t)
  PROVE  Order' /\ OpenCountExact'
<1>1. TypeInv /\ Order /\ OpenCountExact /\ openerAt \in [Opener -> OpenerAt]
  BY DEF IInv, TypeInv, TypeOK
<1>2. PICK m \in Message, place \in {"opened", "ending"} :
        m.type = "WRITE" /\ m.user = t /\ SendsTo(t, m, place)
  BY DEF Writes
<1>3. /\ openerAt[t] \in {"opened", "filling"} /\ ~IsEnd(m)
      /\ openerAt' = [openerAt EXCEPT ![t] = place] /\ desc' = desc /\ loggerAt' = loggerAt
      /\ UNCHANGED <<openCount, connected>>
      /\ \/ queue' = queue
         \/ /\ Len(queue') = Len(queue) + 1
            /\ \A i \in 1 .. Len(queue) : queue'[i] = queue[i]
            /\ queue'[Len(queue) + 1] = m
  BY <1>2 DEF Writes, IsEnd, SendsTo, Sent, Place, logger
<1>4. \A i \in 1 .. Len(queue) : IsEnd(queue[i]) => queue[i].user # t
  BY <1>1, <1>3, Senders DEF Proper
<1>5. IsEnd(desc) => desc.user # t
  BY <1>1, <1>3 DEF TypeInv, AllProper, Proper, IsEnd, NoMessage
<1>6. Len(queue) \in Nat
  BY <1>1, Senders
<1>7. ASSUME NEW i \in 1 .. Len(queue')
      PROVE  \/ i \in 1 .. Len(queue) /\ queue'[i] = queue[i]
             \/ i = Len(queue) + 1 /\ queue'[i] = m
  BY <1>3, <1>6
<1>8. \A i \in 1 .. Len(queue) : i \in 1 .. Len(queue') /\ queue'[i] = queue[i]
  BY <1>3, <1>6
<1>9. EndLast'
  <2>1. ASSUME NEW i \in 1 .. Len(queue'), NEW j \in 1 .. Len(queue'), i < j,
               IsEnd(queue'[i])
        PROVE  queue'[j].user # queue'[i].user
    <3>1. i \in 1 .. Len(queue) /\ queue'[i] = queue[i]
      BY <1>3, <1>7, <2>1
    <3>2. CASE j \in 1 .. Len(queue) /\ queue'[j] = queue[j]
      BY <1>1, <2>1, <3>1, <3>2 DEF Order, EndLast
    <3>3. CASE queue'[j] = m
      BY <1>2, <1>4, <2>1, <3>1, <3>3
    <3>4. QED
      BY <1>7, <3>2, <3>3
  <2>2. ASSUME NEW j \in 1 .. Len(queue'), IsEnd(desc') PROVE queue'[j].user # desc'.user
    BY <1>1, <1>2, <1>3, <1>5, <1>7, <2>2 DEF Order, EndLast
  <2>3. QED
    BY <2>1, <2>2 DEF EndLast, IsEnd
<1>10. EndFollows'
  <2>1. SUFFICES ASSUME NEW i \in 1 .. Len(queue'), openerAt'[queue'[i].user] = "ended"
                 PROVE  \E j \in 1 .. Len(queue') :
                          IsEnd(queue'[j]) /\ queue'[j].user = queue'[i].user
    BY DEF EndFollows, IsEnd
  <2>2. openerAt'[t] # "ended"
    BY <1>1, <1>3
  <2>3. i \in 1 .. Len(queue) /\ queue'[i] = queue[i]
    BY <1>2, <1>7, <2>1, <2>2
  <2>4. queue[i].user \in Opener /\ queue[i].user # t
    BY <1>1, <2>1, <2>2, <2>3, Senders
  <2>5. openerAt[queue[i].user] = "ended"
    BY <1>1, <1>3, <2>1, <2>3, <2>4
  <2>6. PICK j \in 1 .. Len(queue) : IsEnd(queue[j]) /\ queue[j].user = queue[i].user
    BY <1>1, <2>3, <2>5 DEF Order, EndFollows
  <2>7. QED
    BY <1>8, <2>3, <2>6
<1>11. \A u \in Closer : Owing(u)' <=> Owing(u)
  <2>1. ASSUME NEW u PROVE EndPending(u)' <=> EndPending(u)
    <3>1. ASSUME NEW i \in 1 .. Len(queue'), IsEnd(queue'[i])
          PROVE  i \in 1 .. Len(queue) /\ queue'[i] = queue[i]
      BY <1>3, <1>7, <3>1
    <3>2. QED
      BY <1>3, <1>8, <3>1 DEF EndPending, IsEnd
  <2>2. ASSUME NEW u \in Closer PROVE Owing(u)' <=> Owing(u)
    <3>1. u \in Opener
      BY CloserFinite
    <3>2. QED
      BY <1>1, <1>3, <2>1, <3>1 DEF Owing
  <2>3. QED
    BY <2>2
<1>12. QED
  BY <1>1, <1>3, <1>9, <1>10, <1>11, CountSame DEF Order

\* An opener with a share in the open count sends its END or SHUTDOWN.
LEMMA EndCounts ==
  ASSUME IInv, NEW t \in Opener, Ends(t)
  PROVE  Order' /\ OpenCountExact'
<1>1. TypeInv /\ Order /\ OpenCountExact /\ openerAt \in [Opener -> OpenerAt]
  BY DEF IInv, TypeInv, TypeOK
<1>2. PICK m \in Message : IsEnd(m) /\ m.user = t /\ SendsTo(t, m, "ended")
  BY DEF Ends
<1>3. /\ openerAt[t] = "ending"
      /\ openerAt' = [openerAt EXCEPT ![t] = "ended"] /\ desc' = desc
      /\ UNCHANGED <<openCount, connected>>
      /\ \/ t \notin connected /\ queue' = queue
         \/ /\ t \in connected
            /\ Len(queue') = Len(queue) + 1
            /\ \A i \in 1 .. Len(queue) : queue'[i] = queue[i]
            /\ queue'[Len(queue) + 1] = m
  BY <1>2 DEF Ends, SendsTo, Sent, Place, logger
<1>4. \A i \in 1 .. Len(queue) : IsEnd(queue[i]) => queue[i].user # t
  BY <1>1, <1>3, Senders DEF Proper
<1>5. IsEnd(desc) => desc.user # t
  BY <1>1, <1>3 DEF TypeInv, AllProper, Proper, IsEnd, NoMessage
<1>6. Len(queue) \in Nat
  BY <1>1, Senders
<1>7. ASSUME NEW i \in 1 .. Len(queue')
      PROVE  \/ i \in 1 .. Len(queue) /\ queue'[i] = queue[i]
             \/ i = Len(queue) + 1 /\ queue'[i] = m
  BY <1>3, <1>6
<1>8. \A i \in 1 .. Len(queue) : i \in 1 .. Len(queue') /\ queue'[i] = queue[i]
  BY <1>3, <1>6
<1>9. EndLast'
  <2>1. ASSUME NEW i \in 1 .. Len(queue'), NEW j \in 1 .. Len(queue'), i < j,
               IsEnd(queue'[i])
        PROVE  queue'[j].user # queue'[i].user
    <3>1. i \in 1 .. Len(queue) /\ queue'[i] = queue[i]
      BY <1>3, <1>6, <1>7, <2>1
    <3>2. CASE j \in 1 .. Len(queue) /\ queue'[j] = queue[j]
      BY <1>1, <2>1, <3>1, <3>2 DEF Order, EndLast
    <3>3. CASE queue'[j] = m
      BY <1>2, <1>4, <2>1, <3>1, <3>3
    <3>4. QED
      BY <1>7, <3>2, <3>3
  <2>2. ASSUME NEW j \in 1 .. Len(queue'), IsEnd(desc') PROVE queue'[j].user # desc'.user
    BY <1>1, <1>2, <1>3, <1>5, <1>7, <2>2 DEF Order, EndLast
  <2>3. QED
    BY <2>1, <2>2 DEF EndLast, IsEnd
<1>10. t \in connected => Len(queue') \in 1 .. Len(queue') /\ queue'[Len(queue')] = m
  BY <1>3, <1>6
<1>11. EndFollows'
  <2>1. SUFFICES ASSUME NEW i \in 1 .. Len(queue'), openerAt'[queue'[i].user] = "ended"
                 PROVE  \E j \in 1 .. Len(queue') :
                          IsEnd(queue'[j]) /\ queue'[j].user = queue'[i].user
    BY DEF EndFollows, IsEnd
  <2>2. CASE queue'[i].user = t
    <3>1. t \in connected
      BY <1>1, <1>3, <1>7, <2>2, Senders DEF Proper
    <3>2. QED
      BY <1>2, <1>10, <2>2, <3>1
  <2>3. CASE queue'[i].user # t
    <3>1. i \in 1 .. Len(queue) /\ queue'[i] = queue[i]
      BY <1>2, <1>7, <2>3
    <3>2. queue[i].user \in Opener
      BY <1>1, <3>1, Senders
    <3>3. openerAt[queue[i].user] = "ended"
      BY <1>1, <1>3, <2>1, <2>3, <3>1, <3>2
    <3>4. PICK j \in 1 .. Len(queue) : IsEnd(queue[j]) /\ queue[j].user = queue[i].user
      BY <1>1, <3>1, <3>3 DEF Order, EndFollows
    <3>5. QED
      BY <1>8, <3>1, <3>4
  <2>4. QED
    BY <2>2, <2>3
<1>12. \A u \in Closer : Owing(u)' <=> Owing(u)
  <2>1. ASSUME NEW u \in Closer PROVE Owing(u)' <=> Owing(u)
    <3>1. u \in Opener
      BY CloserFinite
    <3>2. CASE u = t
      <4>1. t \in connected => EndPending(u)'
        BY <1>2, <1>10, <3>2 DEF EndPending, IsEnd
      <4>2. Owing(u)'
        BY <1>1, <1>3, <3>1, <3>2, <4>1 DEF Owing
      <4>3. Owing(u)
        BY <1>3, <3>2 DEF Owing
      <4>4. QED
        BY <4>2, <4>3
    <3>3. CASE u # t
      <4>1. EndPending(u)' <=> EndPending(u)
        BY <1>2, <1>3, <1>7, <1>8, <3>3 DEF EndPending, IsEnd
      <4>2. QED
        BY <1>1, <1>3, <3>1, <3>3, <4>1 DEF Owing
    <3>4. QED
      BY <3>2, <3>3
  <2>2. QED
    BY <2>1
<1>13. QED
  BY <1>1, <1>3, <1>9, <1>11, <1>12, CountSame DEF Order

LEMMA ProducerCounts == IInv /\ ProducersNext => IInv'
<1> SUFFICES ASSUME IInv, ProducersNext, NEW t \in Opener,
                    Opens(t) \/ Moves(t) \/ Writes(t) \/ Ends(t)
             PROVE  IInv'
  BY Shapes DEF IInv
<1>1. /\ TypeInv /\ TypeInv' /\ Order /\ OpenCountExact
      /\ openerAt \in [Opener -> OpenerAt]
  BY ProducerTypes DEF IInv, TypeInv, TypeOK
<1>2. CASE Opens(t)
  <2>1. PICK place \in {"opened", "ending"} : openerAt' = [openerAt EXCEPT ![t] = place]
    BY <1>2 DEF Opens, Place
  <2>2. /\ openerAt[t] = "fresh" /\ queue' = queue /\ desc' = desc
        /\ connected' \in {connected, connected \cup {t}}
        /\ openCount' = IF t \in Closer THEN openCount + 1 ELSE openCount
    BY <1>2 DEF Opens, logger
  <2>3. Order'
    <3>1. \A i \in 1 .. Len(queue) :
            openerAt'[queue[i].user] = "ended" => openerAt[queue[i].user] = "ended"
      BY <1>1, <2>1, <2>2, Senders
    <3>2. QED
      BY <1>1, <2>2, <3>1 DEF Order, EndLast, EndFollows, IsEnd
  <2>4. \A u : EndPending(u)' <=> EndPending(u)
    BY <2>2 DEF EndPending, IsEnd
  <2>5. \A u \in Opener \ {t} : Owing(u)' <=> Owing(u)
    BY <1>1, <2>1, <2>2, <2>4 DEF Owing
  <2>6. ~EndPending(t)
    <3>1. \A i \in 1 .. Len(queue) : queue[i].user # t
      BY <1>1, <2>2, Senders DEF Proper
    <3>2. IsEnd(desc) => desc.user # t
      BY <1>1, <2>2 DEF TypeInv, AllProper, Proper, IsEnd, NoMessage
    <3>3. QED
      BY <3>1, <3>2 DEF EndPending
  <2>7. ~Owing(t)
    BY <2>2, <2>6 DEF Owing
  <2>8. Owing(t)'
    BY <1>1, <2>1 DEF Owing
  <2>9. OpenCountExact'
    <3>1. CASE t \in Closer
      BY <1>1, <2>2, <2>5, <2>7, <2>8, <3>1, CountUp, CloserFinite
    <3>2. CASE t \notin Closer
      BY <1>1, <2>2, <2>5, <3>2, CountSame, CloserFinite
    <3>3. QED
      BY <3>1, <3>2
  <2>10. QED
    BY <1>1, <2>3, <2>9 DEF IInv
<1>3. CASE Moves(t)
  <2>1. PICK place \in {"filling", "abandoned"} : openerAt' = [openerAt EXCEPT ![t] = place]
    BY <1>3 DEF Moves, Place
  <2>2. openerAt[t] \in {"opened", "filling"}
        /\ UNCHANGED <<openCount, queue, connected, desc>>
    BY <1>3 DEF Moves, shared, logger
  <2>3. Order'
    <3>1. \A i \in 1 .. Len(queue) :
            openerAt'[queue[i].user] = "ended" => openerAt[queue[i].user] = "ended"
      BY <1>1, <2>1, <2>2, Senders
    <3>2. QED
      BY <1>1, <2>2, <3>1 DEF Order, EndLast, EndFollows, IsEnd
  <2>4. \A u : EndPending(u)' <=> EndPending(u)
    BY <2>2 DEF EndPending, IsEnd
  <2>5. \A u \in Opener : Owing(u)' <=> Owing(u)
    BY <1>1, <2>1, <2>2, <2>4 DEF Owing
  <2>6. QED
    BY <1>1, <2>2, <2>3, <2>5, CountSame, CloserFinite DEF IInv
<1>4. CASE Writes(t) \/ Ends(t)
  BY <1>1, <1>4, WriteCounts, EndCounts DEF IInv
<1>5. QED
  BY <1>2, <1>3, <1>4

LEMMA IInvStep == IInv /\ [Next]_vars => IInv'
<1>1. ASSUME IInv, UNCHANGED vars PROVE IInv'
  <2>1. TypeInv'
    BY <1>1 DEF vars, shared, logger, producers, IInv, TypeInv, TypeOK, AllProper,
                Closing, Proper
  <2>2. UNCHANGED <<openCount, queue, connected, desc, openerAt>>
    BY <1>1 DEF vars, shared, logger, producers
  <2>3. Order'
    BY <1>1, <2>2 DEF IInv, Order, EndLast, EndFollows
  <2>4. \A u \in Closer : Owing(u)' <=> Owing(u)
    BY <2>2 DEF Owing, EndPending
  <2>5. QED
    BY <1>1, <2>1, <2>2, <2>3, <2>4, CountSame DEF IInv
<1>2. QED
  BY <1>1, LoggerCounts, ProducerCounts DEF Next, ProducersNext

LEMMA Invariant == Spec => []IInv
BY IInvInit, IInvStep, PTL DEF Spec

(***************************************************************************)
(* However openers, senders and the logger's count-down interleave, the    *)
(* open count is the number of openers whose END or SHUTDOWN is still to   *)
(* be taken into account (Logging.c:66-68, 121).                           *)
(***************************************************************************)
THEOREM CountIsExact == Spec => []OpenCountExact
<1>1. IInv => OpenCountExact
  BY DEF IInv
<1>2. QED
  BY <1>1, Invariant, PTL

\* When the logger leaves its loop, nobody has a share in the count.
LEMMA NoneOwes ==
  ASSUME IInv, IInv', Next, loggerAt # "close", loggerAt' = "close"
  PROVE  /\ desc' = NoMessage /\ UNCHANGED <<queue, openerAt, connected>>
         /\ desc.type = "SHUTDOWN" \/ isShutdown
         /\ Outstanding' = {}
<1>1. EndOrShutdown
  BY DEF Next, LoggerNext, ProducerNext, Initialize, Register, CreateQueue, Receive,
         WriteBegin, WriteEnd, Close, NotifyStop, Open, Fill, Send, SendLast,
         SendUnfilled, SendEnd, Abandon, ShutdownNotify_Open, ShutdownNotify_Send,
         logger
<1>2. openCount' <= 0 /\ desc' = NoMessage /\ UNCHANGED <<queue, openerAt, connected>>
      /\ (desc.type = "SHUTDOWN" \/ isShutdown)
  BY <1>1 DEF EndOrShutdown, Handled, producers
<1>3. Outstanding' = {}
  <2>1. Cardinality(Outstanding') <= 0 /\ IsFiniteSet(Outstanding')
    BY <1>2, OutstandingOwe, CloserFinite DEF IInv, OpenCountExact
  <2>2. QED
    BY <2>1, FS_EmptySet, FS_CardinalityType
<1>4. QED
  BY <1>2, <1>3

LEMMA StopsClean ==
  ASSUME IInv, IInv', Next, loggerAt # "close", loggerAt' = "close",
         NEW p \in Counted
  PROVE  /\ openerAt[p] \in {"fresh", "ended"}
         /\ \A m \in Pending' : m # NoMessage => m.user # p
<1>1. desc' = NoMessage /\ UNCHANGED <<queue, openerAt, connected>>
  BY NoneOwes
<1>2. Outstanding' = {}
  BY NoneOwes
<1>3. ~Owing(p)' /\ p \in Opener
  BY <1>2, OutstandingOwe, CloserFinite DEF Closer
<1>4. openerAt'[p] \in OpenerAt
  BY <1>3 DEF IInv, TypeInv, TypeOK
<1>5. openerAt[p] \in {"fresh", "ended"}
  BY <1>1, <1>3, <1>4 DEF Owing, OpenerAt
<1>6. ASSUME NEW i \in 1 .. Len(queue), queue[i].user = p PROVE FALSE
  <2>1. Proper(queue[i])
    BY Senders DEF IInv
  <2>2. openerAt[p] = "ended"
    BY <1>5, <1>6, <2>1 DEF Proper
  <2>3. PICK j \in 1 .. Len(queue) : IsEnd(queue[j]) /\ queue[j].user = p
    BY <1>6, <2>2 DEF IInv, Order, EndFollows
  <2>4. EndPending(p)'
    BY <1>1, <2>3 DEF EndPending, IsEnd
  <2>5. QED
    BY <1>3, <2>4 DEF Owing
<1>7. QED
  BY <1>1, <1>5, <1>6 DEF Pending

(***************************************************************************)
(* Whatever fails, the logger leaves its loop and closes the file only     *)
(* when no message of a counted producer is on its way and none is in the  *)
(* middle of a block (Logging_main.c:83-85).                               *)
(***************************************************************************)
THEOREM StopIsClean == Spec => CleanStop
<1>1. ASSUME IInv, IInv', [Next]_vars, loggerAt # "close", loggerAt' = "close"
      PROVE  \A p \in Counted :
               /\ openerAt[p] \in {"fresh", "ended"}
               /\ \A m \in Pending' : m # NoMessage => m.user # p
  BY <1>1, StopsClean DEF vars, logger
<1>2. IInv /\ IInv' /\ [Next]_vars =>
        [loggerAt # "close" /\ loggerAt' = "close" =>
           \A p \in Counted :
             /\ openerAt[p] \in {"fresh", "ended"}
             /\ \A m \in Pending' : m # NoMessage => m.user # p]_vars
  BY <1>1
<1>3. QED
  BY <1>2, Invariant, PTL DEF Spec, CleanStop

-----------------------------------------------------------------------------
\* SHUTDOWN is on its way, or the logger has seen it.
ShutdownSeen ==
  \/ isShutdown
  \/ desc.type = "SHUTDOWN"
  \/ \E i \in 1 .. Len(queue) : queue[i].type = "SHUTDOWN"

ShutdownSent == ShutdownSeen => openerAt[Notifier] = "ended"

LEMMA ShutdownSentStep == IInv /\ ShutdownSent /\ [Next]_vars => ShutdownSent'
<1> SUFFICES ASSUME IInv, ShutdownSent, [Next]_vars PROVE ShutdownSent'
  OBVIOUS
<1>1. /\ TypeOK /\ openerAt \in [Opener -> OpenerAt] /\ Notifier \in Opener
      /\ \A i \in 1 .. Len(queue) : queue[i] \in Message
  BY DEF IInv, TypeInv, TypeOK, Opener
<1> USE DEF shared, logger, producers
<1>2. CASE Receive
  <2>1. Received /\ UNCHANGED <<isShutdown, openerAt>>
    BY <1>1, <1>2, ReceiveQueue DEF Receive
  <2>2. QED
    BY <1>1, <2>1 DEF Received, ShutdownSent, ShutdownSeen
<1>3. CASE Initialize \/ Register \/ CreateQueue \/ WriteBegin \/ WriteEnd
            \/ EndOrShutdown \/ Close \/ NotifyStop
  <2>1. UNCHANGED <<queue, openerAt>> /\ desc' \in {desc, NoMessage}
        /\ (isShutdown' => isShutdown \/ desc.type = "SHUTDOWN")
    <3>1. CASE EndOrShutdown
      <4>1. UNCHANGED <<queue, openerAt>> /\ desc' = NoMessage
            /\ isShutdown' = (isShutdown \/ desc.type = "SHUTDOWN")
        BY <3>1, Zenon DEF EndOrShutdown, Handled
      <4>2. QED
        BY <4>1
    <3>2. CASE ~EndOrShutdown
      <4>1. UNCHANGED <<queue, openerAt>> /\ desc' \in {desc, NoMessage}
            /\ isShutdown' = isShutdown
        BY <1>3, <3>2
           DEF Initialize, Register, CreateQueue, WriteBegin, WriteEnd, Close, NotifyStop
      <4>2. QED
        BY <4>1
    <3>3. QED
      BY <3>1, <3>2
  <2>2. QED
    BY <2>1 DEF ShutdownSent, ShutdownSeen, NoMessage
<1>4. ASSUME UNCHANGED logger, NEW t, NEW m \in Message, Logging_SendQueue(t, m),
             \/ openerAt'[Notifier] = openerAt[Notifier] /\ m.type # "SHUTDOWN"
             \/ openerAt'[Notifier] = "ended"
      PROVE  ShutdownSent'
  <2>1. Sent(t, m)
    BY <1>1, <1>4, SendQueue
  <2>2. ASSUME NEW i \in 1 .. Len(queue'), m.type # "SHUTDOWN",
               queue'[i].type = "SHUTDOWN"
        PROVE  ShutdownSeen
    <3>1. Len(queue) \in Nat
      BY Senders DEF IInv
    <3>2. i \in 1 .. Len(queue) /\ queue'[i] = queue[i]
      BY <2>1, <2>2, <3>1 DEF Sent
    <3>3. QED
      BY <2>2, <3>2 DEF ShutdownSeen
  <2>3. QED
    BY <1>4, <2>2 DEF ShutdownSent, ShutdownSeen
<1>5. ASSUME NEW p \in Producer, ProducerNext(p) PROVE ShutdownSent'
  <2>1. p # Notifier /\ p \in Opener
    BY <1>5, LoggingAssumption DEF Opener
  <2>2. CASE Open(p) \/ Fill(p) \/ Abandon(p)
    <3>1. UNCHANGED <<logger, queue>> /\ openerAt'[Notifier] = openerAt[Notifier]
      BY <1>1, <2>1, <2>2 DEF Open, Logging_OpenQueue, Fill, Abandon, Place
    <3>2. QED
      BY <3>1 DEF ShutdownSent, ShutdownSeen
  <2>3. CASE Send(p) \/ SendLast(p) \/ SendUnfilled(p)
    <3>1. Logging_SendQueue(p, WriteMessage(p)) /\ UNCHANGED logger
          /\ openerAt'[Notifier] = openerAt[Notifier]
      BY <1>1, <2>1, <2>3 DEF Send, SendLast, SendUnfilled, Place
    <3>2. WriteMessage(p) \in Message /\ WriteMessage(p).type # "SHUTDOWN"
      BY <1>1, MessageTypes DEF WriteMessage
    <3>3. QED
      BY <1>4, <3>1, <3>2
  <2>4. CASE SendEnd(p)
    <3>1. PICK c \in {"NULL", "junk"} : Logging_SendQueue(p, EndMessage(p, c))
      BY <2>4 DEF SendEnd
    <3>2. UNCHANGED logger /\ openerAt'[Notifier] = openerAt[Notifier]
      BY <1>1, <2>1, <2>4 DEF SendEnd, Place
    <3>3. EndMessage(p, c) \in Message /\ EndMessage(p, c).type # "SHUTDOWN"
      BY <1>1, MessageTypes DEF EndMessage
    <3>4. QED
      BY <1>4, <3>1, <3>2, <3>3
  <2>5. QED
    BY <1>5, <2>2, <2>3, <2>4 DEF ProducerNext
<1>6. CASE ShutdownNotify_Open
  BY <1>1, <1>6 DEF ShutdownNotify_Open, Logging_OpenQueue, ShutdownSent, ShutdownSeen
<1>7. CASE ShutdownNotify_Send
  <2>1. /\ Logging_SendQueue(Notifier, ShutdownMessage) /\ UNCHANGED logger
        /\ openerAt'[Notifier] = "ended"
    BY <1>1, <1>7 DEF ShutdownNotify_Send, Place
  <2>2. QED
    BY <1>1, <1>4, <2>1, MessageTypes
<1>8. CASE UNCHANGED vars
  BY <1>8 DEF vars, ShutdownSent, ShutdownSeen
<1>9. QED
  BY <1>2, <1>3, <1>5, <1>6, <1>7, <1>8 DEF Next, LoggerNext

\* The logger is asked to stop by the notifier and by nobody else.
LEMMA ShutdownIsSent == Spec => []ShutdownSent
<1>1. Init => ShutdownSent
  BY DEF Init, ShutdownSent, ShutdownSeen, NoMessage
<1>2. QED
  BY <1>1, ShutdownSentStep, Invariant, PTL DEF Spec

-----------------------------------------------------------------------------
(* The blocks *)

IsBlock(m, p) == m.type = "WRITE" /\ m.user = p

\* Blocks have numbers from 0 on; what a message adds to the blocks so far.
Adds(m, p) == IF IsBlock(m, p) THEN 1 ELSE 0

\* The blocks p has sent.
Passed(p) == IF openerAt[p] \in {"ending", "ended"} THEN seqId[p] + 1 ELSE seqId[p]

(***************************************************************************)
(* before[i] is the number of p's blocks up to the i-th message of the     *)
(* queue, and so the number of the next one.                               *)
(***************************************************************************)
Counting(p, before) ==
  /\ before[0] = Len(handed[p]) + Adds(desc, p)
  /\ \A i \in 1 .. Len(queue) : before[i] = before[i - 1] + Adds(queue[i], p)
  /\ \A i \in 0 .. Len(queue) :
       /\ before[i] <= Passed(p) /\ Passed(p) <= before[i] + Len(queue) - i
       /\ (\A j \in 1 .. Len(queue) : i < j => ~IsBlock(queue[j], p))
            => before[i] = Passed(p)

\* A block's message points at the slot of its number.
Pointing(p, before) ==
  /\ IsBlock(desc, p) => desc.ptr = Len(handed[p]) % NumBuffers
  /\ \A i \in 1 .. Len(queue) :
       IsBlock(queue[i], p) => queue[i].ptr = before[i - 1] % NumBuffers

InStep(p) ==
  \E before \in [0 .. Len(queue) -> Nat] : Counting(p, before) /\ Pointing(p, before)

Numbered == \A p \in Producer \cap connected : InStep(p)

Fresh ==
  \A p \in Producer :
    /\ p \notin connected => Len(handed[p]) = 0
    /\ openerAt[p] = "fresh" => seqId[p] = 0 /\ p \notin connected

\* The block that is being written comes before its producer's END.
DescFollows ==
  \A p \in Producer : IsBlock(desc, p) /\ openerAt[p] = "ended" =>
    \E j \in 1 .. Len(queue) : IsEnd(queue[j]) /\ queue[j].user = p

BlockInv == Numbered /\ Fresh /\ DescFollows

LEMMA BlockInvInit == Init => BlockInv
<1> SUFFICES ASSUME Init PROVE BlockInv
  OBVIOUS
<1>1. connected = {} /\ desc = NoMessage /\ queue = <<>>
      /\ handed = [p \in Producer |-> <<>>] /\ seqId = [p \in Producer |-> 0]
  BY DEF Init
<1>2. Numbered /\ Fresh
  BY <1>1 DEF Numbered, Fresh
<1>3. DescFollows
  BY <1>1 DEF DescFollows, IsBlock, NoMessage
<1>4. QED
  BY <1>2, <1>3 DEF BlockInv

-----------------------------------------------------------------------------
(* What the steps do to the numbers *)

\* The queue and p's blocks stay, or the block in hand has been written.
LEMMA NumbersKept ==
  ASSUME NEW p \in Producer, NEW before \in [0 .. Len(queue) -> Nat],
         Counting(p, before), Pointing(p, before),
         queue' = queue, Passed(p)' = Passed(p),
         Len(handed'[p]) + Adds(desc', p) = Len(handed[p]) + Adds(desc, p),
         IsBlock(desc', p) => desc'.ptr = Len(handed'[p]) % NumBuffers
  PROVE  InStep(p)'
<1>1. Counting(p, before)'
  BY DEF Counting, Adds, IsBlock
<1>2. Pointing(p, before)'
  BY DEF Pointing, Adds, IsBlock
<1>3. QED
  BY <1>1, <1>2 DEF InStep

\* The first message is received.
LEMMA NumbersReceived ==
  ASSUME NEW p \in Producer, NEW before \in [0 .. Len(queue) -> Nat],
         Counting(p, before), Pointing(p, before), Received, ~IsBlock(desc, p),
         Passed(p)' = Passed(p), Passed(p) \in Nat, handed' = handed,
         Len(handed[p]) \in Nat
  PROVE  InStep(p)'
<1>1. /\ Len(queue) \in Nat \ {0} /\ desc' = queue[1] /\ Len(queue') = Len(queue) - 1
      /\ \A i \in 1 .. Len(queue') : i + 1 \in 1 .. Len(queue) /\ queue'[i] = queue[i + 1]
  BY DEF Received
<1>2. PICK after \in [0 .. Len(queue') -> Nat] :
        \A i \in 0 .. Len(queue') : after[i] = before[i + 1]
  <2>1. \A i \in 0 .. Len(queue') : i + 1 \in 0 .. Len(queue)
    BY <1>1
  <2>2. [i \in 0 .. Len(queue') |-> before[i + 1]] \in [0 .. Len(queue') -> Nat]
    BY <2>1
  <2>3. QED
    BY <2>2
<1>3. \A i \in 0 .. Len(queue') : after[i] = before[i + 1] /\ i + 1 \in 0 .. Len(queue)
  BY <1>1, <1>2
<1>4. before[1] = before[0] + Adds(queue[1], p) /\ before[0] = Len(handed[p])
      /\ 1 \in 1 .. Len(queue)
  <2>1. 1 \in 1 .. Len(queue) /\ 1 - 1 = 0
    BY <1>1
  <2>2. before[1] = before[0] + Adds(queue[1], p)
    BY <2>1 DEF Counting
  <2>3. Adds(desc, p) = 0
    BY DEF Adds
  <2>4. QED
    BY <2>1, <2>2, <2>3 DEF Counting
<1>5. after[0] = Len(handed'[p]) + Adds(desc', p)
  <2>1. after[0] = before[0 + 1]
    BY <1>1, <1>3
  <2>2. 0 + 1 = 1
    OBVIOUS
  <2>3. QED
    BY <1>1, <1>4, <2>1, <2>2
<1>6. ASSUME NEW i \in 1 .. Len(queue')
      PROVE  /\ after[i] = after[i - 1] + Adds(queue'[i], p)
             /\ IsBlock(queue'[i], p) => queue'[i].ptr = after[i - 1] % NumBuffers
  <2>1. /\ i + 1 \in 1 .. Len(queue) /\ queue'[i] = queue[i + 1]
        /\ after[i] = before[i + 1] /\ after[i - 1] = before[i] /\ (i + 1) - 1 = i
    BY <1>1, <1>3
  <2>2. /\ before[i + 1] = before[(i + 1) - 1] + Adds(queue[i + 1], p)
        /\ IsBlock(queue[i + 1], p) => queue[i + 1].ptr = before[(i + 1) - 1] % NumBuffers
    BY <2>1 DEF Counting, Pointing
  <2>3. QED
    BY <2>1, <2>2
<1>7. ASSUME NEW i \in 0 .. Len(queue')
      PROVE  /\ after[i] <= Passed(p) /\ Passed(p) <= after[i] + Len(queue') - i
             /\ (\A j \in 1 .. Len(queue') : i < j => ~IsBlock(queue'[j], p))
                  => after[i] = Passed(p)
  <2>1. i + 1 \in 0 .. Len(queue) /\ after[i] = before[i + 1] /\ before[i + 1] \in Nat
    BY <1>1, <1>3
  <2>2. /\ before[i + 1] <= Passed(p)
        /\ Passed(p) <= before[i + 1] + Len(queue) - (i + 1)
        /\ (\A j \in 1 .. Len(queue) : i + 1 < j => ~IsBlock(queue[j], p))
             => before[i + 1] = Passed(p)
    BY <2>1 DEF Counting
  <2>3. ASSUME \A j \in 1 .. Len(queue') : i < j => ~IsBlock(queue'[j], p),
               NEW j \in 1 .. Len(queue), i + 1 < j
        PROVE  ~IsBlock(queue[j], p)
    <3>1. j - 1 \in 1 .. Len(queue') /\ i < j - 1 /\ (j - 1) + 1 = j
      BY <1>1, <2>3
    <3>2. queue'[j - 1] = queue[j]
      BY <1>1, <3>1
    <3>3. QED
      BY <2>3, <3>1, <3>2
  <2>4. Passed(p) <= after[i] + Len(queue') - i
    BY <1>1, <2>1, <2>2
  <2>5. QED
    BY <2>1, <2>2, <2>3, <2>4
<1>8. IsBlock(desc', p) => desc'.ptr = Len(handed'[p]) % NumBuffers
  BY <1>1, <1>4 DEF Pointing
<1>9. Counting(p, after)'
  BY <1>5, <1>6, <1>7 DEF Counting, Adds, IsBlock
<1>10. Pointing(p, after)'
  BY <1>6, <1>8 DEF Pointing, IsBlock
<1>11. QED
  BY <1>2, <1>9, <1>10 DEF InStep

\* A message joins the queue, p's next block or one that is not p's.
LEMMA NumbersSent ==
  ASSUME NEW p \in Producer, NEW before \in [0 .. Len(queue) -> Nat],
         Counting(p, before), Pointing(p, before), NEW m, Len(queue) \in Nat,
         Len(queue') = Len(queue) + 1,
         \A i \in 1 .. Len(queue) : queue'[i] = queue[i],
         queue'[Len(queue) + 1] = m,
         handed' = handed, desc' = desc, Passed(p) \in Nat,
         Passed(p)' = Passed(p) + Adds(m, p),
         IsBlock(m, p) => m.ptr = Passed(p) % NumBuffers
  PROVE  InStep(p)'
<1>1. Adds(m, p) \in {0, 1} /\ (Adds(m, p) = 0 <=> ~IsBlock(m, p))
  BY DEF Adds
<1>2. PICK after \in [0 .. Len(queue') -> Nat] :
        \A i \in 0 .. Len(queue') :
          after[i] = IF i <= Len(queue) THEN before[i] ELSE Passed(p) + Adds(m, p)
  <2>1. [i \in 0 .. Len(queue') |->
           IF i <= Len(queue) THEN before[i] ELSE Passed(p) + Adds(m, p)]
          \in [0 .. Len(queue') -> Nat]
    BY <1>1
  <2>2. QED
    BY <2>1
<1>3. /\ \A i \in 0 .. Len(queue) : after[i] = before[i] /\ i \in 0 .. Len(queue')
      /\ after[Len(queue) + 1] = Passed(p) + Adds(m, p)
  BY <1>2
<1>4. before[Len(queue)] = Passed(p)
  BY DEF Counting
<1>5. ASSUME NEW i \in 1 .. Len(queue')
      PROVE  /\ after[i] = after[i - 1] + Adds(queue'[i], p)
             /\ IsBlock(queue'[i], p) => queue'[i].ptr = after[i - 1] % NumBuffers
  <2>1. CASE i \in 1 .. Len(queue)
    <3>1. after[i] = before[i] /\ after[i - 1] = before[i - 1] /\ queue'[i] = queue[i]
      BY <1>3, <2>1
    <3>2. QED
      BY <2>1, <3>1 DEF Counting, Pointing
  <2>2. CASE i = Len(queue) + 1
    <3>1. after[i] = Passed(p) + Adds(m, p) /\ after[i - 1] = Passed(p) /\ queue'[i] = m
      BY <1>3, <1>4, <2>2
    <3>2. QED
      BY <3>1
  <2>3. QED
    BY <2>1, <2>2
<1>6. ASSUME NEW i \in 0 .. Len(queue')
      PROVE  /\ after[i] <= Passed(p)' /\ Passed(p)' <= after[i] + Len(queue') - i
             /\ (\A j \in 1 .. Len(queue') : i < j => ~IsBlock(queue'[j], p))
                  => after[i] = Passed(p)'
  <2>1. CASE i \in 0 .. Len(queue)
    <3>1. /\ after[i] = before[i] /\ before[i] \in Nat
          /\ before[i] <= Passed(p) /\ Passed(p) <= before[i] + Len(queue) - i
          /\ (\A j \in 1 .. Len(queue) : i < j => ~IsBlock(queue[j], p))
               => before[i] = Passed(p)
      BY <1>3, <2>1 DEF Counting
    <3>2. after[i] <= Passed(p)' /\ Passed(p)' <= after[i] + Len(queue') - i
      BY <1>1, <2>1, <3>1
    <3>3. ASSUME \A j \in 1 .. Len(queue') : i < j => ~IsBlock(queue'[j], p)
          PROVE  after[i] = Passed(p)'
      <4>1. ~IsBlock(m, p)
        <5>1. Len(queue) + 1 \in 1 .. Len(queue') /\ i < Len(queue) + 1
          BY <2>1
        <5>2. QED
          BY <3>3, <5>1
      <4>2. \A j \in 1 .. Len(queue) : i < j => ~IsBlock(queue[j], p)
        <5>1. \A j \in 1 .. Len(queue) : j \in 1 .. Len(queue') /\ queue'[j] = queue[j]
          OBVIOUS
        <5>2. QED
          BY <3>3, <5>1
      <4>3. QED
        BY <1>1, <3>1, <4>1, <4>2
    <3>4. QED
      BY <3>2, <3>3
  <2>2. CASE i = Len(queue) + 1
    BY <1>1, <1>3, <2>2
  <2>3. QED
    BY <2>1, <2>2
<1>7. after[0] = before[0]
  BY <1>3
<1>8. Counting(p, after)'
  BY <1>5, <1>6, <1>7 DEF Counting, Adds, IsBlock
<1>9. Pointing(p, after)'
  BY <1>5 DEF Pointing, IsBlock
<1>10. QED
  BY <1>2, <1>8, <1>9 DEF InStep

LEMMA BlockTypes ==
  ASSUME TypeOK, NEW p \in Producer
  PROVE  /\ Passed(p) \in Nat /\ Len(handed[p]) \in Nat /\ seqId[p] \in Nat
         /\ p \in Opener
         /\ \A k \in [first: Nat, last: Nat] :
              Len(Append(handed[p], k)) = Len(handed[p]) + 1
<1>1. seqId[p] \in Nat /\ handed[p] \in Seq([first: Nat, last: Nat])
  BY LoggingAssumption DEF TypeOK
<1>2. Len(handed[p]) \in Nat
  BY <1>1
<1>3. \A k \in [first: Nat, last: Nat] :
        Len(Append(handed[p], k)) = Len(handed[p]) + 1
  BY <1>1
<1>4. QED
  BY <1>1, <1>2, <1>3 DEF Passed, Opener

\* A block in hand: its producer is connected, and the logger works on it.
LEMMA BlockInHand ==
  ASSUME TypeInv, NEW p, IsBlock(desc, p)
  PROVE  p \in Producer \cap connected /\ loggerAt \in {"dispatch", "write"}
BY DEF TypeInv, AllProper, Proper, IsBlock, NoMessage

LEMMA QuietBlocks ==
  ASSUME BlockInv, UNCHANGED <<queue, connected, handed, openerAt, seqId>>,
         desc' = desc \/ \A p : ~IsBlock(desc, p) /\ ~IsBlock(desc', p)
  PROVE  BlockInv'
<1>1. ASSUME NEW p \in Producer \cap connected PROVE InStep(p)'
  <2>1. PICK before \in [0 .. Len(queue) -> Nat] : Counting(p, before) /\ Pointing(p, before)
    BY DEF BlockInv, Numbered, InStep
  <2>2. Adds(desc', p) = Adds(desc, p)
    BY DEF Adds
  <2>3. IsBlock(desc', p) => desc'.ptr = Len(handed'[p]) % NumBuffers
    BY <2>1 DEF Pointing
  <2>4. QED
    BY <2>1, <2>2, <2>3, NumbersKept DEF Passed
<1>2. Fresh'
  BY DEF BlockInv, Fresh
<1>3. DescFollows'
  BY DEF BlockInv, DescFollows, IsBlock, IsEnd
<1>4. QED
  BY <1>1, <1>2, <1>3 DEF BlockInv, Numbered

LEMMA ReceiveBlocks == ASSUME IInv, BlockInv, Receive PROVE BlockInv'
<1>1. Received
  BY ReceiveQueue DEF IInv, TypeInv
<1>2. /\ UNCHANGED <<connected, handed, openerAt, seqId>>
      /\ \A p : ~IsBlock(desc, p)
  BY DEF Receive, producers, IInv, TypeInv, AllProper, IsBlock, NoMessage
<1>3. ASSUME NEW p \in Producer \cap connected PROVE InStep(p)'
  <2>1. PICK before \in [0 .. Len(queue) -> Nat] : Counting(p, before) /\ Pointing(p, before)
    BY DEF BlockInv, Numbered, InStep
  <2>2. Passed(p)' = Passed(p)
    BY <1>2 DEF Passed
  <2>3. Passed(p) \in Nat /\ Len(handed[p]) \in Nat
    BY BlockTypes DEF IInv, TypeInv
  <2>4. QED
    BY <1>1, <1>2, <2>1, <2>2, <2>3, NumbersReceived
<1>4. Fresh'
  BY <1>2 DEF BlockInv, Fresh
<1>5. ASSUME NEW p \in Producer, IsBlock(desc', p), openerAt'[p] = "ended"
      PROVE  \E j \in 1 .. Len(queue') : IsEnd(queue'[j]) /\ queue'[j].user = p
  <2>1. /\ desc' = queue[1] /\ Len(queue) \in Nat \ {0}
        /\ Len(queue') = Len(queue) - 1
        /\ \A i \in 1 .. Len(queue') : queue'[i] = queue[i + 1]
    BY <1>1 DEF Received
  <2>2. 1 \in 1 .. Len(queue)
    BY <2>1
  <2>3. PICK j \in 1 .. Len(queue) : IsEnd(queue[j]) /\ queue[j].user = p
    BY <1>2, <1>5, <2>1, <2>2 DEF IInv, Order, EndFollows, IsBlock
  <2>4. j # 1
    BY <1>5, <2>1, <2>3 DEF IsEnd, IsBlock
  <2>5. j - 1 \in 1 .. Len(queue') /\ (j - 1) + 1 = j
    BY <2>1, <2>4
  <2>6. queue'[j - 1] = queue[j]
    BY <2>1, <2>5
  <2>7. QED
    BY <2>3, <2>5, <2>6
<1>6. DescFollows'
  BY <1>5 DEF DescFollows, IsBlock, IsEnd
<1>7. QED
  BY <1>2, <1>3, <1>4, <1>6 DEF BlockInv, Numbered

LEMMA WriteEndBlocks == ASSUME IInv, BlockInv, WriteEnd PROVE BlockInv'
<1>1. /\ UNCHANGED <<queue, connected, openerAt, seqId>> /\ desc' = NoMessage
      /\ \A p : ~IsBlock(desc', p)
  BY DEF WriteEnd, shared, producers, IsBlock, NoMessage
<1>2. PICK u \in Producer \cap connected : IsBlock(desc, u)
  <2>1. IsBlock(desc, desc.user)
    BY DEF WriteEnd, IInv, TypeInv, AllProper, IsBlock
  <2>2. QED
    BY <2>1, BlockInHand DEF IInv
<1>3. /\ \A p \in Producer \ {u} : handed'[p] = handed[p] /\ ~IsBlock(desc, p)
      /\ Len(handed'[u]) = Len(handed[u]) + 1
      /\ Len(handed[u]) \in Nat
  <2>1. TypeOK /\ handed \in [Producer -> Seq([first: Nat, last: Nat])]
    BY DEF IInv, TypeInv, TypeOK
  <2>2. desc.user = u
    BY <1>2 DEF IsBlock
  <2>3. [first |-> first, last |-> slot[u][desc.ptr]] \in [first: Nat, last: Nat]
    <3>1. desc \in Message
      BY DEF WriteEnd, IInv, TypeInv, AllProper
    <3>2. desc.ptr \in 0 .. NumBuffers - 1
      BY <3>1 DEF Message
    <3>3. first \in Nat /\ slot[u][desc.ptr] \in Nat
      BY <2>1, <3>2, LoggingAssumption DEF TypeOK
    <3>4. QED
      BY <3>3
  <2>4. handed'[u] = Append(handed[u], [first |-> first, last |-> slot[u][desc.ptr]])
    BY <2>1, <2>2 DEF WriteEnd
  <2>5. \A p \in Producer \ {u} : handed'[p] = handed[p]
    BY <2>1, <2>2 DEF WriteEnd
  <2>6. QED
    BY <2>1, <2>2, <2>3, <2>4, <2>5, BlockTypes DEF IsBlock
<1>4. ASSUME NEW p \in Producer \cap connected PROVE InStep(p)'
  <2>1. PICK before \in [0 .. Len(queue) -> Nat] : Counting(p, before) /\ Pointing(p, before)
    BY DEF BlockInv, Numbered, InStep
  <2>2. Len(handed'[p]) + Adds(desc', p) = Len(handed[p]) + Adds(desc, p)
    BY <1>1, <1>2, <1>3 DEF Adds
  <2>3. QED
    BY <1>1, <2>1, <2>2, NumbersKept DEF Passed
<1>5. Fresh'
  BY <1>1, <1>2, <1>3 DEF BlockInv, Fresh
<1>6. DescFollows'
  BY <1>1 DEF DescFollows, IsBlock
<1>7. QED
  BY <1>1, <1>4, <1>5, <1>6 DEF BlockInv, Numbered

LEMMA LoggerBlocks == IInv /\ BlockInv /\ LoggerNext => BlockInv'
<1> SUFFICES ASSUME IInv, BlockInv, LoggerNext PROVE BlockInv'
  OBVIOUS
<1>1. CASE Initialize \/ Register \/ CreateQueue \/ Close \/ NotifyStop \/ WriteBegin
  BY <1>1, QuietBlocks
     DEF Initialize, Register, CreateQueue, Close, NotifyStop, WriteBegin, shared,
         producers
<1>2. CASE EndOrShutdown
  <2>1. UNCHANGED <<queue, connected, handed, openerAt, seqId>>
    BY <1>2 DEF EndOrShutdown, Handled, producers
  <2>2. \A p : ~IsBlock(desc, p) /\ ~IsBlock(desc', p)
    BY <1>2 DEF EndOrShutdown, Handled, IsBlock, NoMessage
  <2>3. QED
    BY <2>1, <2>2, QuietBlocks
<1>3. QED
  BY <1>1, <1>2, ReceiveBlocks, WriteEndBlocks DEF LoggerNext

-----------------------------------------------------------------------------
(* The producers and the notifier *)

\* An opener opens, begins a block or gives up: nothing is sent.
LEMMA MoveBlocks ==
  ASSUME IInv, BlockInv, NEW t \in Opener, NEW place \in OpenerAt \ {"fresh", "ended"},
         Place(t, place), UNCHANGED <<queue, seqId>>, UNCHANGED logger,
         connected' = connected
           \/ (openerAt[t] = "fresh" /\ connected' \subseteq connected \cup {t}
               /\ connected \subseteq connected'),
         t \in Producer => Passed(t)' = Passed(t)
  PROVE  BlockInv'
<1>1. /\ TypeInv /\ openerAt \in [Opener -> OpenerAt] /\ UNCHANGED <<handed, desc>>
      /\ \A p \in Producer : p \in Opener
  BY DEF IInv, TypeInv, TypeOK, logger, Opener
<1>2. /\ \A p \in Opener \ {t} : openerAt'[p] = openerAt[p]
      /\ openerAt'[t] = place
  BY <1>1 DEF Place
<1>3. ASSUME NEW p \in Producer PROVE Passed(p)' = Passed(p)
  BY <1>1, <1>2 DEF Passed
<1>4. ASSUME NEW p \in Producer \cap connected' PROVE InStep(p)'
  <2>1. CASE p \in connected
    <3>1. PICK before \in [0 .. Len(queue) -> Nat] :
            Counting(p, before) /\ Pointing(p, before)
      BY <2>1 DEF BlockInv, Numbered, InStep
    <3>2. IsBlock(desc', p) => desc'.ptr = Len(handed'[p]) % NumBuffers
      BY <1>1, <3>1 DEF Pointing
    <3>3. QED
      BY <1>1, <1>3, <3>1, <3>2, NumbersKept
  <2>2. CASE p \notin connected
    <3>1. /\ p = t /\ openerAt[p] = "fresh" /\ seqId[p] = 0 /\ Len(handed[p]) = 0
          /\ Len(queue) \in Nat
      BY <1>1, <2>2, Senders DEF BlockInv, Fresh
    <3>2. \A i \in 1 .. Len(queue) : ~IsBlock(queue[i], p)
      BY <1>1, <2>2, Senders DEF Proper, IsBlock
    <3>3. ~IsBlock(desc, p)
      BY <1>1, <2>2, BlockInHand
    <3>4. Passed(p) = 0
      BY <3>1 DEF Passed
    <3>5. PICK before \in [0 .. Len(queue) -> Nat] :
            \A i \in 0 .. Len(queue) : before[i] = 0
      <4>1. [i \in 0 .. Len(queue) |-> 0] \in [0 .. Len(queue) -> Nat]
        OBVIOUS
      <4>2. QED
        BY <4>1
    <3>6. Counting(p, before)
      <4>1. before[0] = Len(handed[p]) + Adds(desc, p)
        BY <3>1, <3>3, <3>5 DEF Adds
      <4>2. \A i \in 1 .. Len(queue) : before[i] = before[i - 1] + Adds(queue[i], p)
        BY <3>1, <3>2, <3>5 DEF Adds
      <4>3. \A i \in 0 .. Len(queue) :
              before[i] = 0 /\ 0 <= before[i] + Len(queue) - i
        BY <3>1, <3>5
      <4>4. QED
        BY <3>4, <4>1, <4>2, <4>3 DEF Counting
    <3>7. Pointing(p, before)
      BY <3>2, <3>3 DEF Pointing
    <3>8. QED
      BY <1>1, <1>3, <3>3, <3>6, <3>7, NumbersKept
  <2>3. QED
    BY <2>1, <2>2
<1>5. Fresh'
  BY <1>1, <1>2 DEF BlockInv, Fresh
<1>6. DescFollows'
  <2>1. SUFFICES ASSUME NEW p \in Producer, IsBlock(desc, p), openerAt'[p] = "ended"
                 PROVE  \E j \in 1 .. Len(queue) : IsEnd(queue[j]) /\ queue[j].user = p
    BY <1>1 DEF DescFollows, IsBlock, IsEnd
  <2>2. openerAt[p] = "ended"
    BY <1>1, <1>2, <2>1
  <2>3. QED
    BY <2>1, <2>2 DEF BlockInv, DescFollows
<1>7. QED
  BY <1>4, <1>5, <1>6 DEF BlockInv, Numbered

\* A message is sent, or lost for want of a descriptor.
LEMMA SendBlocks ==
  ASSUME IInv, BlockInv, NEW t \in Opener, NEW m \in Message,
         NEW place \in OpenerAt \ {"fresh"},
         Sent(t, m), m.user = t, Place(t, place), UNCHANGED logger,
         t \in Producer => Passed(t)' = Passed(t) + Adds(m, t),
         IsBlock(m, t) => m.ptr = Passed(t) % NumBuffers,
         \A p \in Producer \ {t} : seqId'[p] = seqId[p],
         place = "ended" => IsEnd(m)
  PROVE  BlockInv'
<1>1. /\ TypeInv /\ openerAt \in [Opener -> OpenerAt]
      /\ UNCHANGED <<handed, desc, connected>> /\ Len(queue) \in Nat
      /\ \A p \in Producer : p \in Opener
  BY Senders DEF IInv, TypeInv, TypeOK, logger, Opener, Sent
<1>2. /\ \A p \in Opener \ {t} : openerAt'[p] = openerAt[p]
      /\ openerAt'[t] = place
  BY <1>1 DEF Place
<1>3. \/ t \notin connected /\ queue' = queue
      \/ /\ t \in connected /\ Len(queue') = Len(queue) + 1
         /\ \A i \in 1 .. Len(queue) : queue'[i] = queue[i]
         /\ queue'[Len(queue) + 1] = m
  BY DEF Sent
<1>4. ASSUME NEW p \in Producer \ {t} PROVE Passed(p)' = Passed(p) /\ ~IsBlock(m, p)
  BY <1>1, <1>2 DEF Passed, IsBlock
<1>5. ASSUME NEW p \in Producer \cap connected PROVE InStep(p)'
  <2>1. PICK before \in [0 .. Len(queue) -> Nat] : Counting(p, before) /\ Pointing(p, before)
    BY <1>5 DEF BlockInv, Numbered, InStep
  <2>2. Passed(p) \in Nat
    BY <1>1, BlockTypes DEF TypeInv
  <2>3. CASE t \in connected
    <3>1. Passed(p)' = Passed(p) + Adds(m, p)
      BY <1>4, <2>2 DEF Adds
    <3>2. IsBlock(m, p) => m.ptr = Passed(p) % NumBuffers
      BY <1>4
    <3>3. QED
      BY <1>1, <1>3, <2>1, <2>2, <2>3, <3>1, <3>2, NumbersSent
  <2>4. CASE t \notin connected
    <3>1. Passed(p)' = Passed(p) /\ queue' = queue
      BY <1>3, <1>4, <1>5, <2>4
    <3>2. IsBlock(desc', p) => desc'.ptr = Len(handed'[p]) % NumBuffers
      BY <1>1, <2>1 DEF Pointing
    <3>3. QED
      BY <1>1, <2>1, <3>1, <3>2, NumbersKept
  <2>5. QED
    BY <2>3, <2>4
<1>6. Fresh'
  BY <1>1, <1>2 DEF BlockInv, Fresh
<1>7. ASSUME NEW p \in Producer, IsBlock(desc, p), openerAt'[p] = "ended"
      PROVE  \E j \in 1 .. Len(queue') : IsEnd(queue'[j]) /\ queue'[j].user = p
  <2>1. CASE p = t
    <3>1. IsEnd(m) /\ t \in connected
      BY <1>1, <1>2, <1>7, <2>1, BlockInHand
    <3>2. Len(queue) + 1 \in 1 .. Len(queue') /\ queue'[Len(queue) + 1] = m
      BY <1>1, <1>3, <3>1
    <3>3. QED
      BY <2>1, <3>1, <3>2
  <2>2. CASE p # t
    <3>1. PICK j \in 1 .. Len(queue) : IsEnd(queue[j]) /\ queue[j].user = p
      BY <1>1, <1>2, <1>7, <2>2 DEF BlockInv, DescFollows
    <3>2. j \in 1 .. Len(queue') /\ queue'[j] = queue[j]
      BY <1>1, <1>3
    <3>3. QED
      BY <3>1, <3>2
  <2>3. QED
    BY <2>1, <2>2
<1>8. DescFollows'
  BY <1>1, <1>7 DEF DescFollows, IsBlock, IsEnd
<1>9. QED
  BY <1>1, <1>5, <1>6, <1>8 DEF BlockInv, Numbered

LEMMA ProducerBlocks == IInv /\ BlockInv /\ ProducersNext => BlockInv'
<1> SUFFICES ASSUME IInv, BlockInv, ProducersNext PROVE BlockInv'
  OBVIOUS
<1>1. /\ TypeOK /\ openerAt \in [Opener -> OpenerAt] /\ Notifier \in Opener
      /\ \A p \in Producer : p \in Opener /\ p # Notifier
  BY LoggingAssumption DEF IInv, TypeInv, TypeOK, Opener
<1>2. /\ \A p \in Producer : WriteMessage(p) \in Message
      /\ \A p \in Producer, c \in {"NULL", "junk"} : EndMessage(p, c) \in Message
      /\ ShutdownMessage \in Message
  BY <1>1, MessageTypes
<1>3. ASSUME NEW p \in Producer
      PROVE  /\ WriteMessage(p).user = p /\ Adds(WriteMessage(p), p) = 1
             /\ WriteMessage(p).ptr = seqId[p] % NumBuffers
             /\ \A c : /\ EndMessage(p, c).user = p /\ IsEnd(EndMessage(p, c))
                      /\ Adds(EndMessage(p, c), p) = 0 /\ ~IsBlock(EndMessage(p, c), p)
             /\ seqId[p] \in Nat
  BY <1>1, BlockTypes DEF WriteMessage, EndMessage, Adds, IsBlock, IsEnd
<1>4. ASSUME NEW p \in Producer, ProducerNext(p) PROVE BlockInv'
  <2>1. CASE Open(p)
    <3>1. /\ openerAt[p] = "fresh" /\ Place(p, "opened") /\ UNCHANGED logger
          /\ UNCHANGED <<queue, seqId>>
          /\ connected \subseteq connected' /\ connected' \subseteq connected \cup {p}
      BY <2>1 DEF Open, Logging_OpenQueue
    <3>2. Passed(p)' = Passed(p)
      BY <1>1, <3>1 DEF Place, Passed
    <3>3. "opened" \in OpenerAt \ {"fresh", "ended"}
      BY DEF OpenerAt
    <3>4. QED
      BY <1>1, <3>1, <3>2, <3>3, MoveBlocks
  <2>2. CASE Fill(p) \/ Abandon(p)
    <3>1. PICK place \in {"filling", "abandoned"} : Place(p, place)
      BY <2>2 DEF Fill, Abandon
    <3>2. /\ openerAt[p] \in {"opened", "filling"} /\ UNCHANGED logger
          /\ UNCHANGED <<queue, seqId, connected>>
      BY <2>2 DEF Fill, Abandon, shared
    <3>3. Passed(p)' = Passed(p)
      BY <1>1, <3>1, <3>2 DEF Place, Passed
    <3>4. place \in OpenerAt \ {"fresh", "ended"}
      BY <3>1 DEF OpenerAt
    <3>5. QED
      BY <1>1, <3>1, <3>2, <3>3, <3>4, MoveBlocks
  <2>3. CASE Send(p)
    <3>1. Sent(p, WriteMessage(p))
      BY <1>1, <1>2, <2>3, SendQueue DEF Send
    <3>2. /\ openerAt[p] = "filling" /\ Place(p, "opened") /\ UNCHANGED logger
          /\ seqId' = [seqId EXCEPT ![p] = @ + 1] /\ seqId \in [Producer -> 0 .. MaxSeq]
      BY <1>1, <2>3 DEF Send, TypeOK
    <3>3. Passed(p)' = Passed(p) + 1 /\ Passed(p) = seqId[p]
      BY <1>1, <3>2 DEF Place, Passed
    <3>4. \A q \in Producer \ {p} : seqId'[q] = seqId[q]
      BY <3>2
    <3>5. "opened" \in OpenerAt \ {"fresh"}
      BY DEF OpenerAt
    <3>6. QED
      BY <1>1, <1>2, <1>3, <3>1, <3>2, <3>3, <3>4, <3>5, SendBlocks
  <2>4. CASE SendLast(p) \/ SendUnfilled(p)
    <3>1. Sent(p, WriteMessage(p))
      BY <1>1, <1>2, <2>4, SendQueue DEF SendLast, SendUnfilled
    <3>2. /\ openerAt[p] \in {"opened", "filling"} /\ Place(p, "ending")
          /\ UNCHANGED logger /\ seqId' = seqId
      BY <2>4 DEF SendLast, SendUnfilled
    <3>3. Passed(p)' = Passed(p) + 1 /\ Passed(p) = seqId[p]
      BY <1>1, <3>2 DEF Place, Passed
    <3>4. "ending" \in OpenerAt \ {"fresh"}
      BY DEF OpenerAt
    <3>5. QED
      BY <1>1, <1>2, <1>3, <3>1, <3>2, <3>3, <3>4, SendBlocks
  <2>5. CASE SendEnd(p)
    <3>1. PICK c \in {"NULL", "junk"} : Logging_SendQueue(p, EndMessage(p, c))
      BY <2>5 DEF SendEnd
    <3>2. Sent(p, EndMessage(p, c))
      BY <1>1, <1>2, <3>1, SendQueue
    <3>3. /\ openerAt[p] = "ending" /\ Place(p, "ended")
          /\ UNCHANGED logger /\ seqId' = seqId
      BY <2>5 DEF SendEnd
    <3>4. Passed(p)' = Passed(p) + 0
      BY <1>1, <1>3, <3>3 DEF Place, Passed
    <3>5. "ended" \in OpenerAt \ {"fresh"}
      BY DEF OpenerAt
    <3>6. QED
      BY <1>1, <1>2, <1>3, <3>2, <3>3, <3>4, <3>5, SendBlocks
  <2>6. QED
    BY <1>4, <2>1, <2>2, <2>3, <2>4, <2>5 DEF ProducerNext
<1>5. CASE ShutdownNotify_Open
  <2>1. /\ openerAt[Notifier] = "fresh" /\ Place(Notifier, "ending") /\ UNCHANGED logger
        /\ UNCHANGED <<queue, seqId>>
        /\ connected \subseteq connected' /\ connected' \subseteq connected \cup {Notifier}
    BY <1>5 DEF ShutdownNotify_Open, Logging_OpenQueue
  <2>2. "ending" \in OpenerAt \ {"fresh", "ended"}
    BY DEF OpenerAt
  <2>3. QED
    BY <1>1, <2>1, <2>2, MoveBlocks
<1>6. CASE ShutdownNotify_Send
  <2>1. Sent(Notifier, ShutdownMessage)
    BY <1>1, <1>2, <1>6, SendQueue DEF ShutdownNotify_Send
  <2>2. Place(Notifier, "ended") /\ UNCHANGED logger /\ seqId' = seqId
    BY <1>6 DEF ShutdownNotify_Send
  <2>3. /\ ShutdownMessage.user = Notifier /\ IsEnd(ShutdownMessage)
        /\ ~IsBlock(ShutdownMessage, Notifier)
    BY DEF ShutdownMessage, IsEnd, IsBlock
  <2>4. "ended" \in OpenerAt \ {"fresh"}
    BY DEF OpenerAt
  <2>5. QED
    BY <1>1, <1>2, <2>1, <2>2, <2>3, <2>4, SendBlocks
<1>7. QED
  BY <1>4, <1>5, <1>6 DEF ProducersNext

LEMMA BlockInvariant == Spec => [](IInv /\ BlockInv)
<1>1. IInv /\ BlockInv /\ UNCHANGED vars => BlockInv'
  <2>1. SUFFICES ASSUME IInv, BlockInv, UNCHANGED vars PROVE BlockInv'
    OBVIOUS
  <2>2. UNCHANGED <<queue, connected, handed, openerAt, seqId>> /\ desc' = desc
    BY <2>1 DEF vars, shared, logger, producers
  <2>3. QED
    BY <2>1, <2>2, QuietBlocks
<1>2. IInv /\ BlockInv /\ [Next]_vars => BlockInv'
  BY <1>1, LoggerBlocks, ProducerBlocks DEF Next, ProducersNext
<1>3. QED
  BY <1>2, BlockInvInit, Invariant, PTL DEF Spec

(***************************************************************************)
(* Whatever fails, every block a counted producer was able to send before  *)
(* its END has been given to the writer when the END is taken into account *)
(* (Imu_Logging.c:244-256, Logging_main.c:76-90).                          *)
(***************************************************************************)
THEOREM EndComesLast == Spec => []EndMeansAllWritten
<1>1. ASSUME IInv, BlockInv, NEW p \in Counted \cap connected, openerAt[p] = "ended",
             p \notin Outstanding
      PROVE  Len(handed[p]) = seqId[p] + 1
  <2>1. p \in Producer /\ p \in Closer
    BY <1>1, LoggingAssumption DEF Closer
  <2>2. ~EndPending(p)
    BY <1>1, <2>1, OutstandingOwe DEF Owing
  <2>3. PICK before \in [0 .. Len(queue) -> Nat] : Counting(p, before)
    BY <1>1, <2>1 DEF BlockInv, Numbered, InStep
  <2>4. \A j \in 1 .. Len(queue) : ~IsBlock(queue[j], p)
    BY <1>1, <2>2 DEF IInv, Order, EndFollows, EndPending, IsBlock
  <2>5. ~IsBlock(desc, p)
    BY <1>1, <2>1, <2>2 DEF BlockInv, DescFollows, EndPending
  <2>6. before[0] = Passed(p)
    <3>1. 0 \in 0 .. Len(queue)
      BY Senders DEF IInv
    <3>2. QED
      BY <1>1, <2>3, <2>4, <3>1 DEF Counting
  <2>7. Passed(p) = seqId[p] + 1
    BY <1>1 DEF Passed
  <2>8. before[0] = Len(handed[p]) + 0
    BY <2>3, <2>5 DEF Counting, Adds
  <2>9. Len(handed[p]) \in Nat
    BY <1>1, <2>1, BlockTypes DEF IInv, TypeInv
  <2>10. QED
    BY <2>6, <2>7, <2>8, <2>9
<1>2. IInv /\ BlockInv => EndMeansAllWritten
  BY <1>1 DEF EndMeansAllWritten
<1>3. QED
  BY <1>2, BlockInvariant, PTL

-----------------------------------------------------------------------------
(* The rings *)

\* v is n, or the number of a block some laps later.
Laps(v, n) == n <= v /\ (v - n) % NumBuffers = 0

\* The blocks p has begun; a block it gave up is no longer one of them.
Filled(p) ==
  IF openerAt[p] \in {"filling", "ending", "ended"} THEN seqId[p] + 1 ELSE seqId[p]

Rings ==
  \A p \in Producer :
    /\ \A k \in 0 .. NumBuffers - 1 : slot[p][k] <= seqId[p]
    /\ \A n \in Nat : n < Filled(p) => Laps(slot[p][n % NumBuffers], n)

\* What was in the slot when the write began.
Writing ==
  loggerAt = "write" =>
    Laps(first, Len(handed[desc.user])) /\ first <= slot[desc.user][desc.ptr]

OverrunInv == "poll" \notin Fault /\ Rings /\ Writing /\ OverrunBounded

LEMMA LapsAhead ==
  ASSUME NEW v \in Nat, NEW n \in Nat, n <= v, n % NumBuffers = v % NumBuffers
  PROVE  Laps(v, n)
<1>1. NumBuffers \in Nat \ {0}
  BY LoggingAssumption
<1>2. /\ v \div NumBuffers \in Nat /\ n \div NumBuffers \in Nat
      /\ v % NumBuffers \in 0 .. NumBuffers - 1
      /\ v = ((v \div NumBuffers) * NumBuffers) + (v % NumBuffers)
      /\ n = ((n \div NumBuffers) * NumBuffers) + (v % NumBuffers)
  BY <1>1, Division
<1>3. PICK a \in Nat, b \in Nat :
        /\ v = (a * NumBuffers) + (v % NumBuffers)
        /\ n = (b * NumBuffers) + (v % NumBuffers)
  <2>1. \A x \in Nat, y \in Nat :
          v = (x * NumBuffers) + (v % NumBuffers) /\ n = (y * NumBuffers) + (v % NumBuffers)
            => \E a \in Nat, b \in Nat : /\ v = (a * NumBuffers) + (v % NumBuffers)
                                         /\ n = (b * NumBuffers) + (v % NumBuffers)
    BY Zenon
  <2>2. QED
    BY <1>2, <2>1, Zenon
<1>4. v - n = ((a - b) * NumBuffers) + 0 /\ v - n \in Nat
  <2>1. v % NumBuffers \in Nat
    BY <1>1, <1>2
  <2>2. DEFINE r == v % NumBuffers
  <2>3. v = (a * NumBuffers) + r /\ n = (b * NumBuffers) + r /\ r \in Nat
    BY <1>3, <2>1
  <2>4. HIDE DEF r
  <2>5. QED
    BY <1>1, <1>3, <2>3
<1>5. a - b \in Nat
  <2>1. CASE a < b
    <3>1. (b - a) * NumBuffers >= NumBuffers
      BY <1>1, <2>1, AtLeast
    <3>2. (b - a) * NumBuffers = n - v
      BY <1>1, <1>4
    <3>3. QED
      BY <1>1, <1>4, <3>1, <3>2
  <2>2. QED
    BY <2>1
<1>6. 0 \in 0 .. NumBuffers - 1
  BY <1>1
<1>7. (v - n) % NumBuffers = 0
  BY <1>1, <1>4, <1>5, <1>6, Remainder
<1>8. QED
  BY <1>7 DEF Laps

\* Where the block in hand is, and what is there.
LEMMA SlotInHand ==
  ASSUME IInv, BlockInv, Rings, NEW p, IsBlock(desc, p)
  PROVE  /\ p \in Producer
         /\ desc.user = p /\ desc.ptr \in 0 .. NumBuffers - 1
         /\ Len(handed[p]) \in Nat /\ slot[p][desc.ptr] \in Nat
         /\ Laps(slot[p][desc.ptr], Len(handed[p]))
         /\ slot[p][desc.ptr] <= Len(handed[p]) + 1 + QueueMax
<1>1. TypeOK /\ p \in Producer \cap connected
      /\ loggerAt \in {"dispatch", "write"} /\ desc.user = p
  BY BlockInHand DEF IInv, TypeInv, IsBlock
<1>2. PICK before \in [0 .. Len(queue) -> Nat] : Counting(p, before) /\ Pointing(p, before)
  BY <1>1 DEF BlockInv, Numbered, InStep
<1>3. Len(handed[p]) \in Nat /\ Passed(p) \in Nat /\ seqId[p] \in Nat
  BY <1>1, BlockTypes
<1>4. desc.ptr = Len(handed[p]) % NumBuffers
  BY <1>2 DEF Pointing
<1>5. desc.ptr \in 0 .. NumBuffers - 1
  <2>1. NumBuffers \in Nat \ {0}
    BY LoggingAssumption
  <2>2. Len(handed[p]) % NumBuffers \in 0 .. NumBuffers - 1
    BY <1>3, <2>1, Division
  <2>3. QED
    BY <1>4, <2>2
<1>6. slot[p][desc.ptr] \in Nat
  BY <1>1, <1>5, LoggingAssumption DEF TypeOK
<1>7. /\ Len(handed[p]) + 1 <= Passed(p)
      /\ Passed(p) <= Len(handed[p]) + 1 + QueueMax
  <2>1. Len(queue) \in Nat /\ Len(queue) <= QueueMax /\ QueueMax \in Nat
    BY <1>1, LoggingAssumption, Senders DEF TypeOK, IInv
  <2>2. before[0] = Len(handed[p]) + 1
    BY <1>2 DEF Counting, Adds
  <2>3. before[0] <= Passed(p) /\ Passed(p) <= before[0] + Len(queue) - 0
    BY <1>2, <2>1 DEF Counting
  <2>4. QED
    BY <1>3, <2>1, <2>2, <2>3
<1>8. Passed(p) <= Filled(p) /\ seqId[p] <= Passed(p) /\ Filled(p) \in Nat
  BY <1>3 DEF Passed, Filled
<1>9. Laps(slot[p][desc.ptr], Len(handed[p]))
  BY <1>1, <1>3, <1>4, <1>7, <1>8 DEF Rings
<1>10. slot[p][desc.ptr] <= seqId[p]
  BY <1>1, <1>5 DEF Rings
<1>11. QED
  BY <1>1, <1>3, <1>5, <1>6, <1>7, <1>8, <1>9, <1>10, LoggingAssumption

LEMMA OverrunInit == Init /\ "poll" \notin Fault => OverrunInv
<1> SUFFICES ASSUME Init, "poll" \notin Fault PROVE OverrunInv
  OBVIOUS
<1>1. /\ \A p \in Producer : /\ seqId[p] = 0 /\ Filled(p) = 0 /\ Len(handed[p]) = 0
                            /\ \A k \in 0 .. NumBuffers - 1 : slot[p][k] = 0
      /\ loggerAt = "mount"
  BY DEF Init, Filled, Opener
<1>2. Rings /\ Writing
  BY <1>1 DEF Rings, Writing
<1>3. OverrunBounded
  BY <1>1 DEF OverrunBounded
<1>4. QED
  BY <1>2, <1>3 DEF OverrunInv

\* A step that leaves the rings alone and writes nothing.
LEMMA RingsKept ==
  ASSUME OverrunInv, TypeOK, TypeOK', UNCHANGED <<slot, handed>>,
         loggerAt' = "write" => Writing',
         \A p \in Producer : seqId[p] <= seqId'[p] /\ Filled(p)' <= Filled(p)
  PROVE  OverrunInv'
<1>1. Rings'
  <2>1. ASSUME NEW p \in Producer, NEW k \in 0 .. NumBuffers - 1
        PROVE  slot'[p][k] <= seqId'[p]
    <3>1. slot[p][k] \in Nat /\ slot[p][k] <= seqId[p] /\ seqId[p] \in Nat
          /\ seqId'[p] \in Nat
      BY LoggingAssumption DEF OverrunInv, Rings, TypeOK
    <3>2. QED
      BY <3>1
  <2>2. ASSUME NEW p \in Producer, NEW n \in Nat, n < Filled(p)'
        PROVE  Laps(slot'[p][n % NumBuffers], n)
    <3>1. Filled(p) \in Nat /\ Filled(p)' \in Nat
      BY LoggingAssumption DEF Filled, TypeOK
    <3>2. n < Filled(p)
      BY <2>2, <3>1
    <3>3. QED
      BY <3>2 DEF OverrunInv, Rings
  <2>3. QED
    BY <2>1, <2>2 DEF Rings, Laps
<1>2. OverrunBounded'
  BY DEF OverrunInv, OverrunBounded
<1>3. QED
  BY <1>1, <1>2 DEF OverrunInv, Writing

\* Logging_Buffer_Init: the slot gets the number of the next block.
LEMMA FillRings ==
  ASSUME IInv, IInv', BlockInv, OverrunInv, NEW q \in Producer, Fill(q)
  PROVE  OverrunInv'
<1> DEFINE here == seqId[q] % NumBuffers
<1>1. /\ TypeOK /\ TypeOK' /\ openerAt[q] = "opened" /\ seqId' = seqId
      /\ slot' = [slot EXCEPT ![q][here] = seqId[q]]
      /\ Place(q, "filling") /\ UNCHANGED <<handed, loggerAt, desc, first>>
  BY DEF Fill, IInv, TypeInv, logger
<1>2. seqId[q] \in Nat /\ here \in 0 .. NumBuffers - 1 /\ q \in Opener
  BY <1>1, LoggingAssumption DEF TypeOK, Opener
<1>3. slot'[q][here] = seqId[q]
  BY <1>1, <1>2 DEF TypeOK
<1>4. ASSUME NEW p \in Producer, NEW k \in 0 .. NumBuffers - 1, p # q \/ k # here
      PROVE  slot'[p][k] = slot[p][k]
  BY <1>1, <1>2, <1>4 DEF TypeOK
<1>5. ASSUME NEW p \in Producer, NEW k \in 0 .. NumBuffers - 1
      PROVE  slot[p][k] <= slot'[p][k] /\ slot'[p][k] <= seqId'[p]
             /\ slot[p][k] \in Nat /\ slot'[p][k] \in Nat
  <2>1. /\ slot[p][k] \in Nat /\ slot'[p][k] \in Nat
        /\ slot[p][k] <= seqId[p] /\ seqId[p] \in Nat
    <3>1. slot \in [Producer -> [0 .. NumBuffers - 1 -> 0 .. MaxSeq]]
          /\ slot' \in [Producer -> [0 .. NumBuffers - 1 -> 0 .. MaxSeq]]
      BY DEF IInv, TypeInv, TypeOK
    <3>2. slot[p][k] \in 0 .. MaxSeq /\ slot'[p][k] \in 0 .. MaxSeq
      BY <3>1
    <3>3. seqId[p] \in 0 .. MaxSeq
      BY DEF IInv, TypeInv, TypeOK
    <3>4. slot[p][k] <= seqId[p]
      BY DEF OverrunInv, Rings
    <3>5. QED
      BY <3>2, <3>3, <3>4, LoggingAssumption
  <2>2. CASE p = q /\ k = here
    BY <1>1, <1>3, <2>1, <2>2
  <2>3. CASE p # q \/ k # here
    BY <1>1, <1>4, <2>1, <2>3
  <2>4. QED
    BY <2>2, <2>3
<1>6. ASSUME NEW p \in Producer, NEW n \in Nat, n < Filled(p)'
      PROVE  Laps(slot'[p][n % NumBuffers], n)
  <2>1. n % NumBuffers \in 0 .. NumBuffers - 1
    BY LoggingAssumption
  <2>2. CASE p = q /\ n % NumBuffers = here
    <3>1. Filled(q)' = seqId[q] + 1
      BY <1>1, <1>2 DEF Place, Filled, TypeOK
    <3>2. n <= seqId[q]
      BY <1>2, <1>6, <2>2, <3>1
    <3>3. QED
      BY <1>2, <1>3, <2>2, <3>2, LapsAhead
  <2>3. CASE p # q \/ n % NumBuffers # here
    <3>1. n < Filled(p)
      <4>1. CASE p = q
        <5>1. Filled(q)' = seqId[q] + 1 /\ Filled(q) = seqId[q] /\ n # seqId[q]
          BY <1>1, <1>2, <2>3, <4>1 DEF Place, Filled, TypeOK
        <5>2. QED
          BY <1>2, <1>6, <4>1, <5>1
      <4>2. CASE p # q
        <5>1. openerAt'[p] = openerAt[p]
          BY <1>1, <4>2 DEF Place, TypeOK, Opener
        <5>2. QED
          BY <1>1, <1>6, <5>1 DEF Filled
      <4>3. QED
        BY <4>1, <4>2
    <3>2. Laps(slot[p][n % NumBuffers], n)
      BY <3>1 DEF OverrunInv, Rings
    <3>3. QED
      BY <1>4, <2>1, <2>3, <3>2
  <2>4. QED
    BY <2>2, <2>3
<1>7. Rings'
  BY <1>5, <1>6 DEF Rings, Laps
<1>8. Writing'
  <2>1. SUFFICES ASSUME loggerAt = "write"
                 PROVE  /\ Laps(first, Len(handed[desc.user]))
                        /\ first <= slot'[desc.user][desc.ptr]
    BY <1>1 DEF Writing, Laps
  <2>2. IsBlock(desc, desc.user)
    BY <2>1 DEF IInv, TypeInv, AllProper, IsBlock
  <2>3. desc.user \in Producer /\ desc.ptr \in 0 .. NumBuffers - 1
    BY <2>2, SlotInHand DEF OverrunInv
  <2>4. first \in Nat /\ first <= slot[desc.user][desc.ptr]
        /\ Laps(first, Len(handed[desc.user]))
    BY <1>1, <2>1 DEF OverrunInv, Writing, TypeOK
  <2>5. slot[desc.user][desc.ptr] <= slot'[desc.user][desc.ptr]
        /\ slot[desc.user][desc.ptr] \in Nat /\ slot'[desc.user][desc.ptr] \in Nat
    BY <1>5, <2>3
  <2>6. QED
    BY <2>4, <2>5
<1>9. OverrunBounded'
  BY <1>1 DEF OverrunInv, OverrunBounded
<1>10. QED
  BY <1>7, <1>8, <1>9 DEF OverrunInv

\* Logging_Writer_Write returns.
LEMMA WriteEndRings ==
  ASSUME IInv, IInv', BlockInv, OverrunInv, WriteEnd
  PROVE  OverrunInv'
<1>1. /\ TypeOK /\ TypeOK' /\ UNCHANGED <<slot, seqId, openerAt>>
      /\ loggerAt = "write" /\ loggerAt' = "receive"
  BY DEF WriteEnd, IInv, TypeInv, producers
<1> DEFINE u == desc.user
           b == [first |-> first, last |-> slot[u][desc.ptr]]
<1>2. IsBlock(desc, u)
  BY <1>1 DEF IInv, TypeInv, AllProper, IsBlock
<1>3. /\ u \in Producer /\ desc.ptr \in 0 .. NumBuffers - 1
      /\ Len(handed[u]) \in Nat /\ slot[u][desc.ptr] \in Nat
      /\ Laps(slot[u][desc.ptr], Len(handed[u]))
      /\ slot[u][desc.ptr] <= Len(handed[u]) + 1 + QueueMax
  BY <1>2, SlotInHand DEF OverrunInv
<1>4. /\ Laps(first, Len(handed[u])) /\ first <= slot[u][desc.ptr] /\ first \in Nat
  BY <1>1 DEF OverrunInv, Writing, TypeOK
<1>5. handed' = [handed EXCEPT ![u] = Append(@, b)]
      /\ handed \in [Producer -> Seq([first: Nat, last: Nat])]
  BY <1>1 DEF WriteEnd, TypeOK
<1>6. b \in [first: Nat, last: Nat] /\ b.first = first /\ b.last = slot[u][desc.ptr]
  BY <1>3, <1>4
<1> HIDE DEF b, u
<1>7. ASSUME NEW p \in Producer, NEW n \in 1 .. Len(handed'[p])
      PROVE  \/ n \in 1 .. Len(handed[p]) /\ handed'[p][n] = handed[p][n]
             \/ p = u /\ n = Len(handed[u]) + 1 /\ handed'[p][n] = b
  <2>1. CASE p # u
    BY <1>3, <1>5, <2>1
  <2>2. CASE p = u
    <3>1. handed'[u] = Append(handed[u], b) /\ handed[u] \in Seq([first: Nat, last: Nat])
      BY <1>3, <1>5
    <3>2. QED
      BY <1>6, <2>2, <3>1
  <2>3. QED
    BY <2>1, <2>2
<1>8. ASSUME NEW p \in Producer, NEW n \in 1 .. Len(handed'[p])
      PROVE  LET c == handed'[p][n] IN
               /\ n - 1 <= c.first /\ c.first <= c.last /\ c.last <= n + QueueMax
               /\ (c.first - (n - 1)) % NumBuffers = 0
               /\ (c.last - (n - 1)) % NumBuffers = 0
  <2>1. CASE n \in 1 .. Len(handed[p]) /\ handed'[p][n] = handed[p][n]
    BY <2>1 DEF OverrunInv, OverrunBounded
  <2>2. CASE p = u /\ n = Len(handed[u]) + 1 /\ handed'[p][n] = b
    <3>1. n - 1 = Len(handed[u])
      BY <1>3, <2>2
    <3>2. QED
      BY <1>3, <1>4, <1>6, <2>2, <3>1 DEF Laps
  <2>3. QED
    BY <1>7, <2>1, <2>2
<1>9. OverrunBounded'
  BY <1>8 DEF OverrunBounded
<1>10. Rings'
  BY <1>1 DEF OverrunInv, Rings, Filled, Laps
<1>11. QED
  BY <1>1, <1>9, <1>10 DEF OverrunInv, Writing

LEMMA OverrunStep ==
  IInv /\ IInv' /\ BlockInv /\ OverrunInv /\ [Next]_vars => OverrunInv'
<1> SUFFICES ASSUME IInv, IInv', BlockInv, OverrunInv, [Next]_vars PROVE OverrunInv'
  OBVIOUS
<1>1. TypeOK /\ TypeOK' /\ openerAt \in [Opener -> OpenerAt]
      /\ \A p \in Producer : seqId[p] \in Nat /\ p \in Opener
      /\ "poll" \notin Fault
  BY BlockTypes DEF IInv, TypeInv, TypeOK, OverrunInv
<1>2. CASE WriteBegin
  <2>1. /\ UNCHANGED <<slot, handed, seqId, openerAt, desc>> /\ desc.type = "WRITE"
        /\ first' = slot[desc.user][desc.ptr]
    BY <1>2 DEF WriteBegin, producers
  <2>2. IsBlock(desc, desc.user)
    BY <2>1 DEF IsBlock
  <2>3. /\ Laps(slot[desc.user][desc.ptr], Len(handed[desc.user]))
        /\ slot[desc.user][desc.ptr] \in Nat
    BY <2>2, SlotInHand DEF OverrunInv
  <2>4. Writing'
    BY <2>1, <2>3 DEF Writing, Laps
  <2>5. \A p \in Producer : seqId[p] <= seqId'[p] /\ Filled(p)' <= Filled(p)
    BY <1>1, <2>1 DEF Filled
  <2>6. QED
    BY <1>1, <2>1, <2>4, <2>5, RingsKept
<1>3. CASE Initialize \/ Register \/ CreateQueue \/ Receive \/ EndOrShutdown \/ Close
            \/ NotifyStop
  <2>1. UNCHANGED <<slot, handed, seqId, openerAt>> /\ loggerAt' # "write"
    BY <1>3 DEF Initialize, Register, CreateQueue, Receive, EndOrShutdown, Handled, Close,
                NotifyStop, producers
  <2>2. \A p \in Producer : seqId[p] <= seqId'[p] /\ Filled(p)' <= Filled(p)
    BY <1>1, <2>1 DEF Filled
  <2>3. QED
    BY <1>1, <2>1, <2>2, RingsKept
<1>4. ASSUME UNCHANGED logger, slot' = slot,
             \A p \in Producer : seqId[p] <= seqId'[p] /\ Filled(p)' <= Filled(p)
      PROVE  OverrunInv'
  <2>1. Writing'
    BY <1>4 DEF OverrunInv, Writing, Laps, logger
  <2>2. handed' = handed
    BY <1>4 DEF logger
  <2>3. QED
    BY <1>1, <1>4, <2>1, <2>2, RingsKept
<1>5. ASSUME NEW q \in Producer, ProducerNext(q), ~Fill(q) PROVE OverrunInv'
  <2>1. UNCHANGED logger /\ slot' = slot
    BY <1>5 DEF ProducerNext, Open, Send, SendLast, SendUnfilled, SendEnd, Abandon
  <2>2. ASSUME NEW p \in Producer \ {q} PROVE seqId'[p] = seqId[p] /\ Filled(p)' = Filled(p)
    <3>1. openerAt'[p] = openerAt[p]
      BY <1>1, <1>5
         DEF ProducerNext, Open, Send, SendLast, SendUnfilled, SendEnd, Abandon, Place
    <3>2. seqId'[p] = seqId[p]
      BY <1>1, <1>5
         DEF ProducerNext, Open, Send, SendLast, SendUnfilled, SendEnd, Abandon, TypeOK
    <3>3. QED
      BY <3>1, <3>2 DEF Filled
  <2>3. seqId[q] <= seqId'[q] /\ Filled(q)' <= Filled(q)
    <3>1. CASE Send(q)
      <4>1. openerAt[q] = "filling" /\ openerAt'[q] = "opened" /\ seqId'[q] = seqId[q] + 1
        BY <1>1, <3>1 DEF Send, Place, TypeOK
      <4>2. QED
        BY <1>1, <4>1 DEF Filled
    <3>2. CASE SendUnfilled(q)
      BY <1>1, <3>2 DEF SendUnfilled
    <3>3. CASE Open(q) \/ SendLast(q) \/ SendEnd(q) \/ Abandon(q)
      <4>1. seqId' = seqId
        BY <3>3 DEF Open, SendLast, SendEnd, Abandon
      <4>2. \/ openerAt'[q] \in {"opened", "abandoned"}
            \/ openerAt[q] \in {"filling", "ending"} /\ openerAt'[q] \in {"ending", "ended"}
        BY <1>1, <3>3 DEF Open, SendLast, SendEnd, Abandon, Place
      <4>3. QED
        BY <1>1, <4>1, <4>2 DEF Filled
    <3>4. QED
      BY <1>5, <3>1, <3>2, <3>3 DEF ProducerNext
  <2>4. \A p \in Producer : seqId[p] <= seqId'[p] /\ Filled(p)' <= Filled(p)
    <3>1. \A p \in Producer : Filled(p) \in Nat
      BY <1>1 DEF Filled
    <3>2. QED
      BY <1>1, <2>2, <2>3, <3>1
  <2>5. QED
    BY <1>4, <2>1, <2>4
<1>6. CASE ShutdownNotify_Open \/ ShutdownNotify_Send
  <2>1. UNCHANGED <<logger, slot, seqId>>
    BY <1>6 DEF ShutdownNotify_Open, ShutdownNotify_Send
  <2>2. \A p \in Producer : openerAt'[p] = openerAt[p]
    BY <1>1, <1>6, LoggingAssumption DEF ShutdownNotify_Open, ShutdownNotify_Send, Place
  <2>3. \A p \in Producer : seqId[p] <= seqId'[p] /\ Filled(p)' <= Filled(p)
    BY <1>1, <2>1, <2>2 DEF Filled
  <2>4. QED
    BY <1>4, <2>1, <2>3
<1>7. CASE UNCHANGED vars
  <2>1. UNCHANGED <<logger, slot, seqId, openerAt>>
    BY <1>7 DEF vars, producers
  <2>2. \A p \in Producer : seqId[p] <= seqId'[p] /\ Filled(p)' <= Filled(p)
    BY <1>1, <2>1 DEF Filled
  <2>3. QED
    BY <1>4, <2>1, <2>2
<1>8. QED
  BY <1>2, <1>3, <1>5, <1>6, <1>7, FillRings, WriteEndRings DEF Next, LoggerNext

(***************************************************************************)
(* As long as poll does not fail, the n-th block written for a producer is *)
(* its n-th block or one that has lapped it in the ring, never an earlier  *)
(* one, and at most QueueMax + 1 blocks ahead, for rings and queues of any *)
(* length (Imu_Logging.c:192, Battery_Logging.c:85, Logging.c:94).         *)
(***************************************************************************)
THEOREM OverrunIsBounded == Spec /\ "poll" \notin Fault => []OverrunBounded
<1>1. IInv /\ BlockInv /\ OverrunInv /\ [Next]_vars /\ IInv' => OverrunInv'
  BY OverrunStep
<1>2. OverrunInv => OverrunBounded
  BY DEF OverrunInv
<1>3. QED
  BY <1>1, <1>2, OverrunInit, BlockInvariant, PTL DEF Spec
=============================================================================
