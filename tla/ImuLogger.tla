------------------------------ MODULE ImuLogger ------------------------------
(***************************************************************************)
(* The logger as init.rc starts it: the PowerCtrl task (Main), the Logging *)
(* task, the Imu task and the Battery task, in one flat image.  PowerCtrl  *)
(* and Logging are the component modules; a step of the system is a step   *)
(* of one of them, or one of each when a task calls one component in the   *)
(* middle of the other.  What is added here is Imu_Logging_Run's set-up:   *)
(* the order in which it opens the queue, registers its handler and makes  *)
(* the FIFO that the handler writes to.                                    *)
(***************************************************************************)
EXTENDS Integers, Sequences, FiniteSets

CONSTANTS
  Main, Logger, Imu, Battery,   \* the four tasks
  Started,                      \* counted producers started by hand besides
  NoTask,                       \* NULL in PowerCtrl
  NumCallbacks,                 \* NUM_SHUTDOWN_CALLBACKS
  QueueMax, NumBuffers, MaxSeq, \* as in Logging
  Fault                         \* as in Logging, and "device": the FIFO or the sensor

ASSUME ImuLoggerAssumption ==
  /\ Main \notin {Logger, Imu, Battery} \cup Started
  /\ Logger \notin {Imu, Battery} \cup Started
  /\ Imu \notin {Battery} \cup Started
  /\ Battery \notin Started
  /\ NoTask \notin {Main, Logger, Imu} \cup Started
  /\ IsFiniteSet(Started)
  /\ NumCallbacks \in Nat \ {0}
  /\ QueueMax \in Nat \ {0} /\ NumBuffers \in Nat \ {0} /\ MaxSeq \in Nat
  /\ Fault \subseteq {"initialize", "createQueue", "openQueue", "junkCallback",
                      "poll", "device"}

VARIABLES
  \* PowerCtrl.c
  holder, ownerDead, isPowerReady, isPowerShutdown, shutdownBitmap,
  shutdownCallback, at, handlerId, word, notified,
  \* Logging.c and Logging_main.c
  isQueueCreated, openCount, queue, connected, loggerAt, desc, isShutdown,
  first, openerAt, seqId, slot, handed,
  \* Imu_Logging.c
  fifo,       \* /var/fifo/imu_event: "absent", "made", or "open" for reading
  isSensing,  \* set-up is over, the sampling loop runs
  event       \* the handler's 8 bytes are in the FIFO

PC == INSTANCE PowerCtrl WITH
  Client <- {Logger, Imu} \cup Started, Quitter <- {Logger, Imu} \cup Started,
  isShutdown <- isPowerShutdown

LG == INSTANCE Logging WITH
  Producer <- {Imu, Battery} \cup Started, Counted <- {Imu} \cup Started,
  Notifier <- Main,
  Fault <- (Fault \ {"device"}) \cup {"abandon"}

powerVars == <<holder, ownerDead, isPowerReady, isPowerShutdown, shutdownBitmap,
               shutdownCallback, at, handlerId, word, notified>>
loggingVars == <<isQueueCreated, openCount, queue, connected, loggerAt, desc,
                 isShutdown, first, openerAt, seqId, slot, handed>>
imu == <<fifo, isSensing, event>>
vars == <<powerVars, loggingVars, imu>>

Init ==
  /\ PC!Init
  /\ LG!Init
  /\ fifo = "absent"
  /\ isSensing = FALSE
  /\ event = FALSE

Registered(t) == at[t] = "running" /\ handlerId[t] # PC!ERROR
Refused(t) == at[t] = "running" /\ handlerId[t] = PC!ERROR

-----------------------------------------------------------------------------
(* The Logging task *)

Logger_Run ==
  /\ \/ LG!Initialize
     \/ LG!Receive
     \/ LG!WriteBegin
     \/ LG!WriteEnd
     \/ LG!EndOrShutdown
     \/ LG!Close
  /\ UNCHANGED <<powerVars, imu>>

\* The logger goes on whether it was registered or refused.
Logger_Register ==
  /\ loggerAt = "register"
  /\ PC!SetShutdownCallback(Logger)
  /\ IF at'[Logger] = "running" THEN LG!Register ELSE UNCHANGED loggingVars
  /\ UNCHANGED imu

\* Without a queue the task returns, and keeps its slot if it has one.
Logger_CreateQueue ==
  /\ LG!CreateQueue
  /\ IF loggerAt' = "failed"
     THEN PC!Abandon(Logger) \/ (Refused(Logger) /\ PC!Exit(Logger))
     ELSE UNCHANGED powerVars
  /\ UNCHANGED imu

Logger_NotifyStop ==
  /\ loggerAt = "notify"
  /\ PC!NotifyStop(Logger)
  /\ UNCHANGED <<loggingVars, imu>>

Logger_Exit ==
  /\ at[Logger] = "done"
  /\ PC!Exit(Logger)
  /\ LG!NotifyStop
  /\ UNCHANGED imu

-----------------------------------------------------------------------------
(* The Imu task: Imu_Logging_Run *)

Imu_OpenQueue ==
  /\ LG!Open(Imu)
  /\ UNCHANGED <<powerVars, imu>>

Imu_Register ==
  /\ openerAt[Imu] = "opened"
  /\ PC!SetShutdownCallback(Imu)
  /\ UNCHANGED <<loggingVars, imu>>

\* Registration failed: return 1; the open count keeps its share.
Imu_Refused ==
  /\ Refused(Imu)
  /\ PC!Exit(Imu)
  /\ LG!Abandon(Imu)
  /\ UNCHANGED imu

Imu_MakeFifo ==
  /\ Registered(Imu)
  /\ fifo = "absent"
  /\ fifo' = "made"
  /\ UNCHANGED <<powerVars, loggingVars, isSensing, event>>

Imu_OpenFifo ==
  /\ Registered(Imu)
  /\ fifo = "made"
  /\ fifo' = "open"
  /\ UNCHANGED <<powerVars, loggingVars, isSensing, event>>

Imu_Setup ==
  /\ Registered(Imu)
  /\ fifo = "open"
  /\ ~isSensing
  /\ isSensing' = TRUE
  /\ UNCHANGED <<powerVars, loggingVars, fifo, event>>

(***************************************************************************)
(* The FIFO cannot be made (nobody looks at mkfifo's result, but the open  *)
(* fails) or opened, or the sensor cannot be opened or set up: neither END *)
(* nor NotifyStop.                                                         *)
(***************************************************************************)
Imu_SetupFails ==
  /\ "device" \in Fault
  /\ Registered(Imu)
  /\ ~isSensing
  /\ PC!Abandon(Imu)
  /\ LG!Abandon(Imu)
  /\ fifo' = IF fifo = "open" THEN "made" ELSE fifo
  /\ UNCHANGED <<isSensing, event>>

Imu_Sample ==
  /\ isSensing
  /\ LG!Fill(Imu) \/ LG!Send(Imu)
  /\ UNCHANGED <<powerVars, imu>>

\* The event has been read, or poll failed: send what there is, then END.
Imu_SendLast ==
  /\ \/ (event \/ "poll" \in Fault) /\ LG!SendLast(Imu)
     \/ isSensing /\ LG!SendUnfilled(Imu)
  /\ UNCHANGED <<powerVars, imu>>

Imu_SendEnd ==
  /\ LG!SendEnd(Imu)
  /\ UNCHANGED <<powerVars, imu>>

Imu_NotifyStop ==
  /\ openerAt[Imu] = "ended"
  /\ PC!NotifyStop(Imu)
  /\ UNCHANGED <<loggingVars, imu>>

Imu_Exit ==
  /\ at[Imu] = "done"
  /\ PC!Exit(Imu)
  /\ fifo' = "made"
  /\ UNCHANGED <<loggingVars, isSensing, event>>

-----------------------------------------------------------------------------
(* The Battery task: no handler, no share in the open count, no END *)

Battery_Run ==
  /\ LG!Open(Battery) \/ LG!Fill(Battery) \/ LG!Send(Battery) \/ LG!Abandon(Battery)
  /\ UNCHANGED <<powerVars, imu>>

-----------------------------------------------------------------------------
(* The PowerCtrl task: the handlers run in it, with the mutex locked *)

Main_PowerReady ==
  /\ PC!PowerReady
  /\ UNCHANGED <<loggingVars, imu>>

Main_Begin ==
  /\ PC!Shutdown_Begin
  /\ UNCHANGED <<loggingVars, imu>>

Main_Run ==
  /\ \/ PC!Shutdown_Call
     \/ PC!Shutdown_Skip
     \/ PC!Shutdown_AllCalled
     \/ PC!Shutdown_Wait
     \/ PC!Shutdown_Relock
     \/ PC!Shutdown_Complete
  /\ UNCHANGED <<loggingVars, imu>>

\* The handler of t is being called.
Calling(t) ==
  /\ at[Main] = "callback"
  /\ \E i \in word[Main] :
       PC!IsHighest(i, word[Main]) /\ shutdownCallback[i] = t

\* ShutdownNotify, the logger's handler.
Main_ShutdownNotify ==
  /\ Calling(Logger)
  /\ \/ (LG!ShutdownNotify_Open \/ LG!ShutdownNotify_Send) /\ UNCHANGED powerVars
     \/ openerAt[Main] = "ended" /\ PC!Shutdown_Return /\ UNCHANGED loggingVars
  /\ UNCHANGED imu

\* Mutant: the handler opens the FIFO for reading, so its write fails.
Main_ShutdownHandler_NoWrite ==
  /\ Calling(Imu)
  /\ PC!Shutdown_Return
  /\ UNCHANGED <<loggingVars, imu>>

(***************************************************************************)
(* ShutdownHandler, Imu's: open fails when there is no FIFO, and the event *)
(* is lost; it blocks while nobody has the FIFO open for reading.          *)
(***************************************************************************)
Main_ShutdownHandler ==
  /\ Calling(Imu)
  /\ fifo # "made"
  /\ event' = (fifo = "open")
  /\ PC!Shutdown_Return
  /\ UNCHANGED <<loggingVars, fifo, isSensing>>

-----------------------------------------------------------------------------
LoggerNext ==
  \/ Logger_Run
  \/ Logger_Register
  \/ Logger_CreateQueue
  \/ Logger_NotifyStop
  \/ Logger_Exit

ImuSetup ==
  \/ Imu_Register
  \/ Imu_Refused
  \/ Imu_MakeFifo
  \/ Imu_OpenFifo
  \/ Imu_Setup
  \/ Imu_SetupFails

ImuStop ==
  \/ Imu_SendEnd
  \/ Imu_NotifyStop
  \/ Imu_Exit

ImuNext ==
  \/ Imu_OpenQueue
  \/ ImuSetup
  \/ Imu_Sample
  \/ Imu_SendLast
  \/ ImuStop

MainShutdown ==
  \/ Main_Run
  \/ Main_ShutdownNotify
  \/ Main_ShutdownHandler

MainNext ==
  \/ Main_PowerReady
  \/ Main_Begin
  \/ MainShutdown

Next ==
  \/ LoggerNext
  \/ ImuNext
  \/ Battery_Run
  \/ MainNext

Spec == Init /\ [][Next]_vars

(***************************************************************************)
(* Each task runs whenever it can.  Nobody has to press the button, and    *)
(* init.rc may not start Imu.  Locks and full queues are granted in turn,  *)
(* hence the strong fairness of the steps that wait for one.  Nothing      *)
(* makes poll fail.                                                        *)
(***************************************************************************)
Fairness ==
  /\ WF_vars(LoggerNext)
  /\ SF_vars(Logger_NotifyStop)
  /\ SF_vars(Logger_Register)
  /\ SF_vars(ImuSetup)
  /\ WF_vars(Imu_Sample)
  /\ SF_vars(event /\ Imu_SendLast)
  /\ SF_vars(ImuStop)
  /\ SF_vars(MainShutdown)

FairSpec == Spec /\ Fairness

-----------------------------------------------------------------------------
(* Properties *)

\* Type invariant.
TypeOK ==
  /\ PC!TypeOK
  /\ LG!TypeOK
  /\ fifo \in {"absent", "made", "open"}
  /\ isSensing \in BOOLEAN
  /\ event \in BOOLEAN

(***************************************************************************)
(* When the shutdown completes with the logger in it, the file is closed   *)
(* and every block Imu sent has been given to the writer before that: the  *)
(* barrier of PowerCtrl.c and the open count of Logging.c together.        *)
(***************************************************************************)
OffMeansSaved ==
  at[Main] = "off" /\ ~ownerDead /\ Logger \in notified =>
    /\ loggerAt \in {"notify", "stopped"}
    /\ openerAt[Imu] \in {"ending", "ended"} =>
         /\ openerAt[Imu] = "ended"
         /\ Len(handed[Imu]) = seqId[Imu] + 1

\* Imu can be reached, or nobody has registered.
Reachable == fifo # "absent" \/ shutdownBitmap = {}

Begun == at[Main] = "notify" /\ notified = {}

\* A failure after which a task cannot do its part.
Failed ==
  \/ loggerAt \in {"failed", "crashed"}
  \/ openerAt[Imu] = "abandoned"
  \/ \E t \in {Imu, Main} : openerAt[t] # "fresh" /\ t \notin connected

(***************************************************************************)
(* A shutdown that begins once Imu has its FIFO completes, unless the      *)
(* logger or Imu gives up or finds no queue: neither handlers that wait    *)
(* under the mutex, nor a full queue that Battery goes on filling, nor a   *)
(* mutex whose owner died lock the tasks up (PowerCtrl.c:56, 73, 82).      *)
(***************************************************************************)
ShutdownCompletes == []~Failed => (Begun /\ Reachable ~> at[Main] = "off")

(***************************************************************************)
(* A task whose handler was called has been told to stop (PowerCtrl.c:56). *)
(***************************************************************************)
CalledMeansTold ==
  Imu \in notified /\ at[Main] \in {"drain", "drainWait"} => event

(***************************************************************************)
(* A shutdown waits for the tasks it has notified and for nobody else      *)
(* (PowerCtrl.c:56): one that begins before Imu has registered completes.  *)
(***************************************************************************)
UnregisteredIsNotAwaited ==
  Begun /\ at[Imu] = "fresh" ~> at[Main] = "off"
=============================================================================
