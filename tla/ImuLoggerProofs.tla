--------------------------- MODULE ImuLoggerProofs ---------------------------
(***************************************************************************)
(* Machine-checked proofs about ImuLogger.  The composed system is shown   *)
(* to implement both of its components, for any tasks started besides, any *)
(* queue, table and rings: whatever is proved of Logging and of PowerCtrl  *)
(* then holds in it, and what is left to prove is how the two are tied.    *)
(***************************************************************************)
EXTENDS ImuLogger, FiniteSetTheorems, TLAPS

\* The components again, with the theorems proved about them.
PCP == INSTANCE PowerCtrlProofs WITH
  Client <- {Logger, Imu} \cup Started, Quitter <- {Logger, Imu} \cup Started,
  isShutdown <- isPowerShutdown

LGP == INSTANCE LoggingProofs WITH
  Producer <- {Imu, Battery} \cup Started, Counted <- {Imu} \cup Started,
  Notifier <- Main,
  Fault <- (Fault \ {"device"}) \cup {"abandon"}

\* The constants satisfy what the components assume of theirs.
LEMMA PowerCtrlIn == PCP!PowerCtrlAssumption
BY ImuLoggerAssumption DEF PCP!PowerCtrlAssumption, PCP!Task

LEMMA LoggingIn == LGP!LoggingAssumption
<1>1. IsFiniteSet({Imu, Battery} \cup Started)
  <2>1. IsFiniteSet(Started \cup {Imu})
    BY ImuLoggerAssumption, FS_AddElement
  <2>2. IsFiniteSet((Started \cup {Imu}) \cup {Battery})
    BY <2>1, FS_AddElement
  <2>3. (Started \cup {Imu}) \cup {Battery} = {Imu, Battery} \cup Started
    OBVIOUS
  <2>4. QED
    BY <2>2, <2>3
<1>2. LGP!IsFiniteSet({Imu, Battery} \cup Started)
  BY <1>1 DEF IsFiniteSet, LGP!IsFiniteSet
<1>3. QED
  BY <1>2, ImuLoggerAssumption DEF LGP!LoggingAssumption

-----------------------------------------------------------------------------
(* A step of a component is what its own module says *)

LEMMA LoggingSteps ==
  /\ LG!Initialize => LGP!Initialize
  /\ LG!Register => LGP!Register
  /\ LG!CreateQueue => LGP!CreateQueue
  /\ LG!Receive => LGP!Receive
  /\ LG!WriteBegin => LGP!WriteBegin
  /\ LG!WriteEnd => LGP!WriteEnd
  /\ LG!EndOrShutdown => LGP!EndOrShutdown
  /\ LG!Close => LGP!Close
  /\ LG!NotifyStop => LGP!NotifyStop
  /\ LG!ShutdownNotify_Open => LGP!ShutdownNotify_Open
  /\ LG!ShutdownNotify_Send => LGP!ShutdownNotify_Send
<1> USE DEF LG!shared, LGP!shared, LG!logger, LGP!logger, LG!producers, LGP!producers,
            LG!NoMessage, LGP!NoMessage, LG!Place, LGP!Place
<1>1. /\ LG!Initialize => LGP!Initialize
      /\ LG!Register => LGP!Register
      /\ LG!CreateQueue => LGP!CreateQueue
      /\ LG!Receive => LGP!Receive
  BY DEF LG!Initialize, LGP!Initialize, LG!Register, LGP!Register,
         LG!CreateQueue, LGP!CreateQueue, LG!Receive, LGP!Receive
<1>2. /\ LG!WriteBegin => LGP!WriteBegin
      /\ LG!WriteEnd => LGP!WriteEnd
      /\ LG!EndOrShutdown => LGP!EndOrShutdown
      /\ LG!Close => LGP!Close
      /\ LG!NotifyStop => LGP!NotifyStop
  BY DEF LG!WriteBegin, LGP!WriteBegin, LG!WriteEnd, LGP!WriteEnd,
         LG!EndOrShutdown, LGP!EndOrShutdown, LG!Handled, LGP!Handled,
         LG!Close, LGP!Close, LG!NotifyStop, LGP!NotifyStop
<1>3. /\ LG!ShutdownNotify_Open => LGP!ShutdownNotify_Open
      /\ LG!ShutdownNotify_Send => LGP!ShutdownNotify_Send
  BY DEF LG!ShutdownNotify_Open, LGP!ShutdownNotify_Open,
         LG!ShutdownNotify_Send, LGP!ShutdownNotify_Send,
         LG!Logging_OpenQueue, LGP!Logging_OpenQueue,
         LG!Logging_SendQueue, LGP!Logging_SendQueue,
         LG!ShutdownMessage, LGP!ShutdownMessage
<1>4. QED
  BY <1>1, <1>2, <1>3

LEMMA ProducerSteps ==
  ASSUME NEW p
  PROVE  /\ LG!Open(p) => LGP!Open(p)
         /\ LG!Fill(p) => LGP!Fill(p)
         /\ LG!Send(p) => LGP!Send(p)
         /\ LG!SendLast(p) => LGP!SendLast(p)
         /\ LG!SendUnfilled(p) => LGP!SendUnfilled(p)
         /\ LG!SendEnd(p) => LGP!SendEnd(p)
         /\ LG!Abandon(p) => LGP!Abandon(p)
<1> USE DEF LG!shared, LGP!shared, LG!logger, LGP!logger, LG!Place, LGP!Place,
            LG!Logging_SendQueue, LGP!Logging_SendQueue
<1>1. /\ LG!Open(p) => LGP!Open(p)
      /\ LG!Fill(p) => LGP!Fill(p)
      /\ LG!Abandon(p) => LGP!Abandon(p)
  BY DEF LG!Open, LGP!Open, LG!Logging_OpenQueue, LGP!Logging_OpenQueue,
         LG!Fill, LGP!Fill, LG!Abandon, LGP!Abandon
<1>2. /\ LG!Send(p) => LGP!Send(p)
      /\ LG!SendLast(p) => LGP!SendLast(p)
      /\ LG!SendUnfilled(p) => LGP!SendUnfilled(p)
  BY DEF LG!Send, LGP!Send, LG!SendLast, LGP!SendLast,
         LG!SendUnfilled, LGP!SendUnfilled, LG!WriteMessage, LGP!WriteMessage
<1>3. LG!SendEnd(p) => LGP!SendEnd(p)
  BY DEF LG!SendEnd, LGP!SendEnd, LG!EndMessage, LGP!EndMessage
<1>4. QED
  BY <1>1, <1>2, <1>3

LEMMA ClientSteps ==
  ASSUME NEW t
  PROVE  /\ PC!SetShutdownCallback(t) => PCP!SetShutdownCallback(t)
         /\ PC!NotifyStop(t) => PCP!NotifyStop(t)
         /\ PC!Exit(t) => PCP!Exit(t)
         /\ PC!Abandon(t) => PCP!Abandon(t)
<1> USE DEF PC!mutex, PCP!mutex, PC!table, PCP!table, PC!flags, PCP!flags,
            PC!CanLock, PCP!CanLock, PC!Locked, PCP!Locked, PC!Unlocked, PCP!Unlocked,
            PC!Goto, PCP!Goto, PC!ERROR, PCP!ERROR, PC!Index, PCP!Index
<1>1. /\ PC!SetShutdownCallback_Wait(t) => PCP!SetShutdownCallback_Wait(t)
      /\ PC!SetShutdownCallback_Refuse(t) => PCP!SetShutdownCallback_Refuse(t)
      /\ PC!SetShutdownCallback_Load(t) => PCP!SetShutdownCallback_Load(t)
  BY DEF PC!SetShutdownCallback_Wait, PCP!SetShutdownCallback_Wait,
         PC!SetShutdownCallback_Refuse, PCP!SetShutdownCallback_Refuse,
         PC!SetShutdownCallback_Load, PCP!SetShutdownCallback_Load,
         PC!LoadFree, PCP!LoadFree
<1>2. /\ PC!SetShutdownCallback_Store(t) => PCP!SetShutdownCallback_Store(t)
      /\ PC!SetShutdownCallback_Full(t) => PCP!SetShutdownCallback_Full(t)
  BY DEF PC!SetShutdownCallback_Store, PCP!SetShutdownCallback_Store,
         PC!SetShutdownCallback_Full, PCP!SetShutdownCallback_Full,
         PC!TakeSlot, PCP!TakeSlot, PC!IsHighest, PCP!IsHighest
<1>3. /\ PC!NotifyStop_Refuse(t) => PCP!NotifyStop_Refuse(t)
      /\ PC!NotifyStop_Load(t) => PCP!NotifyStop_Load(t)
      /\ PC!NotifyStop_Store(t) => PCP!NotifyStop_Store(t)
  BY DEF PC!NotifyStop_Refuse, PCP!NotifyStop_Refuse,
         PC!NotifyStop_Load, PCP!NotifyStop_Load, PC!TakeOut, PCP!TakeOut,
         PC!NotifyStop_Store, PCP!NotifyStop_Store, PC!StoreCleared, PCP!StoreCleared
<1>4. /\ PC!Exit(t) => PCP!Exit(t)
      /\ PC!Abandon(t) => PCP!Abandon(t)
  BY DEF PC!Exit, PCP!Exit, PC!ReleaseOnExit, PCP!ReleaseOnExit,
         PC!Abandon, PCP!Abandon
<1>5. QED
  BY <1>1, <1>2, <1>3, <1>4
     DEF PC!SetShutdownCallback, PCP!SetShutdownCallback, PC!NotifyStop, PCP!NotifyStop

LEMMA MainSteps ==
  /\ PC!PowerReady => PCP!PowerReady
  /\ PC!Shutdown_Begin => PCP!Shutdown_Begin
  /\ PC!Shutdown_Call => PCP!Shutdown_Call
  /\ PC!Shutdown_Skip => PCP!Shutdown_Skip
  /\ PC!Shutdown_Return => PCP!Shutdown_Return
  /\ PC!Shutdown_AllCalled => PCP!Shutdown_AllCalled
  /\ PC!Shutdown_Wait => PCP!Shutdown_Wait
  /\ PC!Shutdown_Relock => PCP!Shutdown_Relock
  /\ PC!Shutdown_Complete => PCP!Shutdown_Complete
<1> USE DEF PC!mutex, PCP!mutex, PC!table, PCP!table, PC!flags, PCP!flags,
            PC!CanLock, PCP!CanLock, PC!Locked, PCP!Locked, PC!Unlocked, PCP!Unlocked,
            PC!Goto, PCP!Goto, PC!Task, PCP!Task, PC!IsHighest, PCP!IsHighest
<1>1. /\ PC!PowerReady => PCP!PowerReady
      /\ PC!Shutdown_Begin => PCP!Shutdown_Begin
      /\ PC!Shutdown_Call => PCP!Shutdown_Call
      /\ PC!Shutdown_Skip => PCP!Shutdown_Skip
  BY DEF PC!PowerReady, PCP!PowerReady, PC!Shutdown_Begin, PCP!Shutdown_Begin,
         PC!Shutdown_Call, PCP!Shutdown_Call, PC!Shutdown_Skip, PCP!Shutdown_Skip
<1>2. /\ PC!Shutdown_Return => PCP!Shutdown_Return
      /\ PC!Shutdown_AllCalled => PCP!Shutdown_AllCalled
      /\ PC!Shutdown_Wait => PCP!Shutdown_Wait
      /\ PC!Shutdown_Relock => PCP!Shutdown_Relock
      /\ PC!Shutdown_Complete => PCP!Shutdown_Complete
  BY DEF PC!Shutdown_Return, PCP!Shutdown_Return, PC!Called, PCP!Called,
         PC!Shutdown_AllCalled, PCP!Shutdown_AllCalled,
         PC!Shutdown_Wait, PCP!Shutdown_Wait, PC!Shutdown_Relock, PCP!Shutdown_Relock,
         PC!Shutdown_Complete, PCP!Shutdown_Complete
<1>3. QED
  BY <1>1, <1>2

LEMMA InitOfBoth == Init => PCP!Init /\ LGP!Init
<1>1. PC!Init => PCP!Init
  BY DEF PC!Init, PCP!Init, PC!Task, PCP!Task, PC!Index, PCP!Index
<1>2. LG!Init => LGP!Init
  BY DEF LG!Init, LGP!Init, LG!Opener, LGP!Opener, LG!NoMessage, LGP!NoMessage
<1>3. QED
  BY <1>1, <1>2 DEF Init

-----------------------------------------------------------------------------
(* Every step of the system is one of each component, or changes nothing of it *)

\* What a component sees of a step of the system.
PowerStep == [PCP!Next]_PCP!vars
LoggingStep == [LGP!Next]_LGP!vars

LEMMA PowerKept == UNCHANGED powerVars => PowerStep
BY DEF powerVars, PowerStep, PCP!vars, PCP!mutex, PCP!table, PCP!flags

LEMMA LoggingKept == UNCHANGED loggingVars => LoggingStep
BY DEF loggingVars, LoggingStep, LGP!vars, LGP!shared, LGP!logger, LGP!producers

LEMMA ClientMoves ==
  ASSUME NEW t \in {Logger, Imu},
         PC!SetShutdownCallback(t) \/ PC!NotifyStop(t) \/ PC!Exit(t) \/ PC!Abandon(t)
  PROVE  PowerStep
BY ClientSteps DEF PowerStep, PCP!Next

LEMMA ProducerMoves ==
  ASSUME NEW p \in {Imu, Battery},
         \/ LG!Open(p) \/ LG!Fill(p) \/ LG!Send(p) \/ LG!SendLast(p)
         \/ LG!SendUnfilled(p) \/ LG!SendEnd(p) \/ LG!Abandon(p)
  PROVE  LoggingStep
<1>1. LGP!ProducerNext(p)
  BY ProducerSteps DEF LGP!ProducerNext
<1>2. QED
  BY <1>1 DEF LoggingStep, LGP!Next

LEMMA LoggerMoves ==
  ASSUME \/ LG!Initialize \/ LG!Register \/ LG!CreateQueue \/ LG!Receive \/ LG!WriteBegin
         \/ LG!WriteEnd \/ LG!EndOrShutdown \/ LG!Close \/ LG!NotifyStop
         \/ LG!ShutdownNotify_Open \/ LG!ShutdownNotify_Send
  PROVE  LoggingStep
BY LoggingSteps DEF LoggingStep, LGP!Next, LGP!LoggerNext

LEMMA MainMoves ==
  ASSUME \/ PC!PowerReady \/ PC!Shutdown_Begin \/ PC!Shutdown_Call \/ PC!Shutdown_Skip
         \/ PC!Shutdown_Return \/ PC!Shutdown_AllCalled \/ PC!Shutdown_Wait
         \/ PC!Shutdown_Relock \/ PC!Shutdown_Complete
  PROVE  PowerStep
BY MainSteps DEF PowerStep, PCP!Next, PCP!Shutdown

LEMMA StepOfBoth == [Next]_vars => PowerStep /\ LoggingStep
<1> SUFFICES ASSUME [Next]_vars PROVE PowerStep /\ LoggingStep
  OBVIOUS
<1> HIDE DEF PowerStep, LoggingStep
<1>1. CASE LoggerNext
  BY <1>1, PowerKept, LoggingKept, ClientMoves, LoggerMoves
     DEF LoggerNext, Logger_Run, Logger_Register, Logger_CreateQueue, Logger_NotifyStop,
         Logger_Exit
<1>2. CASE ImuSetup
  BY <1>2, PowerKept, LoggingKept, ClientMoves, ProducerMoves
     DEF ImuSetup, Imu_Register, Imu_Refused, Imu_MakeFifo, Imu_OpenFifo, Imu_Setup,
         Imu_SetupFails
<1>3. CASE Imu_OpenQueue \/ Imu_Sample \/ Imu_SendLast \/ ImuStop
  BY <1>3, PowerKept, LoggingKept, ClientMoves, ProducerMoves
     DEF Imu_OpenQueue, Imu_Sample, Imu_SendLast, ImuStop, Imu_SendEnd, Imu_NotifyStop,
         Imu_Exit
<1>4. CASE Battery_Run
  BY <1>4, PowerKept, ProducerMoves DEF Battery_Run
<1>5. CASE MainNext
  BY <1>5, PowerKept, LoggingKept, MainMoves, LoggerMoves
     DEF MainNext, MainShutdown, Main_PowerReady, Main_Begin, Main_Run,
         Main_ShutdownNotify, Main_ShutdownHandler
<1>6. CASE UNCHANGED vars
  BY <1>6, PowerKept, LoggingKept DEF vars
<1>7. QED
  BY <1>1, <1>2, <1>3, <1>4, <1>5, <1>6 DEF Next, ImuNext

(***************************************************************************)
(* The system implements the table of shutdown handlers (PowerCtrl.c) and  *)
(* the queue with its logger (Logging.c, Logging_main.c): composing them   *)
(* adds no step that either module does not allow.                         *)
(***************************************************************************)
THEOREM ImplementsBoth == Spec => PCP!Spec /\ LGP!Spec
<1>1. [Next]_vars => [PCP!Next]_PCP!vars /\ [LGP!Next]_LGP!vars
  BY StepOfBoth DEF PowerStep, LoggingStep
<1>2. QED
  BY <1>1, InitOfBoth, PTL DEF Spec, PCP!Spec, LGP!Spec

-----------------------------------------------------------------------------
(* What is known of each component *)

Inherited ==
  /\ PCP!TypeOK /\ PCP!IInv /\ PCP!HandlersJoined
  /\ LGP!IInv /\ LGP!ShutdownSent /\ LGP!EndMeansAllWritten

LEMMA Inherits == Spec => []Inherited
<1>1. PCP!Spec => [](PCP!TypeOK /\ PCP!IInv)
  BY PowerCtrlIn, PCP!InductiveInvariant
<1>2. PCP!Spec => []PCP!HandlersJoined
  BY PowerCtrlIn, PCP!HandlersStored
<1>3. LGP!Spec => []LGP!IInv
  BY LoggingIn, LGP!Invariant
<1>4. LGP!Spec => []LGP!ShutdownSent
  BY LoggingIn, LGP!ShutdownIsSent
<1>5. LGP!Spec => []LGP!EndMeansAllWritten
  BY LoggingIn, LGP!EndComesLast
<1>6. QED
  BY <1>1, <1>2, <1>3, <1>4, <1>5, ImplementsBoth, PTL DEF Inherited

(***************************************************************************)
(* Type correctness of the composed system: that of its components, and    *)
(* of what Imu_Logging_Run adds to them (Imu_Logging.c:120-165).           *)
(***************************************************************************)
THEOREM TypeCorrect == Spec => []TypeOK
<1> DEFINE ImuTypes == /\ fifo \in {"absent", "made", "open"}
                       /\ isSensing \in BOOLEAN
                       /\ event \in BOOLEAN
<1>1. Init => ImuTypes
  BY DEF Init
<1>2. ImuTypes /\ [Next]_vars => ImuTypes'
  BY DEF vars, imu, Next, LoggerNext, Logger_Run, Logger_Register, Logger_CreateQueue,
         Logger_NotifyStop, Logger_Exit, ImuNext, ImuSetup, ImuStop, Imu_OpenQueue,
         Imu_Register, Imu_Refused, Imu_MakeFifo, Imu_OpenFifo, Imu_Setup, Imu_SetupFails,
         Imu_Sample, Imu_SendLast, Imu_SendEnd, Imu_NotifyStop, Imu_Exit, Battery_Run,
         MainNext, MainShutdown, Main_PowerReady, Main_Begin, Main_Run,
         Main_ShutdownNotify, Main_ShutdownHandler
<1>3. PCP!TypeOK => PC!TypeOK
  BY DEF PCP!TypeOK, PC!TypeOK, PCP!Task, PC!Task, PCP!Index, PC!Index, PCP!ERROR,
         PC!ERROR, PCP!ClientAt, PC!ClientAt, PCP!MainAt, PC!MainAt
<1>4. LGP!TypeOK => LG!TypeOK
  BY DEF LGP!TypeOK, LG!TypeOK, LGP!Message, LG!Message, LGP!Opener, LG!Opener,
         LGP!NoMessage, LG!NoMessage, LGP!LoggerAt, LG!LoggerAt, LGP!OpenerAt, LG!OpenerAt
<1>5. Inherited => PC!TypeOK /\ LG!TypeOK
  BY <1>3, <1>4 DEF Inherited, LGP!IInv, LGP!TypeInv
<1>6. Spec => []ImuTypes
  BY <1>1, <1>2, PTL DEF Spec
<1>7. PC!TypeOK /\ LG!TypeOK /\ ImuTypes => TypeOK
  BY DEF TypeOK
<1>8. QED
  BY <1>5, <1>6, <1>7, Inherits, PTL

-----------------------------------------------------------------------------
(***************************************************************************)
(* How the two components are tied: where a task is in Logging against     *)
(* where it is in PowerCtrl.  No invariant of a component says so, since   *)
(* either of them lets its tasks stop, or never stop, on their own.        *)
(***************************************************************************)
LoggerPlace ==
  /\ loggerAt = "mount" => at[Logger] = "fresh"
  /\ loggerAt = "register" => at[Logger] \in {"fresh", "bootWait", "bootWake", "alloc"}
  /\ loggerAt \in {"create", "receive", "dispatch", "write", "close", "crashed"} =>
       at[Logger] = "running"
  /\ loggerAt = "notify" => at[Logger] \in {"running", "clear", "done"}
  /\ loggerAt = "failed" =>
       at[Logger] \in {"fresh", "abandoned"}
         \/ (at[Logger] = "exited" /\ handlerId[Logger] = PC!ERROR)

\* Imu begins a block only once it has set itself up, and is in the table then.
ImuPlace ==
  /\ openerAt[Imu] = "fresh" => at[Imu] = "fresh" /\ ~isSensing
  /\ openerAt[Imu] \in {"filling", "ending"} => isSensing
  /\ isSensing /\ openerAt[Imu] \in {"opened", "filling", "ending"} => Registered(Imu)

\* The logger's handler runs in the shutdown only.
MainPlace == openerAt[Main] # "fresh" => isPowerShutdown

\* t is not in the table, and would be refused now.
Barred(t) == at[t] \in {"fresh", "bootWait", "bootWake"} \/ Refused(t)

\* Once the logger has left its loop, Imu has said all or will say nothing.
Closed ==
  loggerAt \in {"close", "notify", "stopped"} =>
    /\ isPowerShutdown
    /\ \/ openerAt[Imu] = "ended" /\ Len(handed[Imu]) = seqId[Imu] + 1
       \/ openerAt[Imu] \in {"fresh", "opened"} /\ Barred(Imu)
       \/ openerAt[Imu] = "abandoned"

Tied == LoggerPlace /\ ImuPlace /\ MainPlace /\ Closed

(* What a call into PowerCtrl does to the place of a task *)

\* t's call leaves the others where they are.
Alone(t) ==
  /\ \A u \in {Logger, Imu} \ {t} : at'[u] = at[u] /\ handlerId'[u] = handlerId[u]
  /\ isPowerShutdown' = isPowerShutdown

LEMMA Places ==
  ASSUME Inherited
  PROVE  /\ \A t \in {Logger, Imu} : t \in DOMAIN at /\ t \in DOMAIN handlerId /\ t # Main
         /\ at[Main] = "callback" => isPowerShutdown
         /\ openerAt \in [{Imu, Battery, Main} \cup Started -> LGP!OpenerAt]
         /\ openerAt[Imu] \in LGP!OpenerAt
         /\ Imu \in DOMAIN seqId
<1>1. PCP!TypeOK /\ LGP!TypeOK /\ PCP!FlagsOfMain
  BY DEF Inherited, LGP!IInv, LGP!TypeInv, PCP!IInv
<1>2. \A t \in {Logger, Imu} : t \in DOMAIN at /\ t \in DOMAIN handlerId /\ t # Main
  BY <1>1, ImuLoggerAssumption DEF PCP!TypeOK, PCP!Task
<1>3. at[Main] = "callback" => isPowerShutdown
  BY <1>1 DEF PCP!FlagsOfMain
<1>4. openerAt \in [{Imu, Battery, Main} \cup Started -> LGP!OpenerAt]
  BY <1>1 DEF LGP!TypeOK, LGP!Opener
<1>5. Imu \in DOMAIN seqId
  BY <1>1 DEF LGP!TypeOK
<1>6. QED
  BY <1>2, <1>3, <1>4, <1>5

LEMMA Registers ==
  ASSUME Inherited, NEW t \in {Logger, Imu}, PC!SetShutdownCallback(t)
  PROVE  /\ Alone(t)
         /\ at[t] \in {"fresh", "bootWake", "alloc"}
         /\ \/ at'[t] \in {"bootWait", "alloc"} /\ handlerId'[t] = handlerId[t]
            \/ at'[t] = "running"
         /\ isPowerShutdown /\ at[t] # "alloc" => Barred(t)'
<1> USE Places
    DEF PC!SetShutdownCallback, Alone, Barred, Refused, PC!Goto, PC!flags, PC!ERROR
<1>1. CASE PC!SetShutdownCallback_Wait(t)
  BY <1>1 DEF PC!SetShutdownCallback_Wait
<1>2. CASE PC!SetShutdownCallback_Refuse(t)
  BY <1>2 DEF PC!SetShutdownCallback_Refuse
<1>3. CASE PC!SetShutdownCallback_Load(t)
  BY <1>3 DEF PC!SetShutdownCallback_Load, PC!LoadFree
<1>4. CASE PC!SetShutdownCallback_Store(t)
  BY <1>4 DEF PC!SetShutdownCallback_Store, PC!TakeSlot
<1>5. CASE PC!SetShutdownCallback_Full(t)
  BY <1>5 DEF PC!SetShutdownCallback_Full
<1>6. QED
  BY <1>1, <1>2, <1>3, <1>4, <1>5

LEMMA Notifies ==
  ASSUME Inherited, NEW t \in {Logger, Imu}, PC!NotifyStop(t)
  PROVE  /\ Alone(t) /\ handlerId'[t] = handlerId[t]
         /\ at[t] \in {"running", "clear"} /\ at'[t] \in {"clear", "done"}
<1> USE Places DEF Alone, PC!Goto, PC!flags
<1>1. CASE PC!NotifyStop_Refuse(t) \/ PC!NotifyStop_Load(t)
  BY <1>1 DEF PC!NotifyStop_Refuse, PC!NotifyStop_Load, PC!TakeOut
<1>2. CASE PC!NotifyStop_Store(t)
  BY <1>2 DEF PC!NotifyStop_Store, PC!StoreCleared
<1>3. QED
  BY <1>1, <1>2 DEF PC!NotifyStop

LEMMA Leaves ==
  ASSUME Inherited, NEW t \in {Logger, Imu}, PC!Exit(t) \/ PC!Abandon(t)
  PROVE  /\ Alone(t) /\ handlerId'[t] = handlerId[t]
         /\ PC!Exit(t) => /\ at'[t] = "exited"
                          /\ at[t] = "done" \/ Refused(t)
         /\ PC!Abandon(t) => at'[t] = "abandoned" /\ Registered(t)
BY Places DEF Alone, PC!Exit, PC!Abandon, PC!Goto, PC!flags, PC!ERROR, Refused, Registered

\* Main's steps move no task but those that wait for the power.
LEMMA MainLeaves ==
  ASSUME Inherited,
         \/ PC!PowerReady \/ PC!Shutdown_Begin \/ PC!Shutdown_Call \/ PC!Shutdown_Skip
         \/ PC!Shutdown_Return \/ PC!Shutdown_AllCalled \/ PC!Shutdown_Wait
         \/ PC!Shutdown_Relock \/ PC!Shutdown_Complete
  PROVE  /\ handlerId' = handlerId
         /\ isPowerShutdown => isPowerShutdown'
         /\ \A t \in {Logger, Imu} :
              at'[t] = at[t] \/ (at[t] = "bootWait" /\ at'[t] = "bootWake")
<1> USE Places DEF PC!Goto, PC!flags
<1>1. CASE PC!PowerReady
  BY <1>1, ImuLoggerAssumption DEF PC!PowerReady, PC!Task
<1>2. CASE PC!Shutdown_Begin \/ PC!Shutdown_Call \/ PC!Shutdown_Skip \/ PC!Shutdown_Return
  BY <1>2 DEF PC!Shutdown_Begin, PC!Shutdown_Call, PC!Shutdown_Skip, PC!Shutdown_Return,
              PC!Called
<1>3. CASE PC!Shutdown_AllCalled \/ PC!Shutdown_Wait \/ PC!Shutdown_Relock
            \/ PC!Shutdown_Complete
  BY <1>3 DEF PC!Shutdown_AllCalled, PC!Shutdown_Wait, PC!Shutdown_Relock,
              PC!Shutdown_Complete
<1>4. QED
  BY <1>1, <1>2, <1>3

(* Every step keeps the two tied *)

\* The step in which the logger leaves its loop.
LEMMA LeavesLoop ==
  ASSUME Inherited, Inherited', Tied, [Next]_vars, loggerAt # "close", loggerAt' = "close",
         UNCHANGED <<powerVars, imu>>
  PROVE  Closed'
<1>1. /\ LGP!IInv /\ LGP!IInv' /\ LGP!ShutdownSent /\ LGP!EndMeansAllWritten'
  BY DEF Inherited
<1>2. LGP!Next
  BY StepOfBoth DEF LoggingStep, LGP!vars, LGP!logger
<1>3. /\ UNCHANGED openerAt
      /\ desc.type = "SHUTDOWN" \/ isShutdown
      /\ LGP!Outstanding' = {}
  BY <1>1, <1>2, LoggingIn, LGP!NoneOwes
<1>4. isPowerShutdown'
  BY <1>1, <1>3 DEF LGP!ShutdownSent, LGP!ShutdownSeen, Tied, MainPlace, powerVars
<1>5. openerAt[Imu] \in {"fresh", "ended"}
  BY <1>3, Places DEF LGP!Outstanding, LGP!OpenerAt
<1>6. ASSUME openerAt[Imu] = "ended" PROVE Len(handed'[Imu]) = seqId'[Imu] + 1
  BY <1>1, <1>3, <1>6 DEF LGP!Outstanding, LGP!EndMeansAllWritten
<1>7. ASSUME openerAt[Imu] = "fresh" PROVE Barred(Imu)'
  BY <1>7 DEF Tied, ImuPlace, Barred, powerVars
<1>8. QED
  BY <1>3, <1>4, <1>5, <1>6, <1>7 DEF Closed

LEMMA LoggerTied == ASSUME Inherited, Inherited', Tied, LoggerNext PROVE Tied'
<1> USE Places
<1>1. UNCHANGED <<openerAt, seqId, imu>>
  BY DEF LoggerNext, Logger_Run, Logger_Register, Logger_CreateQueue, Logger_NotifyStop,
         Logger_Exit, loggingVars, LG!Initialize, LG!Register, LG!CreateQueue, LG!Receive,
         LG!WriteBegin, LG!WriteEnd, LG!EndOrShutdown, LG!Handled, LG!Close, LG!NotifyStop,
         LG!producers, LG!logger
<1>2. Alone(Logger)
  BY Registers, Notifies, Leaves
     DEF LoggerNext, Logger_Run, Logger_Register, Logger_CreateQueue, Logger_NotifyStop,
         Logger_Exit, powerVars, Alone
<1>3. ImuPlace' /\ MainPlace'
  BY <1>1, <1>2, ImuLoggerAssumption
     DEF Tied, ImuPlace, MainPlace, Alone, Registered, imu, PC!ERROR
<1>4. LoggerPlace'
  <2>1. CASE Logger_Run
    BY <2>1 DEF Logger_Run, Tied, LoggerPlace, powerVars, LG!Initialize, LG!Receive,
       LG!WriteBegin, LG!WriteEnd, LG!EndOrShutdown, LG!Handled, LG!Close, PC!ERROR
  <2>2. CASE Logger_Register
    BY <2>2, Registers DEF Logger_Register, Tied, LoggerPlace, loggingVars, LG!Register
  <2>3. CASE Logger_CreateQueue
    BY <2>3, Leaves DEF Logger_CreateQueue, Tied, LoggerPlace, powerVars, LG!CreateQueue,
       Refused, PC!ERROR
  <2>4. CASE Logger_NotifyStop
    BY <2>4, Notifies DEF Logger_NotifyStop, Tied, LoggerPlace, loggingVars
  <2>5. CASE Logger_Exit
    BY <2>5 DEF Logger_Exit, Tied, LoggerPlace, LG!NotifyStop
  <2>6. QED
    BY <2>1, <2>2, <2>3, <2>4, <2>5 DEF LoggerNext
<1>5. Closed'
  <2>1. CASE loggerAt # "close" /\ loggerAt' = "close"
    <3>1. UNCHANGED powerVars
      BY <2>1 DEF LoggerNext, Logger_Run, Logger_Register, Logger_CreateQueue,
         Logger_NotifyStop, Logger_Exit, loggingVars, LG!Register, LG!CreateQueue,
         LG!NotifyStop
    <3>2. QED
      BY <1>1, <2>1, <3>1, LeavesLoop DEF Next
  <2>2. CASE ~(loggerAt # "close" /\ loggerAt' = "close")
    <3>1. loggerAt' \in {"close", "notify", "stopped"} =>
            loggerAt \in {"close", "notify", "stopped"} /\ handed' = handed
      BY <2>2 DEF LoggerNext, Logger_Run, Logger_Register, Logger_CreateQueue,
         Logger_NotifyStop, Logger_Exit, loggingVars, LG!Initialize, LG!Register,
         LG!CreateQueue, LG!Receive, LG!WriteBegin, LG!WriteEnd, LG!EndOrShutdown,
         LG!Handled, LG!Close, LG!NotifyStop
    <3>2. Barred(Imu) => Barred(Imu)'
      BY <1>2, ImuLoggerAssumption DEF Alone, Barred, Refused, PC!ERROR
    <3>3. QED
      BY <1>1, <1>2, <3>1, <3>2 DEF Tied, Closed, Alone
  <2>3. QED
    BY <2>1, <2>2
<1>6. QED
  BY <1>3, <1>4, <1>5 DEF Tied

LEMMA ImuTied ==
  ASSUME Inherited, Tied, ImuNext \/ Battery_Run
  PROVE  Tied'
<1> USE Places, ImuLoggerAssumption
<1>1. UNCHANGED <<loggerAt, handed>> /\ openerAt'[Main] = openerAt[Main]
  BY DEF ImuNext, ImuSetup, ImuStop, Imu_OpenQueue, Imu_Register, Imu_Refused, Imu_MakeFifo,
         Imu_OpenFifo, Imu_Setup, Imu_SetupFails, Imu_Sample, Imu_SendLast, Imu_SendEnd,
         Imu_NotifyStop, Imu_Exit, Battery_Run, loggingVars, LG!Open, LG!Fill, LG!Send,
         LG!SendLast, LG!SendUnfilled, LG!SendEnd, LG!Abandon, LG!Place, LG!logger
<1>2. Alone(Imu)
  BY Registers, Notifies, Leaves
     DEF ImuNext, ImuSetup, ImuStop, Imu_OpenQueue, Imu_Register, Imu_Refused, Imu_MakeFifo,
         Imu_OpenFifo, Imu_Setup, Imu_SetupFails, Imu_Sample, Imu_SendLast, Imu_SendEnd,
         Imu_NotifyStop, Imu_Exit, Battery_Run, powerVars, Alone
<1>3. LoggerPlace' /\ MainPlace'
  BY <1>1, <1>2 DEF Tied, LoggerPlace, MainPlace, Alone, PC!ERROR
<1>4. ImuPlace' /\ Closed'
  <2> USE <1>1, <1>2 DEF Tied, ImuPlace, Closed, Alone
  <2>1. CASE Imu_OpenQueue
    BY <2>1 DEF Imu_OpenQueue, LG!Open, LG!Place, powerVars, imu, Barred, Registered, Refused
  <2>2. CASE Imu_Register
    BY <2>2, Registers DEF Imu_Register, loggingVars, imu, Barred, Registered, Refused
  <2>3. CASE Imu_Refused
    BY <2>3 DEF Imu_Refused, LG!Abandon, LG!Place, imu
  <2>4. CASE Imu_MakeFifo \/ Imu_OpenFifo \/ Imu_Setup
    BY <2>4 DEF Imu_MakeFifo, Imu_OpenFifo, Imu_Setup, powerVars, loggingVars, Barred,
       Registered, Refused
  <2>5. CASE Imu_SetupFails
    BY <2>5 DEF Imu_SetupFails, LG!Abandon, LG!Place, LG!logger
  <2>6. CASE Imu_Sample
    BY <2>6 DEF Imu_Sample, LG!Fill, LG!Send, LG!Place, powerVars, imu, Barred, Registered,
       Refused
  <2>7. CASE Imu_SendLast
    BY <2>7 DEF Imu_SendLast, LG!SendLast, LG!SendUnfilled, LG!Place, powerVars, imu, Barred,
       Registered, Refused
  <2>8. CASE Imu_SendEnd
    BY <2>8 DEF Imu_SendEnd, LG!SendEnd, LG!Place, powerVars, imu
  <2>9. CASE Imu_NotifyStop \/ Imu_Exit
    BY <2>9, Notifies, Leaves DEF Imu_NotifyStop, Imu_Exit, loggingVars, imu, Barred,
       Registered, Refused
  <2>10. CASE Battery_Run
    BY <2>10 DEF Battery_Run, LG!Open, LG!Fill, LG!Send, LG!Abandon, LG!Place, powerVars,
       imu, Barred, Registered, Refused
  <2>11. QED
    BY <2>1, <2>2, <2>3, <2>4, <2>5, <2>6, <2>7, <2>8, <2>9, <2>10
       DEF ImuNext, ImuSetup, ImuStop
<1>5. QED
  BY <1>3, <1>4 DEF Tied

LEMMA MainTied == ASSUME Inherited, Tied, MainNext PROVE Tied'
<1> USE Places, ImuLoggerAssumption
<1>1. /\ UNCHANGED <<loggerAt, handed, seqId, isSensing>>
      /\ openerAt'[Imu] = openerAt[Imu]
  BY DEF MainNext, MainShutdown, Main_PowerReady, Main_Begin, Main_Run, Main_ShutdownNotify,
         Main_ShutdownHandler, loggingVars, imu, LG!ShutdownNotify_Open,
         LG!ShutdownNotify_Send, LG!Place, LG!logger
<1>2. /\ handlerId' = handlerId
      /\ isPowerShutdown => isPowerShutdown'
      /\ \A t \in {Logger, Imu} :
           at'[t] = at[t] \/ (at[t] = "bootWait" /\ at'[t] = "bootWake")
  <2>1. CASE UNCHANGED powerVars
    BY <2>1 DEF powerVars
  <2>2. CASE ~UNCHANGED powerVars
    BY <2>2, MainLeaves
       DEF MainNext, MainShutdown, Main_PowerReady, Main_Begin, Main_Run,
           Main_ShutdownNotify, Main_ShutdownHandler
  <2>3. QED
    BY <2>1, <2>2
<1>3. openerAt'[Main] # openerAt[Main] => isPowerShutdown
  BY DEF MainNext, MainShutdown, Main_PowerReady, Main_Begin, Main_Run, Main_ShutdownNotify,
         Main_ShutdownHandler, loggingVars, Calling
<1>4. LoggerPlace' /\ ImuPlace'
  BY <1>1, <1>2 DEF Tied, LoggerPlace, ImuPlace, Registered, PC!ERROR
<1>5. MainPlace'
  BY <1>2, <1>3 DEF Tied, MainPlace
<1>6. Closed'
  <2>1. Barred(Imu) => Barred(Imu)'
    BY <1>2 DEF Barred, Refused, PC!ERROR
  <2>2. QED
    BY <1>1, <1>2, <2>1 DEF Tied, Closed
<1>7. QED
  BY <1>4, <1>5, <1>6 DEF Tied

LEMMA TiedInvariant == Spec => [](Inherited /\ Tied)
<1>1. Init => Tied
  <2> SUFFICES ASSUME Init PROVE Tied
    OBVIOUS
  <2>1. at[Logger] = "fresh" /\ at[Imu] = "fresh"
    BY ImuLoggerAssumption DEF Init, PC!Init, PC!Task
  <2>2. loggerAt = "mount" /\ openerAt[Imu] = "fresh" /\ openerAt[Main] = "fresh"
    BY DEF Init, LG!Init, LG!Opener
  <2>3. QED
    BY <2>1, <2>2 DEF Init, Tied, LoggerPlace, ImuPlace, MainPlace, Closed
<1>2. Inherited /\ Inherited' /\ Tied /\ [Next]_vars => Tied'
  <2> SUFFICES ASSUME Inherited, Inherited', Tied, [Next]_vars PROVE Tied'
    OBVIOUS
  <2>1. CASE UNCHANGED vars
    BY <2>1 DEF vars, powerVars, loggingVars, imu, Tied, LoggerPlace, ImuPlace, MainPlace,
       Closed, Barred, Registered, Refused
  <2>2. QED
    BY <2>1, LoggerTied, ImuTied, MainTied DEF Next
<1>3. QED
  BY <1>1, <1>2, Inherits, PTL DEF Spec

(***************************************************************************)
(* When the shutdown completes with the logger in it, the file is closed   *)
(* and every block Imu sent has been given to the writer before that.      *)
(* PowerCtrl.c:82 waits for the logger's NotifyStop, which comes after     *)
(* Logging_Writer_Close; Logging_main.c:83-85 closes on an open count of   *)
(* zero, which Imu's END is part of.                                       *)
(***************************************************************************)
THEOREM OffIsSaved == Spec => []OffMeansSaved
<1>1. ASSUME Inherited, Tied PROVE OffMeansSaved
  <2> SUFFICES ASSUME at[Main] = "off", ~ownerDead, Logger \in notified
               PROVE  /\ loggerAt \in {"notify", "stopped"}
                      /\ openerAt[Imu] \in {"ending", "ended"} =>
                           /\ openerAt[Imu] = "ended"
                           /\ Len(handed[Imu]) = seqId[Imu] + 1
    BY DEF OffMeansSaved
  <2>1. /\ handlerId[Logger] # PC!ERROR
        /\ at[Logger] \in {"running", "clear", "done", "exited", "abandoned"}
    BY <1>1 DEF Inherited, PCP!HandlersJoined, PCP!Joined, PCP!ERROR, PC!ERROR
  <2>2. ~PCP!Member(Logger)
    BY <1>1 DEF Inherited, PCP!IInv, PCP!SlotOwnership, PCP!Notified
  <2>3. at[Logger] \in {"done", "exited"}
    BY <2>1, <2>2 DEF PCP!Member, PCP!ERROR, PC!ERROR
  <2>4. loggerAt \in {"notify", "stopped"}
    BY <1>1, <2>1, <2>3 DEF Tied, LoggerPlace, Inherited, LGP!IInv, LGP!TypeInv, LGP!TypeOK,
       LGP!LoggerAt
  <2>5. QED
    BY <1>1, <2>4 DEF Tied, Closed
<1>2. QED
  BY <1>1, TiedInvariant, PTL

=============================================================================
