--------------------------- MODULE PowerCtrlProofs ---------------------------
(***************************************************************************)
(* Machine-checked proofs about PowerCtrl, for any set of clients, any     *)
(* number of slots and any set of clients that may abandon theirs.         *)
(***************************************************************************)
EXTENDS PowerCtrl, TLAPS

(***************************************************************************)
(* Type correctness of PowerCtrl.c's state.                                *)
(***************************************************************************)
THEOREM TypeCorrect == Spec => []TypeOK
<1>1. Init => TypeOK
  <2> SUFFICES ASSUME Init PROVE TypeOK
    OBVIOUS
  <2>1. 0 \in Index
    BY PowerCtrlAssumption, SMT DEF Index
  <2> USE PowerCtrlAssumption DEF Init, Task
  <2>2. handlerId \in [Client -> Index \cup {ERROR}]
    BY <2>1
  <2>3. /\ at \in [Task -> ClientAt \cup MainAt]
        /\ at[Main] \in MainAt
        /\ \A t \in Client : at[t] \in ClientAt
    BY DEF ClientAt, MainAt
  <2>4. QED
    BY <2>2, <2>3 DEF TypeOK
<1>2. TypeOK /\ [Next]_vars => TypeOK'
  <2> SUFFICES ASSUME TypeOK, [Next]_vars PROVE TypeOK'
    OBVIOUS
  <2> USE PowerCtrlAssumption
      DEF TypeOK, Task, Goto, ClientAt, MainAt, mutex, table, flags
  <2>1. ASSUME NEW t \in Client, SetShutdownCallback(t) PROVE TypeOK'
    <3>1. CASE SetShutdownCallback_Wait(t)
      BY <2>1, <3>1 DEF SetShutdownCallback_Wait
    <3>2. CASE SetShutdownCallback_Refuse(t)
      BY <2>1, <3>2 DEF SetShutdownCallback_Refuse, Locked
    <3>3. CASE SetShutdownCallback_Load(t)
      BY <2>1, <3>3 DEF SetShutdownCallback_Load, LoadFree, Locked
    <3>4. CASE SetShutdownCallback_Store(t)
      BY <2>1, <3>4 DEF SetShutdownCallback_Store, TakeSlot, Unlocked
    <3>5. CASE SetShutdownCallback_Full(t)
      BY <2>1, <3>5 DEF SetShutdownCallback_Full, Unlocked
    <3>6. QED
      BY <2>1, <3>1, <3>2, <3>3, <3>4, <3>5 DEF SetShutdownCallback
  <2>2. ASSUME NEW t \in Client, NotifyStop(t) PROVE TypeOK'
    <3>1. CASE NotifyStop_Refuse(t)
      BY <2>2, <3>1 DEF NotifyStop_Refuse, Locked
    <3>2. CASE NotifyStop_Load(t)
      BY <2>2, <3>2 DEF NotifyStop_Load, TakeOut, Locked
    <3>3. CASE NotifyStop_Store(t)
      BY <2>2, <3>3 DEF NotifyStop_Store, StoreCleared, Unlocked
    <3>4. QED
      BY <2>2, <3>1, <3>2, <3>3 DEF NotifyStop
  <2>3. ASSUME NEW t \in Client, Exit(t) \/ Abandon(t) PROVE TypeOK'
    <3>1. CASE Exit(t)
      BY <3>1 DEF Exit, ReleaseOnExit, Unlocked
    <3>2. CASE Abandon(t)
      BY <3>2 DEF Abandon
    <3>3. QED
      BY <2>3, <3>1, <3>2
  <2>4. CASE PowerReady
    BY <2>4 DEF PowerReady
  <2>5. CASE Shutdown
    <3>1. CASE Shutdown_Begin
      BY <3>1 DEF Shutdown_Begin, Locked
    <3>2. CASE Shutdown_Call
      BY <3>2 DEF Shutdown_Call
    <3>3. CASE Shutdown_Skip
      BY <3>3 DEF Shutdown_Skip
    <3>4. CASE Shutdown_Return
      BY <3>4 DEF Shutdown_Return, Called
    <3>5. CASE Shutdown_AllCalled
      BY <3>5 DEF Shutdown_AllCalled
    <3>6. CASE Shutdown_Wait
      BY <3>6 DEF Shutdown_Wait
    <3>7. CASE Shutdown_Relock
      BY <3>7 DEF Shutdown_Relock, Locked
    <3>8. CASE Shutdown_Complete
      BY <3>8 DEF Shutdown_Complete, Unlocked
    <3>9. QED
      BY <2>5, <3>1, <3>2, <3>3, <3>4, <3>5, <3>6, <3>7, <3>8 DEF Shutdown
  <2>6. CASE UNCHANGED vars
    BY <2>6 DEF vars
  <2>7. QED
    BY <2>1, <2>2, <2>3, <2>4, <2>5, <2>6 DEF Next
<1>3. QED
  BY <1>1, <1>2, PTL DEF Spec

-----------------------------------------------------------------------------
(***************************************************************************)
(* The inductive invariant.  SlotOwnership alone is not inductive: a load  *)
(* and the store after it keep the bitmap and the slots together only      *)
(* because the mutex is held in between, and only a client that loaded     *)
(* before the shutdown began can still join.                               *)
(***************************************************************************)

\* Main's place tells the two flags; nobody is notified before the shutdown.
FlagsOfMain ==
  /\ isPowerReady <=> at[Main] # "boot"
  /\ isShutdown <=> at[Main] \notin {"boot", "watch"}
  /\ notified # {} => isShutdown

\* Between load and store, and in the shutdown, the mutex is really held.
HoldsMutex ==
  /\ \A t \in Client : at[t] \in {"alloc", "clear"} => holder = t
  /\ at[Main] \in {"notify", "callback", "drain"} => holder = Main

\* A local copy of the bitmap is not stale while it is used.
FreshCopy ==
  /\ \A t \in Client : at[t] \in {"alloc", "clear"} => word[t] = shutdownBitmap
  /\ \A t \in Client : at[t] = "alloc" => at[Main] = "watch"
  /\ \A t \in Client : at[t] = "clear" => handlerId[t] \in word[t]
  /\ at[Main] \in {"notify", "callback"} => word[Main] \subseteq shutdownBitmap

\* Who has been notified while the handlers are being called, and afterwards.
Notified ==
  /\ at[Main] \in {"notify", "callback"} =>
       \A t \in Client : Member(t) => t \in notified \/ handlerId[t] \in word[Main]
  /\ at[Main] = "callback" =>
       \E i \in word[Main] :
         /\ IsHighest(i, word[Main])
         /\ shutdownCallback[i] \in notified
         /\ \A j \in word[Main] \ {i} : shutdownCallback[j] \notin {NoTask} \cup notified
  /\ at[Main] = "off" => shutdownBitmap = {}

IInv ==
  /\ FlagsOfMain
  /\ ~ownerDead => HoldsMutex /\ FreshCopy /\ Notified
  /\ SlotOwnership
  /\ EveryoneNotified
  /\ NoLostWakeup

(***************************************************************************)
(* Every step of the code preserves the inductive invariant.               *)
(***************************************************************************)
LEMMA IInvStep == ASSUME TypeOK, TypeOK', IInv, Next PROVE IInv'
<1> USE PowerCtrlAssumption
    DEF Task, Goto, CanLock, mutex, table, flags, Member, Index, ERROR,
        ClientAt, MainAt, TypeOK, IInv, FlagsOfMain, HoldsMutex, FreshCopy,
        Notified, SlotOwnership, EveryoneNotified, NoLostWakeup
<1>1. ASSUME NEW t \in Client, SetShutdownCallback_Wait(t) PROVE IInv'
  BY <1>1 DEF SetShutdownCallback_Wait
<1>2. ASSUME NEW t \in Client, SetShutdownCallback_Refuse(t) PROVE IInv'
  BY <1>2 DEF SetShutdownCallback_Refuse, Locked
<1>3. ASSUME NEW t \in Client, SetShutdownCallback_Load(t) PROVE IInv'
  BY <1>3 DEF SetShutdownCallback_Load, LoadFree, Locked
<1>4. ASSUME NEW t \in Client, SetShutdownCallback_Store(t) PROVE IInv'
  <2>1. FlagsOfMain'
    BY <1>4 DEF SetShutdownCallback_Store, TakeSlot, Unlocked, IsHighest
  <2>2. (~ownerDead => HoldsMutex)'
    BY <1>4 DEF SetShutdownCallback_Store, TakeSlot, Unlocked, IsHighest
  <2>3. (~ownerDead => FreshCopy)'
    BY <1>4 DEF SetShutdownCallback_Store, TakeSlot, Unlocked, IsHighest
  <2>4. (~ownerDead => Notified)'
    BY <1>4 DEF SetShutdownCallback_Store, TakeSlot, Unlocked, IsHighest
  <2>5. SlotOwnership'
    BY <1>4 DEF SetShutdownCallback_Store, TakeSlot, Unlocked, IsHighest
  <2>6. EveryoneNotified'
    BY <1>4 DEF SetShutdownCallback_Store, TakeSlot, Unlocked, IsHighest
  <2>7. NoLostWakeup'
    BY <1>4 DEF SetShutdownCallback_Store, TakeSlot, Unlocked, IsHighest
  <2>8. QED
    BY <2>1, <2>2, <2>3, <2>4, <2>5, <2>6, <2>7
<1>5. ASSUME NEW t \in Client, SetShutdownCallback_Full(t) PROVE IInv'
  BY <1>5 DEF SetShutdownCallback_Full, Unlocked
<1>6. ASSUME NEW t \in Client, NotifyStop_Refuse(t) PROVE IInv'
  BY <1>6 DEF NotifyStop_Refuse, Locked
<1>7. ASSUME NEW t \in Client, NotifyStop_Load(t) PROVE IInv'
  BY <1>7 DEF NotifyStop_Load, TakeOut, Locked
<1>8. ASSUME NEW t \in Client, NotifyStop_Store(t) PROVE IInv'
  <2>1. FlagsOfMain'
    BY <1>8 DEF NotifyStop_Store, StoreCleared, Unlocked
  <2>2. (~ownerDead => HoldsMutex)'
    BY <1>8 DEF NotifyStop_Store, StoreCleared, Unlocked
  <2>3. (~ownerDead => FreshCopy)'
    BY <1>8 DEF NotifyStop_Store, StoreCleared, Unlocked
  <2>4. (~ownerDead => Notified)'
    BY <1>8 DEF NotifyStop_Store, StoreCleared, Unlocked
  <2>5. SlotOwnership'
    <3> SUFFICES ASSUME ~ownerDead PROVE SlotOwnership'
      BY <1>8 DEF NotifyStop_Store, StoreCleared
    <3>1. at[t] = "clear" /\ Member(t)
      BY <1>8 DEF NotifyStop_Store, StoreCleared
    <3>2. shutdownBitmap' = shutdownBitmap \ {handlerId[t]}
      BY <1>8 DEF NotifyStop_Store, StoreCleared
    <3>3. \A u \in Client : Member(u)' <=> Member(u) /\ u # t
      BY <1>8 DEF NotifyStop_Store, StoreCleared
    <3>4. \A u \in Client : u # t => at'[u] = at[u]
      BY <1>8 DEF NotifyStop_Store, StoreCleared
    <3>5. UNCHANGED <<handlerId, shutdownCallback>>
      BY <1>8 DEF NotifyStop_Store, StoreCleared
    <3>6. QED
      BY <3>1, <3>2, <3>3, <3>4, <3>5
  <2>6. EveryoneNotified'
    BY <1>8 DEF NotifyStop_Store, StoreCleared, Unlocked
  <2>7. NoLostWakeup'
    BY <1>8 DEF NotifyStop_Store, StoreCleared, Unlocked
  <2>8. QED
    BY <2>1, <2>2, <2>3, <2>4, <2>5, <2>6, <2>7
<1>9. ASSUME NEW t \in Client, Exit(t) PROVE IInv'
  BY <1>9 DEF Exit, ReleaseOnExit, Unlocked
<1>10. ASSUME NEW t \in Client, Abandon(t) PROVE IInv'
  BY <1>10 DEF Abandon
<1>11. CASE PowerReady
  BY <1>11 DEF PowerReady
<1>12. CASE Shutdown_Begin
  BY <1>12 DEF Shutdown_Begin, Locked
<1>13. CASE Shutdown_Call
  BY <1>13 DEF Shutdown_Call, IsHighest
<1>14. CASE Shutdown_Skip
  BY <1>14 DEF Shutdown_Skip, IsHighest
<1>15. CASE Shutdown_Return
  BY <1>15 DEF Shutdown_Return, Called, IsHighest
<1>16. CASE Shutdown_AllCalled
  BY <1>16 DEF Shutdown_AllCalled
<1>17. CASE Shutdown_Wait
  BY <1>17 DEF Shutdown_Wait
<1>18. CASE Shutdown_Relock
  BY <1>18 DEF Shutdown_Relock, Locked
<1>19. CASE Shutdown_Complete
  BY <1>19 DEF Shutdown_Complete, Unlocked
<1>20. QED
  BY <1>1, <1>2, <1>3, <1>4, <1>5, <1>6, <1>7, <1>8, <1>9, <1>10,
     <1>11, <1>12, <1>13, <1>14, <1>15, <1>16, <1>17, <1>18, <1>19
  DEF Next, SetShutdownCallback, NotifyStop, Shutdown

THEOREM InductiveInvariant == Spec => [](TypeOK /\ IInv)
<1>1. Init => IInv
  BY PowerCtrlAssumption
  DEF Init, IInv, FlagsOfMain, HoldsMutex, FreshCopy, Notified, Task, Member,
      SlotOwnership, EveryoneNotified, NoLostWakeup
<1>2. TypeOK /\ TypeOK' /\ IInv /\ [Next]_vars => IInv'
  <2>1. ASSUME IInv, UNCHANGED vars PROVE IInv'
    BY <2>1
    DEF vars, mutex, table, flags, IInv, FlagsOfMain, HoldsMutex, FreshCopy,
        Notified, Member, SlotOwnership, EveryoneNotified, NoLostWakeup
  <2>2. QED
    BY <2>1, IInvStep
<1>3. QED
  BY <1>1, <1>2, TypeCorrect, PTL DEF Spec

(***************************************************************************)
(* PowerCtrl.c:113-125 against 155-156: until a task exits with the mutex  *)
(* locked, the bitmap is exactly the slots of the registered clients, each *)
(* with a slot and a handler of its own.                                   *)
(***************************************************************************)
THEOREM SlotsAreOwned == Spec => []SlotOwnership
<1>1. IInv => SlotOwnership
  BY DEF IInv
<1>2. QED
  BY <1>1, InductiveInvariant, PTL

(***************************************************************************)
(* When PowerCtrl_Shutdown returns every client has notified its stop      *)
(* (PowerCtrl.c:56), under the same condition.                             *)
(***************************************************************************)
THEOREM ShutdownWaitsForAll == Spec => []OffMeansStopped
<1>1. IInv => OffMeansStopped
  BY DEF IInv, SlotOwnership, Notified, OffMeansStopped
<1>2. QED
  BY <1>1, InductiveInvariant, PTL

(***************************************************************************)
(* Every handler is called before the wait and none is called twice        *)
(* (PowerCtrl.c:68-80), under the same condition.                          *)
(***************************************************************************)
THEOREM ShutdownAsksAll == Spec => []EveryoneNotified
<1>1. IInv => EveryoneNotified
  BY DEF IInv
<1>2. QED
  BY <1>1, InductiveInvariant, PTL

(***************************************************************************)
(* The wait does not outlast the last stop: the signal never comes before  *)
(* it (PowerCtrl.c:82-84 against 157-159), under the same condition.       *)
(***************************************************************************)
THEOREM NoWakeupIsLost == Spec => []NoLostWakeup
<1>1. IInv => NoLostWakeup
  BY DEF IInv
<1>2. QED
  BY <1>1, InductiveInvariant, PTL

-----------------------------------------------------------------------------
\* The handler of t was stored; the slot may have been given back since.
Joined(t) ==
  /\ handlerId[t] # ERROR
  /\ at[t] \in {"running", "clear", "done", "exited", "abandoned"}

\* Only handlers of clients that got a slot are stored and called.
HandlersJoined ==
  /\ \A k \in Index : shutdownCallback[k] # NoTask => Joined(shutdownCallback[k])
  /\ \A t \in notified : Joined(t)

LEMMA HandlersStep == ASSUME TypeOK, HandlersJoined, [Next]_vars PROVE HandlersJoined'
<1> USE PowerCtrlAssumption
    DEF Task, Goto, mutex, table, flags, Index, ERROR, TypeOK, HandlersJoined, Joined
<1>1. ASSUME NEW t \in Client, SetShutdownCallback(t) PROVE HandlersJoined'
  <2>1. CASE SetShutdownCallback_Store(t)
    BY <2>1 DEF SetShutdownCallback_Store, TakeSlot, IsHighest
  <2>2. CASE ~SetShutdownCallback_Store(t)
    BY <1>1, <2>2
       DEF SetShutdownCallback, SetShutdownCallback_Wait, SetShutdownCallback_Refuse,
           SetShutdownCallback_Load, LoadFree, SetShutdownCallback_Full
  <2>3. QED
    BY <2>1, <2>2
<1>2. ASSUME NEW t \in Client, NotifyStop(t) \/ Exit(t) \/ Abandon(t)
      PROVE  HandlersJoined'
  <2>1. /\ handlerId' = handlerId /\ notified' = notified
        /\ \A k \in Index : shutdownCallback'[k] \in {shutdownCallback[k], NoTask}
        /\ \A u \in Client :
             at'[u] = at[u] \/ at'[u] \in {"clear", "done", "exited", "abandoned"}
    <3>1. CASE NotifyStop_Refuse(t) \/ NotifyStop_Load(t)
      BY <1>2, <3>1 DEF NotifyStop_Refuse, NotifyStop_Load, TakeOut
    <3>2. CASE NotifyStop_Store(t)
      BY <1>2, <3>2 DEF NotifyStop_Store, StoreCleared
    <3>3. CASE Exit(t) \/ Abandon(t)
      BY <1>2, <3>3 DEF Exit, Abandon
    <3>4. QED
      BY <1>2, <3>1, <3>2, <3>3 DEF NotifyStop
  <2>2. QED
    BY <2>1
<1>3. CASE PowerReady \/ Shutdown_Begin \/ Shutdown_Call \/ Shutdown_Skip
  <2>1. CASE PowerReady
    BY <2>1 DEF PowerReady
  <2>2. CASE Shutdown_Call
    BY <2>2 DEF Shutdown_Call
  <2>3. CASE Shutdown_Begin \/ Shutdown_Skip
    BY <2>3 DEF Shutdown_Begin, Shutdown_Skip
  <2>4. QED
    BY <1>3, <2>1, <2>2, <2>3
<1>4. CASE Shutdown_Return \/ Shutdown_AllCalled \/ Shutdown_Wait \/ Shutdown_Relock
            \/ Shutdown_Complete
  BY <1>4 DEF Shutdown_Return, Called, Shutdown_AllCalled, Shutdown_Wait,
              Shutdown_Relock, Shutdown_Complete
<1>5. CASE UNCHANGED vars
  BY <1>5 DEF vars
<1>6. QED
  BY <1>1, <1>2, <1>3, <1>4, <1>5 DEF Next, Shutdown

LEMMA HandlersStored == Spec => []HandlersJoined
<1>1. Init => HandlersJoined
  BY DEF Init, HandlersJoined
<1>2. TypeOK /\ HandlersJoined /\ [Next]_vars => HandlersJoined'
  BY HandlersStep
<1>3. QED
  BY <1>1, <1>2, TypeCorrect, PTL DEF Spec

-----------------------------------------------------------------------------
(***************************************************************************)
(* The refinement: every step of PowerCtrl.c is a step of ShutdownBarrier  *)
(* or leaves what the barrier shows unchanged.                             *)
(***************************************************************************)
LEMMA BarrierStep ==
  ASSUME TypeOK, TypeOK', IInv, Next
  PROVE  [Barrier!Next]_(Barrier!vars)
<1> USE PowerCtrlAssumption
    DEF Task, Goto, CanLock, mutex, table, flags, Member, Index, ERROR,
        ClientAt, MainAt, TypeOK, Phase, Barrier!vars
<1>1. CASE ownerDead'
  <2>1. Barrier!Break
    BY <1>1 DEF Barrier!Break, Barrier!Phase
  <2>2. QED
    BY <2>1 DEF Barrier!Next
<1> SUFFICES ASSUME ~ownerDead' PROVE [Barrier!Next]_(Barrier!vars)
  BY <1>1
<1>2. ~ownerDead
  BY DEF Next, SetShutdownCallback, NotifyStop, Shutdown, Exit, Abandon,
    ReleaseOnExit, PowerReady, SetShutdownCallback_Wait,
    SetShutdownCallback_Refuse, SetShutdownCallback_Load, LoadFree,
    SetShutdownCallback_Store, TakeSlot, SetShutdownCallback_Full,
    NotifyStop_Refuse, NotifyStop_Load, TakeOut, NotifyStop_Store, StoreCleared,
    Shutdown_Begin, Shutdown_Call, Shutdown_Skip, Shutdown_Return, Called,
    Shutdown_AllCalled, Shutdown_Wait, Shutdown_Relock, Shutdown_Complete
<1>3. ASSUME NEW t \in Client,
             \/ SetShutdownCallback_Wait(t)
             \/ SetShutdownCallback_Refuse(t)
             \/ SetShutdownCallback_Load(t)
             \/ SetShutdownCallback_Full(t)
             \/ Exit(t)
             \/ Abandon(t)
      PROVE  UNCHANGED Barrier!vars
  BY <1>2, <1>3 DEF SetShutdownCallback_Wait, SetShutdownCallback_Refuse,
    SetShutdownCallback_Load, LoadFree, SetShutdownCallback_Full, Exit, Abandon
<1>4. ASSUME NEW t \in Client, SetShutdownCallback_Store(t)
      PROVE  Barrier!Join(t)
  BY <1>2, <1>4 DEF SetShutdownCallback_Store, TakeSlot, IInv, FreshCopy,
    Barrier!Join, IsHighest
<1>5. ASSUME NEW t \in Client, NotifyStop_Refuse(t) \/ NotifyStop_Load(t)
      PROVE  UNCHANGED Barrier!vars
  BY <1>2, <1>5 DEF NotifyStop_Refuse, NotifyStop_Load, TakeOut, IInv, SlotOwnership
<1>6. ASSUME NEW t \in Client, NotifyStop_Store(t)
      PROVE  Barrier!Leave(t)
  <2>1. at[t] = "clear" /\ Member(t)
    BY <1>2, <1>6 DEF NotifyStop_Store, StoreCleared, IInv, FreshCopy
  <2>2. \A u \in Client : Member(u)' <=> Member(u) /\ u # t
    BY <1>6 DEF NotifyStop_Store, StoreCleared
  <2>3. Phase' = Phase
    BY <1>6 DEF NotifyStop_Store, StoreCleared
  <2>4. UNCHANGED <<notified, ownerDead>>
    BY <1>6 DEF NotifyStop_Store, StoreCleared
  <2>5. QED
    BY <2>1, <2>2, <2>3, <2>4 DEF Barrier!Leave
<1>7. CASE PowerReady
  BY <1>7 DEF PowerReady
<1>8. CASE Shutdown_Begin
  <2>1. Barrier!Begin
    BY <1>8 DEF Shutdown_Begin, Barrier!Begin
  <2>2. QED
    BY <2>1 DEF Barrier!Next
<1>9. CASE Shutdown_Call
  <2>1. PICK i \in word[Main] :
          /\ shutdownCallback[i] # NoTask
          /\ notified' = notified \cup {shutdownCallback[i]}
    BY <1>9 DEF Shutdown_Call
  <2>2. PICK t \in Client : Member(t) /\ handlerId[t] = i
    BY <1>2, <1>9, <2>1 DEF Shutdown_Call, IInv, FreshCopy, SlotOwnership
  <2>3. shutdownCallback[i] = t /\ t \notin notified
    BY <1>2, <1>9, <2>1, <2>2
    DEF Shutdown_Call, IInv, HoldsMutex, SlotOwnership, EveryoneNotified
  <2>4. Barrier!Ask(t)
    BY <1>9, <2>1, <2>2, <2>3 DEF Shutdown_Call, Barrier!Ask
  <2>5. QED
    BY <2>4 DEF Barrier!Next
<1>10. CASE Shutdown_AllCalled
  <2>1. Barrier!Wait
    BY <1>2, <1>10 DEF Shutdown_AllCalled, IInv, Notified, Barrier!Wait
  <2>2. QED
    BY <2>1 DEF Barrier!Next
<1>11. CASE Shutdown_Skip \/ Shutdown_Return \/ Shutdown_Wait \/ Shutdown_Relock
  BY <1>11 DEF Shutdown_Skip, Shutdown_Return, Called, Shutdown_Wait, Shutdown_Relock
<1>12. CASE Shutdown_Complete
  <2>1. Barrier!Complete
    BY <1>2, <1>12 DEF Shutdown_Complete, IInv, SlotOwnership, Barrier!Complete
  <2>2. QED
    BY <2>1 DEF Barrier!Next
<1>13. QED
  BY <1>3, <1>4, <1>5, <1>6, <1>7, <1>8, <1>9, <1>10, <1>11, <1>12
  DEF Next, SetShutdownCallback, NotifyStop, Shutdown, Barrier!Next

(***************************************************************************)
(* PowerCtrl.c implements the shutdown barrier.                            *)
(***************************************************************************)
THEOREM PowerCtrlImplementsBarrier == Spec => ImplementsBarrier
<1>1. Init => Barrier!Init
  BY PowerCtrlAssumption DEF Init, Barrier!Init, Phase, Member, Task
<1>2. TypeOK /\ TypeOK' /\ IInv /\ [Next]_vars => [Barrier!Next]_(Barrier!vars)
  <2>1. UNCHANGED vars => UNCHANGED Barrier!vars
    BY DEF vars, mutex, table, flags, Barrier!vars, Phase, Member
  <2>2. QED
    BY <2>1, BarrierStep
<1>3. QED
  BY <1>1, <1>2, InductiveInvariant, PTL DEF Spec, ImplementsBarrier, Barrier!Spec
=============================================================================
