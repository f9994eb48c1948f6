------------------------------ MODULE PowerCtrl ------------------------------
(***************************************************************************)
(* PowerCtrl/PowerCtrl.c: the table of shutdown handlers that every task   *)
(* of the logger shares (the build is flat, so one static instance), the   *)
(* mutex and the two condition variables that protect it, and the task     *)
(* Main (PowerCtrl_main.c) that announces power and later runs the         *)
(* shutdown.                                                               *)
(*                                                                         *)
(* A step is a stretch of code between two points where another task can   *)
(* be seen.  A read-modify-write of shutdownBitmap takes two steps (load,  *)
(* then store and unlock): the mutex normally keeps the two together, but  *)
(* three error returns leave the mutex locked, and once the task that did  *)
(* so has exited the mutex no longer excludes anybody.                     *)
(***************************************************************************)
EXTENDS Integers

CONSTANTS
  Client,        \* tasks that register a handler: one run of one program each
  Main,          \* the PowerCtrl task
  NoTask,        \* NULL: no handler, no holder
  NumCallbacks,  \* NUM_SHUTDOWN_CALLBACKS
  Quitter        \* clients whose set-up may fail after they have registered

Task == Client \cup {Main}

ASSUME PowerCtrlAssumption ==
  /\ NumCallbacks \in Nat \ {0}
  /\ Main \notin Client
  /\ NoTask \notin Task
  /\ Quitter \subseteq Client

ERROR == -1
Index == 0 .. NumCallbacks - 1

VARIABLES
  holder,            \* the task that owns the mutex, or NoTask
  ownerDead,         \* the owner exited: the robust mutex is inconsistent
  isPowerReady,
  isShutdown,
  shutdownBitmap,    \* the indexes whose bit is set
  shutdownCallback,  \* index -> the client whose handler is stored, or NoTask
  at,                \* where each task is
  handlerId,         \* what PowerCtrl_SetShutdownCallback returned to it
  word,              \* its local copy of shutdownBitmap
  notified           \* the clients whose handler has been called

mutex == <<holder, ownerDead>>
table == <<shutdownBitmap, shutdownCallback>>
flags == <<isPowerReady, isShutdown>>
vars == <<mutex, table, flags, at, handlerId, word, notified>>

(***************************************************************************)
(* A client is "fresh" before it registers, "running" afterwards, "done"   *)
(* when PowerCtrl_NotifyStop has returned, then "exited"; "abandoned" when *)
(* it exits without notifying.  "alloc" and "clear" are the points between *)
(* the load and the store of the bitmap, "bootWait" and "bootWake" are     *)
(* before and after the wake-up in pthread_cond_wait(&bootCond).           *)
(***************************************************************************)
ClientAt == {"fresh", "bootWait", "bootWake", "alloc", "running", "clear",
             "done", "exited", "abandoned"}
MainAt == {"boot", "watch", "notify", "callback", "drain", "drainWait",
           "drainWake", "off"}

Init ==
  /\ holder = NoTask
  /\ ownerDead = FALSE
  /\ isPowerReady = FALSE
  /\ isShutdown = FALSE
  /\ shutdownBitmap = {}
  /\ shutdownCallback = [i \in Index |-> NoTask]
  /\ at = [t \in Task |-> IF t = Main THEN "boot" ELSE "fresh"]
  /\ handlerId = [t \in Client |-> 0]
  /\ word = [t \in Task |-> {}]
  /\ notified = {}

-----------------------------------------------------------------------------
(***************************************************************************)
(* pthread_mutex_t of the configured kernel (CONFIG_PTHREAD_MUTEX_ROBUST). *)
(* Nobody looks at the result of pthread_mutex_lock: relocking by the      *)
(* owner (EDEADLK) and locking after the owner died (EOWNERDEAD) go on     *)
(* into the critical section, the latter without owning anything; an       *)
(* unlock by a task that is not the owner does nothing (EPERM).            *)
(***************************************************************************)
CanLock(t) == ownerDead \/ holder \in {NoTask, t}
Locked(t) == IF ownerDead THEN holder ELSE t
Unlocked(t) == IF holder = t THEN NoTask ELSE holder

\* A task that exits while it owns the mutex leaves it inconsistent.
ReleaseOnExit(t) ==
  /\ holder' = Unlocked(t)
  /\ ownerDead' = (ownerDead \/ holder = t)

IsHighest(i, S) == i \in S /\ \A j \in S : j <= i   \* 31 - __builtin_clz(S)
Goto(t, place) == at' = [at EXCEPT ![t] = place]

-----------------------------------------------------------------------------
(* PowerCtrl_SetShutdownCallback *)

\* Lock, and wait on bootCond while the power is not ready.
SetShutdownCallback_Wait(t) ==
  /\ at[t] \in {"fresh", "bootWake"}
  /\ CanLock(t)
  /\ ~isPowerReady
  /\ Goto(t, "bootWait")
  /\ UNCHANGED <<mutex, table, flags, handlerId, word, notified>>

\* The shutdown has begun: ERROR, and the mutex stays locked.
SetShutdownCallback_Refuse(t) ==
  /\ at[t] \in {"fresh", "bootWake"}
  /\ CanLock(t)
  /\ isPowerReady
  /\ isShutdown
  /\ holder' = Locked(t)
  /\ handlerId' = [handlerId EXCEPT ![t] = ERROR]
  /\ Goto(t, "running")
  /\ UNCHANGED <<ownerDead, table, flags, word, notified>>

\* A slot is looked for in a copy of the bitmap.
LoadFree(t) ==
  /\ at[t] \in {"fresh", "bootWake"}
  /\ CanLock(t)
  /\ isPowerReady
  /\ holder' = Locked(t)
  /\ word' = [word EXCEPT ![t] = shutdownBitmap]
  /\ Goto(t, "alloc")
  /\ UNCHANGED <<ownerDead, table, flags, handlerId, notified>>

\* Mutant: the isShutdown test is missing.
SetShutdownCallback_Load_Late(t) == LoadFree(t)

SetShutdownCallback_Load(t) == ~isShutdown /\ LoadFree(t)

\* The highest free slot is taken.
TakeSlot(t, i) ==
  /\ at[t] = "alloc"
  /\ IsHighest(i, Index \ word[t])
  /\ shutdownBitmap' = word[t] \cup {i}
  /\ shutdownCallback' = [shutdownCallback EXCEPT ![i] = t]
  /\ holder' = Unlocked(t)
  /\ word' = [word EXCEPT ![t] = {}]
  /\ Goto(t, "running")
  /\ UNCHANGED <<ownerDead, flags, notified>>

\* Mutant: the position is returned instead of the index.
SetShutdownCallback_Store_Position(t) ==
  \E i \in Index : TakeSlot(t, i) /\ handlerId' = [handlerId EXCEPT ![t] = 31 - i]

SetShutdownCallback_Store(t) ==
  \E i \in Index : TakeSlot(t, i) /\ handlerId' = [handlerId EXCEPT ![t] = i]

(***************************************************************************)
(* No slot is free: __builtin_clz(0) is undefined.  Either it yields 32,   *)
(* the "no slot" test holds and ERROR is returned with the mutex locked;   *)
(* or the compiler drops the test (clz never exceeds 31), the index is -1, *)
(* the shift sets no bit, the store lands on the word before the array     *)
(* (bootCond, which nobody uses once the power is ready), and -1 is        *)
(* returned with the mutex unlocked.                                       *)
(***************************************************************************)
SetShutdownCallback_Full(t) ==
  /\ at[t] = "alloc"
  /\ Index \subseteq word[t]
  /\ holder' \in {holder, Unlocked(t)}
  /\ handlerId' = [handlerId EXCEPT ![t] = ERROR]
  /\ word' = [word EXCEPT ![t] = {}]
  /\ Goto(t, "running")
  /\ UNCHANGED <<ownerDead, table, flags, notified>>

-----------------------------------------------------------------------------
(* PowerCtrl_NotifyStop(handlerId[t]) *)

\* The index is not valid or its bit is not set: ERROR, mutex left locked.
NotifyStop_Refuse(t) ==
  /\ at[t] = "running"
  /\ CanLock(t)
  /\ handlerId[t] \notin Index \cap shutdownBitmap
  /\ holder' = Locked(t)
  /\ Goto(t, "done")
  /\ UNCHANGED <<ownerDead, table, flags, handlerId, word, notified>>

\* The handler goes first; the bit is cleared in a copy of the bitmap.
TakeOut(t) ==
  /\ at[t] = "running"
  /\ handlerId[t] \in Index \cap shutdownBitmap
  /\ shutdownCallback' = [shutdownCallback EXCEPT ![handlerId[t]] = NoTask]
  /\ word' = [word EXCEPT ![t] = shutdownBitmap]
  /\ Goto(t, "clear")
  /\ UNCHANGED <<ownerDead, shutdownBitmap, flags, handlerId, notified>>

\* Mutant: the mutex is not taken.
NotifyStop_Load_NoLock(t) == TakeOut(t) /\ UNCHANGED holder

NotifyStop_Load(t) == CanLock(t) /\ TakeOut(t) /\ holder' = Locked(t)

StoreCleared(t) ==
  /\ at[t] = "clear"
  /\ shutdownBitmap' = word[t] \ {handlerId[t]}
  /\ holder' = Unlocked(t)
  /\ word' = [word EXCEPT ![t] = {}]
  /\ UNCHANGED <<ownerDead, shutdownCallback, flags, handlerId, notified>>

\* Mutant: nobody is signalled.
NotifyStop_Store_NoSignal(t) == StoreCleared(t) /\ Goto(t, "done")

\* pthread_cond_signal(&shutdownCond), once the last bit is cleared.
NotifyStop_Store(t) ==
  /\ StoreCleared(t)
  /\ at' = [at EXCEPT ![t] = "done",
                      ![Main] = IF @ = "drainWait" /\ shutdownBitmap' = {}
                                THEN "drainWake" ELSE @]

-----------------------------------------------------------------------------
(* The end of a client's program, which ends its task *)

\* main returns after NotifyStop, or at once when registering failed.
Exit(t) ==
  /\ \/ at[t] = "done"
     \/ at[t] = "running" /\ handlerId[t] = ERROR
  /\ Goto(t, "exited")
  /\ ReleaseOnExit(t)
  /\ UNCHANGED <<table, flags, handlerId, word, notified>>

\* Set-up fails after registering: the program returns without NotifyStop.
Abandon(t) ==
  /\ t \in Quitter
  /\ at[t] = "running"
  /\ handlerId[t] # ERROR
  /\ Goto(t, "abandoned")
  /\ UNCHANGED <<mutex, table, flags, handlerId, word, notified>>

-----------------------------------------------------------------------------
(* The PowerCtrl task *)

PowerReady ==
  /\ at[Main] = "boot"
  /\ CanLock(Main)
  /\ isPowerReady' = TRUE
  /\ at' = [t \in Task |-> IF t = Main THEN "watch"
                           ELSE IF at[t] = "bootWait" THEN "bootWake"
                           ELSE at[t]]
  /\ UNCHANGED <<mutex, isShutdown, table, handlerId, word, notified>>

\* PowerCtrl_Shutdown: lock, set isShutdown, copy the bitmap.
Shutdown_Begin ==
  /\ at[Main] = "watch"
  /\ CanLock(Main)
  /\ holder' = Locked(Main)
  /\ isShutdown' = TRUE
  /\ word' = [word EXCEPT ![Main] = shutdownBitmap]
  /\ Goto(Main, "notify")
  /\ UNCHANGED <<ownerDead, isPowerReady, table, handlerId, notified>>

\* The handler runs in the PowerCtrl task, with the mutex locked.
Shutdown_Call ==
  /\ at[Main] = "notify"
  /\ \E i \in word[Main] :
       /\ IsHighest(i, word[Main])
       /\ shutdownCallback[i] # NoTask
       /\ notified' = notified \cup {shutdownCallback[i]}
  /\ Goto(Main, "callback")
  /\ UNCHANGED <<mutex, table, flags, handlerId, word>>

\* The bit is set but no handler is stored.
Shutdown_Skip ==
  /\ at[Main] = "notify"
  /\ \E i \in word[Main] :
       /\ IsHighest(i, word[Main])
       /\ shutdownCallback[i] = NoTask
       /\ word' = [word EXCEPT ![Main] = @ \ {i}]
  /\ UNCHANGED <<mutex, table, flags, at, handlerId, notified>>

\* bitmap &= ~(1U << index), after the call.
Called(i) ==
  /\ at[Main] = "callback"
  /\ word' = [word EXCEPT ![Main] = @ \ {i}]
  /\ Goto(Main, "notify")
  /\ UNCHANGED <<mutex, table, flags, handlerId, notified>>

\* Mutant: bitmap &= bitmap - 1, which clears the lowest bit.
Shutdown_Return_Lowest ==
  \E i \in word[Main] : (\A j \in word[Main] : i <= j) /\ Called(i)

Shutdown_Return ==
  \E i \in word[Main] : IsHighest(i, word[Main]) /\ Called(i)

Shutdown_AllCalled ==
  /\ at[Main] = "notify"
  /\ word[Main] = {}
  /\ Goto(Main, "drain")
  /\ UNCHANGED <<mutex, table, flags, handlerId, word, notified>>

(***************************************************************************)
(* pthread_cond_wait(&shutdownCond) while a bit is set.  A caller that     *)
(* does not own the mutex gets EPERM at once, and the loop spins.          *)
(***************************************************************************)
Shutdown_Wait ==
  /\ at[Main] = "drain"
  /\ shutdownBitmap # {}
  /\ holder = Main
  /\ holder' = NoTask
  /\ Goto(Main, "drainWait")
  /\ UNCHANGED <<ownerDead, table, flags, handlerId, word, notified>>

Shutdown_Relock ==
  /\ at[Main] = "drainWake"
  /\ CanLock(Main)
  /\ holder' = Locked(Main)
  /\ Goto(Main, "drain")
  /\ UNCHANGED <<ownerDead, table, flags, handlerId, word, notified>>

Shutdown_Complete ==
  /\ at[Main] = "drain"
  /\ shutdownBitmap = {}
  /\ holder' = Unlocked(Main)
  /\ Goto(Main, "off")
  /\ UNCHANGED <<ownerDead, table, flags, handlerId, word, notified>>

-----------------------------------------------------------------------------
SetShutdownCallback(t) ==
  \/ SetShutdownCallback_Wait(t)
  \/ SetShutdownCallback_Refuse(t)
  \/ SetShutdownCallback_Load(t)
  \/ SetShutdownCallback_Store(t)
  \/ SetShutdownCallback_Full(t)

NotifyStop(t) ==
  \/ NotifyStop_Refuse(t)
  \/ NotifyStop_Load(t)
  \/ NotifyStop_Store(t)

Shutdown ==
  \/ Shutdown_Begin
  \/ Shutdown_Call
  \/ Shutdown_Skip
  \/ Shutdown_Return
  \/ Shutdown_AllCalled
  \/ Shutdown_Wait
  \/ Shutdown_Relock
  \/ Shutdown_Complete

Next ==
  \/ \E t \in Client :
       SetShutdownCallback(t) \/ NotifyStop(t) \/ Exit(t) \/ Abandon(t)
  \/ PowerReady
  \/ Shutdown

Spec == Init /\ [][Next]_vars

(***************************************************************************)
(* Nothing makes anyone press the power button or start a program, so      *)
(* PowerReady, Shutdown_Begin and the first step of a registration are not *)
(* fair.  A task in the middle of a call keeps running; a client whose     *)
(* handler was called stops, and one that was refused, or has notified,    *)
(* returns from main.                                                      *)
(***************************************************************************)
StopWhenNotified(t) == t \in notified /\ NotifyStop(t)

Fairness ==
  /\ \A t \in Client :
       /\ WF_vars(SetShutdownCallback_Store(t) \/ SetShutdownCallback_Full(t))
       /\ WF_vars(StopWhenNotified(t))
       /\ WF_vars(NotifyStop_Store(t))
       /\ WF_vars(Exit(t))
  /\ WF_vars(Shutdown /\ isShutdown)

FairSpec == Spec /\ Fairness

-----------------------------------------------------------------------------
(* Properties *)

\* Type invariant.
TypeOK ==
  /\ holder \in Task \cup {NoTask}
  /\ ownerDead \in BOOLEAN
  /\ isPowerReady \in BOOLEAN
  /\ isShutdown \in BOOLEAN
  /\ shutdownBitmap \in SUBSET Index
  /\ shutdownCallback \in [Index -> Client \cup {NoTask}]
  /\ at \in [Task -> ClientAt \cup MainAt]
  /\ at[Main] \in MainAt
  /\ \A t \in Client : at[t] \in ClientAt
  /\ handlerId \in [Client -> Index \cup {ERROR}]
  /\ word \in [Task -> SUBSET Index]
  /\ notified \in SUBSET Client

\* The client registered and its slot has not been given back.
Member(t) == /\ at[t] \in {"running", "clear", "abandoned"}
             /\ handlerId[t] # ERROR

(***************************************************************************)
(* Slot ownership: the set bits are exactly the slots of the registered    *)
(* clients, no two of them share a slot, and each slot holds the handler   *)
(* of its owner until NotifyStop takes it out (PowerCtrl.c:113-125 against *)
(* 155-156).  Guaranteed until a task exits with the mutex locked.         *)
(***************************************************************************)
SlotOwnership ==
  ~ownerDead =>
    /\ \A t \in Client : Member(t) =>
         /\ handlerId[t] \in shutdownBitmap
         /\ at[t] # "clear" => shutdownCallback[handlerId[t]] = t
    /\ \A t, u \in Client :
         Member(t) /\ Member(u) /\ handlerId[t] = handlerId[u] => t = u
    /\ \A i \in shutdownBitmap :
         \E t \in Client : Member(t) /\ handlerId[t] = i

(***************************************************************************)
(* When PowerCtrl_Shutdown returns, every client that ever registered has  *)
(* called NotifyStop, and no other can join from then on: what             *)
(* PowerCtrl.c:56 promises.                                                *)
(***************************************************************************)
OffMeansStopped ==
  at[Main] = "off" /\ ~ownerDead => \A t \in Client : ~Member(t)

(***************************************************************************)
(* Before the shutdown goes to sleep it has called the handler of every    *)
(* client still registered, none of them twice, and the "no callback set"  *)
(* branch (PowerCtrl.c:75) is never taken.                                 *)
(***************************************************************************)
EveryoneNotified ==
  ~ownerDead =>
    /\ at[Main] \in {"drain", "drainWait", "drainWake"} =>
         \A t \in Client : Member(t) => t \in notified
    /\ at[Main] = "notify" =>
         \A i \in word[Main] : shutdownCallback[i] \notin {NoTask} \cup notified

(***************************************************************************)
(* No lost wake-up: Main sleeps on shutdownCond only while a bit is set,   *)
(* so a NotifyStop that will signal it is still to come                    *)
(* (PowerCtrl.c:82-84 against 157-159).                                    *)
(***************************************************************************)
NoLostWakeup ==
  ~ownerDead /\ at[Main] = "drainWait" => shutdownBitmap # {}

(***************************************************************************)
(* A shutdown that has begun completes (PowerCtrl.c:56).                   *)
(***************************************************************************)
ShutdownCompletes == isShutdown ~> at[Main] = "off"

InSection(t) == at[t] \in {"alloc", "clear", "notify", "callback"}

Orderly ==
  /\ \A t \in Client : at[t] # "abandoned"
  /\ \A t, u \in Task : InSection(t) /\ InSection(u) => t = u

(***************************************************************************)
(* A shutdown completes, even over a full table, refused tasks and a mutex *)
(* left locked or inconsistent, unless a client abandons its slot or a     *)
(* broken mutex lets two tasks work on the table at once (PowerCtrl.c:56). *)
(***************************************************************************)
OrderlyShutdownCompletes == []Orderly => ShutdownCompletes

-----------------------------------------------------------------------------
(* The promise PowerCtrl.c keeps *)

Phase ==
  CASE at[Main] \in {"boot", "watch"} -> "open"
    [] at[Main] \in {"notify", "callback"} -> "asking"
    [] at[Main] \in {"drain", "drainWait", "drainWake"} -> "waiting"
    [] at[Main] = "off" -> "closed"

Barrier == INSTANCE ShutdownBarrier WITH
  phase <- Phase,
  members <- {t \in Client : Member(t)},
  asked <- notified,
  broken <- ownerDead

\* PowerCtrl.c implements the barrier: every step of the code is a step of it
\* or changes nothing the barrier shows.
ImplementsBarrier == Barrier!Spec
=============================================================================
