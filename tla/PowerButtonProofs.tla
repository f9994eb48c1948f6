-------------------------- MODULE PowerButtonProofs --------------------------
(***************************************************************************)
(* Machine-checked proofs about PowerButton: for any number of button      *)
(* moves and any length of the check, the task and the pin never drift     *)
(* apart, and the power is switched only by a press that lasts.            *)
(***************************************************************************)
EXTENDS PowerButton, TLAPS

(***************************************************************************)
(* Type correctness, with the bound on ticks that makes it inductive: a    *)
(* delay begins only while the check has some left.                        *)
(***************************************************************************)
TicksLeft == delaying => Checking /\ ticks < CheckTicks

\* What is observed is a truth value.
LEMMA ObservedIsBoolean ==
  ASSUME Observe, delaying' \in BOOLEAN
  PROVE  quiet' \in BOOLEAN /\ down' \in BOOLEAN
BY DEF Observe

LEMMA BooleanStep ==
  ASSUME TypeOK, [Next]_vars
  PROVE  delaying' \in BOOLEAN /\ quiet' \in BOOLEAN /\ down' \in BOOLEAN
<1> USE DEF TypeOK
<1>1. CASE MoveButton \/ HandleGpioInterrupt
  BY <1>1, ObservedIsBoolean DEF MoveButton, HandleGpioInterrupt
<1>2. CASE DelayBegins \/ DelayElapsed
  BY <1>2, ObservedIsBoolean DEF DelayBegins, DelayElapsed
<1>3. CASE Taken(Flip(state))
  BY <1>3, ObservedIsBoolean DEF Taken
<1>4. CASE UNCHANGED <<delaying, observed>>
  BY <1>4 DEF observed
<1>5. QED
  BY <1>1, <1>2, <1>3, <1>4
  DEF Next, TaskNext, vars, InitInterrupt, Arm, ActivatePower_Usb, ActivatePower_Battery,
      Check1_Delay, NextDelay, Check1_Elapsed, ActivatePower_Abort, ActivatePower_Confirm,
      ActivatePower_Release, PowerReady, WatchPowerButton_Wait, WatchPowerButton_Cancel,
      WatchPowerButton_Confirm, Shutdown, DelayInterrupted, Wait

\* TypeOK but for the truth values.
PlainTypes ==
  /\ at \in At
  /\ state \in {"ON", "OFF"}
  /\ source \in {"USB", "BATTERY"}
  /\ smph \in Nat
  /\ ticks \in 0 .. CheckTicks
  /\ pwrEn \in {0, 1} /\ powerSw \in {0, 1} /\ polarity \in {0, 1}
  /\ changes \in 0 .. MaxChanges
  /\ held \in Nat

LEMMA PlainStep ==
  ASSUME TypeOK, TicksLeft, [Next]_vars
  PROVE  PlainTypes' /\ TicksLeft'
<1> USE PowerButtonAssumption DEF TypeOK, PlainTypes, TicksLeft, At, Checking, pin, observed,
        Flip, DelayBegins, Taken, DelayInterrupted, DelayElapsed, Wait
<1>1. CASE MoveButton \/ HandleGpioInterrupt
  BY <1>1 DEF MoveButton, HandleGpioInterrupt
<1>2. CASE InitInterrupt \/ ActivatePower_Usb \/ ActivatePower_Battery
  BY <1>2 DEF InitInterrupt, Arm, ActivatePower_Usb, ActivatePower_Battery
<1>3. CASE Check1_Delay
  BY <1>3 DEF Check1_Delay, NextDelay
<1>4. CASE Check1_Elapsed
  BY <1>4 DEF Check1_Elapsed
<1>5. CASE ActivatePower_Abort \/ ActivatePower_Release
  BY <1>5 DEF ActivatePower_Abort, ActivatePower_Release
<1>6. CASE ActivatePower_Confirm \/ WatchPowerButton_Confirm
  BY <1>6 DEF ActivatePower_Confirm, WatchPowerButton_Confirm, Confirmed
<1>7. CASE WatchPowerButton_Wait \/ WatchPowerButton_Cancel
  BY <1>7 DEF WatchPowerButton_Wait, WatchPowerButton_Cancel
<1>8. CASE PowerReady \/ Shutdown
  BY <1>8 DEF PowerReady, Shutdown
<1>9. CASE UNCHANGED vars
  BY <1>9 DEF vars
<1>10. QED
  BY <1>1, <1>2, <1>3, <1>4, <1>5, <1>6, <1>7, <1>8, <1>9 DEF Next, TaskNext

LEMMA TypesAndTicks == Spec => [](TypeOK /\ TicksLeft)
<1>1. Init => TypeOK /\ TicksLeft
  <2> SUFFICES ASSUME Init PROVE TypeOK /\ TicksLeft
    OBVIOUS
  <2>1. delaying \in BOOLEAN /\ quiet \in BOOLEAN /\ down \in BOOLEAN /\ TicksLeft
    BY DEF Init, TicksLeft
  <2>2. PlainTypes
    BY PowerButtonAssumption DEF Init, PlainTypes, At
  <2>3. QED
    BY <2>1, <2>2 DEF PlainTypes, TypeOK
<1>2. TypeOK /\ TicksLeft /\ [Next]_vars => TypeOK' /\ TicksLeft'
  <2> SUFFICES ASSUME TypeOK, TicksLeft, [Next]_vars PROVE TypeOK' /\ TicksLeft'
    OBVIOUS
  <2>1. QED
    BY BooleanStep, PlainStep DEF PlainTypes, TypeOK
<1>3. QED
  BY <1>1, <1>2, PTL DEF Spec

(***************************************************************************)
(* Type correctness of the button's task and its interrupt                 *)
(* (PowerCtrl_main.c:69-79, 91-102, 112-121).                              *)
(***************************************************************************)
THEOREM TypeCorrect == Spec => []TypeOK
BY TypesAndTicks, PTL

-----------------------------------------------------------------------------
\* One more post, or one less, changes the parity.
LEMMA Parity == \A n \in Nat : ((n + 1) % 2 = 0) <=> ~(n % 2 = 0)
  OBVIOUS

LEMMA ParityDown == \A n \in Nat \ {0} : n - 1 \in Nat /\ (((n - 1) % 2 = 0) <=> ~(n % 2 = 0))
  OBVIOUS

(***************************************************************************)
(* The task's idea of the button, with the posts still to be taken, always *)
(* matches the polarity the pin interrupt is set to (PowerCtrl_main.c:75   *)
(* against 98 and 118).                                                    *)
(***************************************************************************)
THEOREM ButtonNeverDrifts == Spec => []NoDrift
<1>1. Init => NoDrift
  BY DEF Init, NoDrift, Armed
<1>2. TypeOK /\ TicksLeft /\ NoDrift /\ [Next]_vars => NoDrift'
  <2> SUFFICES ASSUME TypeOK, TicksLeft, NoDrift, [Next]_vars PROVE NoDrift'
    OBVIOUS
  <2> USE DEF TypeOK, NoDrift, Armed, pin
  <2>1. CASE MoveButton \/ UNCHANGED vars
    BY <2>1 DEF MoveButton, vars
  <2>2. CASE HandleGpioInterrupt
    <3>1. (smph' % 2 = 0) <=> ~(smph % 2 = 0)
      BY <2>2, Parity DEF HandleGpioInterrupt
    <3>2. /\ polarity' = 1 <=> polarity # 1
          /\ UNCHANGED <<at, state>>
      BY <2>2 DEF HandleGpioInterrupt
    <3>3. QED
      BY <2>2, <3>1, <3>2 DEF HandleGpioInterrupt
  <2>3. ASSUME Taken(Flip(state)), Armed PROVE NoDrift'
    <3>1. (smph' % 2 = 0) <=> ~(smph % 2 = 0)
      BY <2>3, ParityDown DEF Taken
    <3>2. /\ state' = "ON" <=> state # "ON"
          /\ polarity' = polarity
      BY <2>3 DEF Taken, Flip
    <3>3. QED
      BY <2>3, <3>1, <3>2
  <2>4. CASE ActivatePower_Abort \/ ActivatePower_Release \/ WatchPowerButton_Cancel
    BY <2>3, <2>4 DEF ActivatePower_Abort, ActivatePower_Release,
      WatchPowerButton_Cancel, DelayInterrupted
  <2>5. CASE WatchPowerButton_Wait
    BY <2>3, <2>5 DEF WatchPowerButton_Wait, Wait
  <2>6. CASE InitInterrupt
    BY <2>6 DEF InitInterrupt, Arm
  <2>7. CASE Check1_Delay \/ Check1_Elapsed
    BY <2>7 DEF Check1_Delay, NextDelay, DelayBegins, Check1_Elapsed, DelayElapsed, Checking
  <2>8. CASE ActivatePower_Confirm \/ WatchPowerButton_Confirm
    BY <2>8 DEF ActivatePower_Confirm, WatchPowerButton_Confirm
  <2>9. CASE ActivatePower_Usb \/ ActivatePower_Battery \/ PowerReady \/ Shutdown
    BY <2>9 DEF ActivatePower_Usb, ActivatePower_Battery, PowerReady, Shutdown
  <2>10. QED
    BY <2>1, <2>2, <2>4, <2>5, <2>6, <2>7, <2>8, <2>9 DEF Next, TaskNext
<1>3. QED
  BY <1>1, <1>2, TypesAndTicks, PTL DEF Spec

-----------------------------------------------------------------------------
(* What the delays of a check have seen *)

\* A check runs while the task takes the button to be down.
CheckMeansOn == at \in {"activate", "bootCheck", "bootRelease", "check"} => state = "ON"

\* A delay has been quiet: unless a post came since, the button was down then.
QuietMeansDown == quiet => delaying /\ (smph = 0 => down)

\* Every delay that elapsed was quiet at some moment.
EachHeld ==
  /\ Checking => held = ticks
  /\ at \in {"init", "activate"} => held = 0

\* DeactivatePower has been called once when it is called again.
PowerOff == at = "shutdown" => pwrEn = 0

Holding == CheckMeansOn /\ QuietMeansDown /\ EachHeld /\ PowerOff

\* At a quiet moment of a check all posts taken, the button is down.
LEMMA DownWhenQuiet ==
  ASSUME TypeOK', NoDrift', CheckMeansOn', Checking', smph' = 0, powerSw' # polarity'
  PROVE  powerSw' = 0
<1>1. state' = "ON" /\ Armed' /\ smph' % 2 = 0
  BY DEF CheckMeansOn, Checking, Armed
<1>2. polarity' = 1
  BY <1>1 DEF NoDrift
<1>3. QED
  BY <1>2 DEF TypeOK

\* Whoever moves the pin or takes a post: both are noticed at once.
LEMMA ObserveKeeps ==
  ASSUME TypeOK', NoDrift', CheckMeansOn', TicksLeft', QuietMeansDown, Observe,
         smph' = 0 => smph = 0 \/ ~delaying'
  PROVE  QuietMeansDown'
<1> SUFFICES ASSUME quiet' PROVE delaying' /\ (smph' = 0 => down')
  BY DEF QuietMeansDown
<1>1. delaying' /\ Checking'
  BY DEF Observe, TicksLeft
<1>2. ASSUME smph' = 0 PROVE down'
  <2>1. CASE powerSw' # polarity'
    BY <1>1, <1>2, <2>1, DownWhenQuiet DEF Observe
  <2>2. CASE powerSw' = polarity'
    BY <1>1, <1>2, <2>2 DEF Observe, QuietMeansDown
  <2>3. QED
    BY <2>1, <2>2
<1>3. QED
  BY <1>1, <1>2

LEMMA OnStep ==
  ASSUME TypeOK, TicksLeft, CheckMeansOn, [Next]_vars
  PROVE  CheckMeansOn'
<1> USE DEF CheckMeansOn, TypeOK, At, Taken, DelayInterrupted, DelayElapsed, DelayBegins, Wait
<1>1. CASE MoveButton \/ HandleGpioInterrupt \/ UNCHANGED vars
  BY <1>1 DEF MoveButton, HandleGpioInterrupt, vars
<1>2. CASE InitInterrupt \/ ActivatePower_Usb \/ ActivatePower_Battery
  BY <1>2 DEF InitInterrupt, Arm, ActivatePower_Usb, ActivatePower_Battery
<1>3. CASE Check1_Delay \/ Check1_Elapsed \/ ActivatePower_Confirm \/ WatchPowerButton_Confirm
  BY <1>3 DEF Check1_Delay, NextDelay, Check1_Elapsed, ActivatePower_Confirm,
     WatchPowerButton_Confirm, Confirmed, Checking
<1>4. CASE ActivatePower_Abort \/ ActivatePower_Release \/ PowerReady \/ Shutdown
  BY <1>4 DEF ActivatePower_Abort, ActivatePower_Release, PowerReady, Shutdown
<1>5. CASE WatchPowerButton_Wait \/ WatchPowerButton_Cancel
  BY <1>5 DEF WatchPowerButton_Wait, WatchPowerButton_Cancel
<1>6. QED
  BY <1>1, <1>2, <1>3, <1>4, <1>5 DEF Next, TaskNext

LEMMA QuietStep ==
  ASSUME TypeOK, TypeOK', NoDrift', CheckMeansOn', TicksLeft, TicksLeft', QuietMeansDown,
         [Next]_vars
  PROVE  QuietMeansDown'
<1>1. CASE MoveButton \/ HandleGpioInterrupt
  BY <1>1, ObserveKeeps DEF MoveButton, HandleGpioInterrupt, TypeOK
<1>2. CASE Check1_Delay \/ Check1_Elapsed
  BY <1>2, ObserveKeeps DEF Check1_Delay, NextDelay, DelayBegins, Check1_Elapsed, DelayElapsed
<1>3. CASE Taken(Flip(state))
  BY <1>3, ObserveKeeps DEF Taken
<1>4. CASE InitInterrupt
  BY <1>4 DEF InitInterrupt, Arm, observed, QuietMeansDown, TicksLeft, Checking
<1>5. CASE UNCHANGED <<delaying, smph, observed>>
  BY <1>5 DEF observed, QuietMeansDown
<1>6. QED
  BY <1>1, <1>2, <1>3, <1>4, <1>5
  DEF Next, TaskNext, vars, ActivatePower_Usb, ActivatePower_Battery, ActivatePower_Abort,
      ActivatePower_Confirm, ActivatePower_Release, PowerReady, WatchPowerButton_Wait,
      WatchPowerButton_Cancel, WatchPowerButton_Confirm, Shutdown, DelayInterrupted, Wait

LEMMA HeldStep ==
  ASSUME TypeOK, TicksLeft, Holding, [Next]_vars
  PROVE  EachHeld' /\ PowerOff'
<1> USE DEF TypeOK, Holding, EachHeld, PowerOff, Checking, Taken, DelayInterrupted,
            DelayElapsed, DelayBegins, Wait
<1>1. CASE MoveButton \/ HandleGpioInterrupt \/ UNCHANGED vars
  BY <1>1 DEF MoveButton, HandleGpioInterrupt, vars, observed
<1>2. CASE InitInterrupt \/ ActivatePower_Usb \/ ActivatePower_Battery
  BY <1>2 DEF InitInterrupt, Arm, ActivatePower_Usb, ActivatePower_Battery, observed
<1>3. CASE Check1_Delay
  BY <1>3 DEF Check1_Delay, NextDelay
<1>4. CASE Check1_Elapsed
  <2>1. down
    BY <1>4 DEF Check1_Elapsed, QuietMeansDown
  <2>2. held' = held + 1 /\ ticks' = ticks + 1 /\ at' = at /\ pwrEn' = pwrEn
    BY <1>4, <2>1 DEF Check1_Elapsed
  <2>3. QED
    BY <1>4, <2>2 DEF Check1_Elapsed
<1>5. CASE ActivatePower_Confirm \/ WatchPowerButton_Confirm
  BY <1>5 DEF ActivatePower_Confirm, WatchPowerButton_Confirm, observed
<1>6. CASE ActivatePower_Abort \/ ActivatePower_Release \/ PowerReady \/ Shutdown
  BY <1>6 DEF ActivatePower_Abort, ActivatePower_Release, PowerReady, Shutdown, observed
<1>7. CASE WatchPowerButton_Wait \/ WatchPowerButton_Cancel
  BY <1>7 DEF WatchPowerButton_Wait, WatchPowerButton_Cancel
<1>8. QED
  BY <1>1, <1>2, <1>3, <1>4, <1>5, <1>6, <1>7 DEF Next, TaskNext

LEMMA HoldingInvariant == Spec => []Holding
<1>1. Init => Holding
  BY DEF Init, Holding, CheckMeansOn, QuietMeansDown, EachHeld, PowerOff, Checking
<1>2. /\ TypeOK /\ TypeOK' /\ NoDrift' /\ TicksLeft /\ TicksLeft'
      /\ Holding /\ [Next]_vars
      => Holding'
  <2> SUFFICES ASSUME TypeOK, TypeOK', NoDrift', TicksLeft, TicksLeft', Holding, [Next]_vars
               PROVE  Holding'
    OBVIOUS
  <2>1. CheckMeansOn'
    BY OnStep DEF Holding
  <2>2. QuietMeansDown'
    BY <2>1, QuietStep DEF Holding
  <2>3. EachHeld' /\ PowerOff'
    BY HeldStep
  <2>4. QED
    BY <2>1, <2>2, <2>3 DEF Holding
<1>3. QED
  BY <1>1, <1>2, TypesAndTicks, ButtonNeverDrifts, PTL DEF Spec

(***************************************************************************)
(* PWR_EN is written, and the shutdown begun, only behind a whole check    *)
(* through each delay of which the button was seen down, no post taken in  *)
(* between (PowerCtrl_main.c:213-219, 269-275), although the task reads    *)
(* the pin only once, at start-up, and the expiry, the return and the      *)
(* write are steps between which anything may happen to it.                *)
(***************************************************************************)
THEOREM PowerSwitchedByHolding == Spec => SwitchedByHolding
<1> DEFINE Switched == pwrEn' # pwrEn \/ (at' = "shutdown" /\ at # "shutdown")
<1>1. Holding /\ [Next]_vars => [Switched => held = CheckTicks]_vars
  <2> SUFFICES ASSUME Holding, Next, Switched PROVE held = CheckTicks
    BY DEF vars, pin, observed
  <2> USE DEF Holding, EachHeld, PowerOff, Checking
  <2>1. CASE ActivatePower_Confirm \/ WatchPowerButton_Confirm
    BY <2>1 DEF ActivatePower_Confirm, WatchPowerButton_Confirm, Confirmed
  <2>2. CASE Shutdown
    BY <2>2 DEF Shutdown
  <2>3. ASSUME pwrEn' = pwrEn, at' # "shutdown" \/ at' = at PROVE FALSE
    BY <2>3
  <2>4. CASE MoveButton \/ HandleGpioInterrupt \/ InitInterrupt \/ PowerReady
             \/ ActivatePower_Usb \/ ActivatePower_Battery
    BY <2>3, <2>4 DEF MoveButton, HandleGpioInterrupt, InitInterrupt, Arm, PowerReady,
      ActivatePower_Usb, ActivatePower_Battery
  <2>5. CASE Check1_Delay \/ Check1_Elapsed \/ ActivatePower_Abort
             \/ ActivatePower_Release \/ WatchPowerButton_Wait \/ WatchPowerButton_Cancel
    BY <2>3, <2>5 DEF Check1_Delay, NextDelay, Check1_Elapsed, ActivatePower_Abort,
      ActivatePower_Release, WatchPowerButton_Wait, WatchPowerButton_Cancel
  <2>6. QED
    BY <2>1, <2>2, <2>4, <2>5 DEF Next, TaskNext
<1>2. QED
  BY <1>1, HoldingInvariant, PTL DEF Spec, SwitchedByHolding
=============================================================================
