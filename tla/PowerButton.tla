----------------------------- MODULE PowerButton -----------------------------
(***************************************************************************)
(* PowerCtrl/PowerCtrl_main.c: the task that watches the power button.     *)
(* The pin has a level interrupt whose polarity the handler inverts, so it *)
(* fires once per change; each firing posts a semaphore, and the task      *)
(* flips its idea of the button (state) once per post it takes.  The task  *)
(* never reads the pin again after start-up: if one flip were lost, every  *)
(* later press would be taken for a release.                               *)
(*                                                                         *)
(* The LEDs are left out; the PowerCtrl_Shutdown it calls is module        *)
(* PowerCtrl, here one step.                                               *)
(***************************************************************************)
EXTENDS Integers

CONSTANTS
  CheckTicks,  \* the delays of 100 ms in Check1: ten rounds of four LEDs
  MaxChanges   \* bound: how often the button moves

ASSUME PowerButtonAssumption ==
  /\ CheckTicks \in Nat \ {0}
  /\ MaxChanges \in Nat

VARIABLES
  at,        \* where the task is
  delaying,  \* it is in a Delay of Check1
  state,     \* PowerButton_ON or PowerButton_OFF
  source,    \* PowerSource_USB or PowerSource_BATTERY
  smph,      \* the value of the semaphore
  ticks,     \* the delays of Check1 that have elapsed
  pwrEn,     \* the level of PWR_EN, which keeps the battery connected
  \* the pin
  powerSw,   \* the level of POWER_SW: 0 pressed, 1 released
  polarity,  \* the level that raises the interrupt
  changes,   \* how often the button has moved
  \* observed, not kept by the code: of the delay going on, at some moment
  quiet,     \* no interrupt was pending
  down,      \* the button was down
  held       \* delays in a row, no post taken between, with the button down

pin == <<powerSw, polarity, changes>>
observed == <<quiet, down, held>>
vars == <<at, delaying, state, source, smph, ticks, pwrEn, pin, observed>>

\* "bootCheck" and "bootRelease" are Check1 and Check2 in ActivatePower.
At == {"init", "activate", "bootCheck", "bootRelease", "ready", "wait", "check",
       "shutdown", "off", "aborted"}

Init ==
  /\ at = "init"
  /\ delaying = FALSE
  /\ state = "OFF"
  /\ source = "BATTERY"
  /\ smph = 0
  /\ ticks = 0
  /\ pwrEn = 0
  /\ powerSw \in {0, 1}
  /\ polarity = 1
  /\ changes = 0
  /\ quiet = FALSE /\ down = FALSE /\ held = 0

Armed == at # "init"
Flip(s) == IF s = "ON" THEN "OFF" ELSE "ON"

Observe ==
  /\ quiet' = (delaying' /\ (quiet \/ powerSw' # polarity'))
  /\ down' = (delaying' /\ (down \/ powerSw' = 0))

-----------------------------------------------------------------------------
\* Somebody presses or releases the button.
MoveButton ==
  /\ changes < MaxChanges
  /\ changes' = changes + 1
  /\ powerSw' = 1 - powerSw
  /\ UNCHANGED <<at, delaying, state, source, smph, ticks, pwrEn, polarity, held>>
  /\ Observe

HandleGpioInterrupt ==
  /\ Armed
  /\ powerSw = polarity
  /\ polarity' = 1 - polarity
  /\ smph' = smph + 1
  /\ UNCHANGED <<at, delaying, state, source, ticks, pwrEn, powerSw, changes, held>>
  /\ Observe

-----------------------------------------------------------------------------
(* Delay, in Check1 and Check2, and Wait *)

DelayBegins ==
  /\ ~delaying
  /\ delaying' = TRUE
  /\ UNCHANGED <<smph, state, pin, held>>
  /\ Observe

\* A post is taken, before the time is up or before it has begun to run.
Taken(s) ==
  /\ smph > 0
  /\ smph' = smph - 1
  /\ state' = s
  /\ delaying' = FALSE
  /\ held' = 0
  /\ UNCHANGED pin
  /\ Observe

\* Mutant: the flip is forgotten.
DelayInterrupted_NoFlip == Taken(state)

\* ERROR.
DelayInterrupted == Taken(Flip(state))

(***************************************************************************)
(* OK: 100 ms without a post.  An interrupt that was pending from the      *)
(* beginning to the end would have been served in that time; one that came *)
(* later need not have been, and its post, or the release itself, may come *)
(* before the task goes on.                                                *)
(***************************************************************************)
DelayElapsed ==
  /\ delaying
  /\ smph = 0
  /\ quiet
  /\ delaying' = FALSE
  /\ held' = IF down THEN held + 1 ELSE 0
  /\ UNCHANGED <<smph, state, pin>>
  /\ Observe

\* Mutant: the posts that piled up are taken for one.
Wait_Drain ==
  /\ smph > 0
  /\ smph' = 0
  /\ state' = Flip(state)
  /\ held' = 0
  /\ UNCHANGED <<delaying, pin, quiet, down>>

\* sem_wait succeeds when an interrupt has posted: OK.
Wait ==
  /\ ~delaying
  /\ Taken(Flip(state))

-----------------------------------------------------------------------------
(* Check1: the delays of ten rounds of four LEDs, until one is interrupted *)

Checking == at \in {"bootCheck", "check"}

\* The next delay, as long as more says so.
NextDelay(more) ==
  /\ Checking
  /\ more
  /\ DelayBegins
  /\ UNCHANGED <<at, source, ticks, pwrEn>>

\* Mutant: i <= 10.
Check1_Delay_OneMore == NextDelay(ticks <= CheckTicks)

Check1_Delay == NextDelay(ticks < CheckTicks)

Check1_Elapsed ==
  /\ Checking
  /\ DelayElapsed
  /\ ticks' = ticks + 1
  /\ UNCHANGED <<at, source, pwrEn>>

\* Check1 returns OK.
Confirmed == Checking /\ ~delaying /\ ticks = CheckTicks

-----------------------------------------------------------------------------
\* The interrupt is armed for the release of the button.
Arm(s) ==
  /\ at = "init"
  /\ smph' = 0
  /\ state' = s
  /\ polarity' = 1
  /\ at' = "activate"
  /\ UNCHANGED <<delaying, source, ticks, pwrEn, powerSw, changes, observed>>

\* Mutant: the button is taken to be up at first.
InitInterrupt_Off == Arm("OFF")

\* The board is on because somebody presses the button, or so it is assumed.
InitInterrupt == Arm("ON")

\* Not pressed: the board runs from USB, and nothing needs confirming.
ActivatePower_Usb ==
  /\ at = "activate"
  /\ powerSw = 1
  /\ source' = "USB"
  /\ at' = "ready"
  /\ UNCHANGED <<delaying, state, smph, ticks, pwrEn, pin, observed>>

ActivatePower_Battery ==
  /\ at = "activate"
  /\ powerSw = 0
  /\ source' = "BATTERY"
  /\ ticks' = 0
  /\ at' = "bootCheck"
  /\ UNCHANGED <<delaying, state, smph, pwrEn, pin, observed>>

\* The button was released too early: main returns ERROR.
ActivatePower_Abort ==
  /\ at = "bootCheck"
  /\ delaying
  /\ DelayInterrupted
  /\ at' = "aborted"
  /\ UNCHANGED <<source, ticks, pwrEn>>

ActivatePower_Confirm ==
  /\ at = "bootCheck"
  /\ Confirmed
  /\ pwrEn' = 1
  /\ at' = "bootRelease"
  /\ UNCHANGED <<delaying, state, source, smph, ticks, pin, observed>>

\* Check2: blink until the next interrupt.
ActivatePower_Release ==
  /\ at = "bootRelease"
  /\ DelayInterrupted
  /\ at' = "ready"
  /\ UNCHANGED <<source, ticks, pwrEn>>

PowerReady ==
  /\ at = "ready"
  /\ at' = "wait"
  /\ UNCHANGED <<delaying, state, source, smph, ticks, pwrEn, pin, observed>>

WatchPowerButton_Wait ==
  /\ at = "wait"
  /\ Wait
  /\ IF state' = "ON" THEN at' = "check" /\ ticks' = 0
                      ELSE UNCHANGED <<at, ticks>>
  /\ UNCHANGED <<source, pwrEn>>

WatchPowerButton_Cancel ==
  /\ at = "check"
  /\ delaying
  /\ DelayInterrupted
  /\ at' = "wait"
  /\ UNCHANGED <<source, ticks, pwrEn>>

\* DeactivatePower: the power goes, and then the shutdown runs.
WatchPowerButton_Confirm ==
  /\ at = "check"
  /\ Confirmed
  /\ pwrEn' = 0
  /\ at' = "shutdown"
  /\ UNCHANGED <<delaying, state, source, smph, ticks, pin, observed>>

\* PowerCtrl_Shutdown and a second DeactivatePower.
Shutdown ==
  /\ at = "shutdown"
  /\ pwrEn' = 0
  /\ at' = "off"
  /\ UNCHANGED <<delaying, state, source, smph, ticks, pin, observed>>

-----------------------------------------------------------------------------
TaskNext ==
  \/ InitInterrupt
  \/ ActivatePower_Usb
  \/ ActivatePower_Battery
  \/ Check1_Delay
  \/ Check1_Elapsed
  \/ ActivatePower_Abort
  \/ ActivatePower_Confirm
  \/ ActivatePower_Release
  \/ PowerReady
  \/ WatchPowerButton_Wait
  \/ WatchPowerButton_Cancel
  \/ WatchPowerButton_Confirm
  \/ Shutdown

Next ==
  \/ MoveButton
  \/ HandleGpioInterrupt
  \/ TaskNext

Spec == Init /\ [][Next]_vars

\* The task runs, time passes, and a pending interrupt is taken.
FairSpec == Spec /\ WF_vars(TaskNext) /\ WF_vars(HandleGpioInterrupt)

-----------------------------------------------------------------------------
(* Properties *)

\* Type invariant.
TypeOK ==
  /\ at \in At
  /\ state \in {"ON", "OFF"}
  /\ source \in {"USB", "BATTERY"}
  /\ smph \in Nat
  /\ ticks \in 0 .. CheckTicks
  /\ pwrEn \in {0, 1} /\ powerSw \in {0, 1} /\ polarity \in {0, 1}
  /\ changes \in 0 .. MaxChanges
  /\ delaying \in BOOLEAN /\ quiet \in BOOLEAN /\ down \in BOOLEAN
  /\ held \in Nat

(***************************************************************************)
(* The task's idea of the button, once it has caught up with the posts     *)
(* still in the semaphore, is the opposite of what the interrupt waits     *)
(* for: no sequence of presses and releases makes the two drift apart      *)
(* (PowerCtrl_main.c:75-76 against 98 and 118).                            *)
(***************************************************************************)
NoDrift ==
  Armed => (polarity = 1 <=> (state = "ON" <=> smph % 2 = 0))

(***************************************************************************)
(* The power is switched on or off, and the shutdown begun, only after a   *)
(* whole check in each delay of which the button was down at some moment,  *)
(* with no post taken from its first delay to its last                     *)
(* (PowerCtrl_main.c:213-219, 269-275).  The task never looks at the pin: a release is not mistaken   *)
(* for a press, nor a broken press for a long one.  The button may be up   *)
(* again by then, if it was released within the last delay or since.       *)
(***************************************************************************)
SwitchedByHolding ==
  [][pwrEn' # pwrEn \/ (at' = "shutdown" /\ at # "shutdown") => held = CheckTicks]_vars

(***************************************************************************)
(* The task stays awake to the button: whenever it has slept through all   *)
(* posts and the button is down after having been up, pressing long enough *)
(* ends in the shutdown.                                                   *)
(***************************************************************************)
LongPressStops ==
  (at = "wait" /\ polarity = 0 /\ [](powerSw = 0)) ~> at = "off"
=============================================================================
