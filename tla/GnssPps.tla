------------------------------- MODULE GnssPps -------------------------------
(***************************************************************************)
(* Gnss/Gnss_Pps.c: the interrupt handler that stamps the pulses the GNSS  *)
(* receiver gives once per second, on top of CommonRtc.  The interrupt is  *)
(* a level interrupt whose polarity the handler inverts, so that it sees   *)
(* the two edges in turn; it takes the stamp on the rising one.            *)
(*                                                                         *)
(* Common_Rtc.h does not declare GetCountByCapture: in Gnss_Pps.c it       *)
(* returns int, and the stamp is the low word of the count, sign-extended. *)
(* Gnss_Pps_main and Gnss_Pps_SetTime, which nothing calls, are left out.  *)
(***************************************************************************)
EXTENDS CommonRtc, Sequences

CONSTANTS
  Pps,        \* the handler
  NumTimes,   \* 32: the length of times
  IntMod,     \* 2^32
  WideMod,    \* 2^64
  MaxPulses   \* bound: pulses

ASSUME GnssPpsAssumption ==
  /\ Pps \in Capturer
  /\ NumTimes \in Nat \ {0} /\ MaxPulses \in Nat
  /\ IntMod \in Nat \ {0} /\ WideMod \in Nat /\ IntMod <= WideMod

VARIABLES
  isEnabled,  \* board_gpio_int
  pin,        \* PIN_GNSS_1PPS_OUT is high
  polarity,   \* the level that interrupts: TRUE is INT_HIGH_LEVEL
  edge,
  head,
  times,
  pulse,      \* the pulses so far
  stamped     \* what was stamped: the pulse, and the count captured for it

pps == <<isEnabled, pin, polarity, edge, head, times, pulse, stamped>>
vars == <<rtcVars, pps>>

Init ==
  /\ RtcInit
  /\ isEnabled = FALSE
  /\ pin \in BOOLEAN
  /\ polarity = TRUE
  /\ edge = "RISING"
  /\ head = 0
  /\ times = [k \in 0 .. NumTimes - 1 |-> 0]
  /\ pulse = 0
  /\ stamped = <<>>

\* The receiver moves the pin.
MovePin ==
  /\ pulse < MaxPulses
  /\ pin' = ~pin
  /\ pulse' = IF pin' THEN pulse + 1 ELSE pulse
  /\ UNCHANGED <<rtcVars, isEnabled, polarity, edge, head, times, stamped>>

Gnss_Pps_Init ==
  /\ ~isEnabled
  /\ isEnabled' = TRUE
  /\ UNCHANGED <<rtcVars, pin, polarity, edge, head, times, pulse, stamped>>

-----------------------------------------------------------------------------
(* pps_handler *)

\* The interrupt is taken.
Interrupt(e) == isEnabled /\ pin = polarity /\ at[Pps] = "idle" /\ edge = e

pps_handler_Request ==
  /\ Interrupt("RISING")
  /\ ByCapture_Request(Pps)
  /\ stamped' = Append(stamped, [pulse |-> pulse, count |-> 0])
  /\ UNCHANGED <<isEnabled, pin, polarity, edge, head, times, pulse>>

\* A uint64_t returned as an int, assigned to a uint64_t.
ThroughInt(n) ==
  LET low == n % IntMod
  IN  IF 2 * low < IntMod THEN low ELSE low + WideMod - IntMod

\* The stamp is stored, edge and interrupt turn to the falling edge.
Stored(slot, following, turned) ==
  /\ at[Pps] = "read"
  /\ Goto(Pps, "idle")
  /\ begun' = [begun EXCEPT ![Pps] = 0]
  /\ val' = [val EXCEPT ![Pps] = 0]
  /\ head' = following
  /\ times' = [times EXCEPT ![slot] = ThroughInt(val[Pps])]
  /\ edge' = "FALLING"
  /\ polarity' = turned
  /\ stamped' = [stamped EXCEPT ![Len(stamped)].count = val[Pps]]
  /\ UNCHANGED <<count, registers, lock, isEnabled, pin, pulse>>

NextHead == (head + 1) % NumTimes

\* Mutant: head is not wrapped.
pps_handler_Store_NoWrap == Stored(head, head + 1, ~polarity)

\* Mutant: the index is counted up first.
pps_handler_Store_HeadFirst == Stored(NextHead, NextHead, ~polarity)

\* Mutant: the polarity is left alone.
pps_handler_Store_NoInvert == Stored(head, NextHead, polarity)

pps_handler_Store == Stored(head, NextHead, ~polarity)

pps_handler_Falling ==
  /\ Interrupt("FALLING")
  /\ edge' = "RISING"
  /\ polarity' = ~polarity
  /\ UNCHANGED <<rtcVars, isEnabled, pin, head, times, pulse, stamped>>

-----------------------------------------------------------------------------
Next ==
  \/ RtcNext /\ UNCHANGED pps
  \/ MovePin
  \/ Gnss_Pps_Init
  \/ pps_handler_Request
  \/ pps_handler_Store
  \/ pps_handler_Falling

Spec == Init /\ [][Next]_vars

-----------------------------------------------------------------------------
(* Properties *)

\* Type invariant.
TypeOK ==
  /\ RtcTypeOK
  /\ isEnabled \in BOOLEAN /\ pin \in BOOLEAN /\ polarity \in BOOLEAN
  /\ edge \in {"RISING", "FALLING"}
  /\ head \in 0 .. NumTimes - 1
  /\ times \in [0 .. NumTimes - 1 -> 0 .. WideMod - 1]
  /\ pulse \in 0 .. MaxPulses
  /\ stamped \in Seq([pulse: 0 .. MaxPulses, count: Nat])

(***************************************************************************)
(* No pulse is stamped twice and no gap between pulses is: the handler's   *)
(* idea of the edge and the polarity of the interrupt turn together,       *)
(* though the pin may move, or miss a turn, while it runs (Gnss_Pps.c:59,  *)
(* 66-67).                                                                 *)
(***************************************************************************)
OneStampPerPulse ==
  /\ (edge = "RISING") = polarity
  /\ \A j, l \in 1 .. Len(stamped) :
       j < l => stamped[j].pulse < stamped[l].pulse

\* The stamps that are in times.
Done == IF at[Pps] = "idle" THEN Len(stamped) ELSE Len(stamped) - 1

(***************************************************************************)
(* times holds the latest stamps in the order of the pulses, each the low  *)
(* word of the count captured for its pulse, sign-extended; and the counts *)
(* never go back (Gnss_Pps.c:60-63, Common_Rtc.c:69-74).                   *)
(***************************************************************************)
LatestStamps ==
  /\ head = Done % NumTimes
  /\ \A j \in 1 .. Done :
       /\ j > Done - NumTimes =>
            times[(j - 1) % NumTimes] = ThroughInt(stamped[j].count)
       /\ j > 1 => stamped[j - 1].count <= stamped[j].count
=============================================================================
