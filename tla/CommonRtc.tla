------------------------------ MODULE CommonRtc ------------------------------
(***************************************************************************)
(* Common/Common_Rtc.c: reading the 47-bit counter of a real-time clock    *)
(* through two registers.  Common_Rtc_GetCount reads the upper half, which *)
(* latches the lower one, then the latch; tasks on both CPUs do so on one  *)
(* channel, and a spin lock keeps them apart.  GetCountByCapture has the   *)
(* hardware copy both halves, and takes no lock: its only caller is an     *)
(* interrupt handler.                                                      *)
(*                                                                         *)
(* The registers are external.  Both channels count the same clock.        *)
(***************************************************************************)
EXTENDS Integers

CONSTANTS
  Reader,    \* the tasks that call GetCount
  Capturer,  \* the interrupt handlers that call GetCountByCapture
  Channel,   \* caller -> the channel it asks for
  PreMod,    \* 2^15: the counts of the lower half
  MaxCount   \* bound: the counter stops here

Caller == Reader \cup Capturer
Channels == {0, 1}
Nobody == "nobody"

ASSUME CommonRtcAssumption ==
  /\ PreMod \in Nat \ {0}
  /\ MaxCount \in Nat
  /\ Channel \in [Caller -> Channels]
  /\ Reader \cap Capturer = {}
  /\ Nobody \notin Caller
  /\ \A c, d \in Capturer : Channel[c] = Channel[d] => c = d

VARIABLES
  count,    \* the counter
  latch,    \* channel -> RTPRECNT as the last read of RTPOSTCNT left it
  capture,  \* channel -> RDPOSTCNT, RDPRECNT
  busy,     \* channel -> a read request is not completed
  lock,     \* who holds the spin lock
  at,       \* where each caller is
  begun,    \* the counter when its call began
  val       \* its local variable

registers == <<latch, capture, busy>>
rtcVars == <<count, registers, lock, at, begun, val>>

At == {"idle", "locked", "post", "read", "request", "captured"}

RtcInit ==
  /\ count \in 0 .. PreMod - 1
  /\ latch = [c \in Channels |-> 0]
  /\ capture = [c \in Channels |-> 0]
  /\ busy = [c \in Channels |-> FALSE]
  /\ lock = Nobody
  /\ at = [r \in Caller |-> "idle"]
  /\ begun = [r \in Caller |-> 0]
  /\ val = [r \in Caller |-> 0]

Post(n) == n \div PreMod
Pre(n) == n % PreMod
Joined(post, pre) == post * PreMod + pre

Goto(r, place) == at' = [at EXCEPT ![r] = place]

Tick ==
  /\ count < MaxCount
  /\ count' = count + 1
  /\ UNCHANGED <<registers, lock, at, begun, val>>

-----------------------------------------------------------------------------
(* Common_Rtc_GetCount *)

Call(r) ==
  /\ at[r] = "idle"
  /\ begun' = [begun EXCEPT ![r] = count]
  /\ Goto(r, "locked")
  /\ UNCHANGED <<count, registers, val>>

\* Mutant: no spin lock.
GetCount_Lock_Free(r) == Call(r) /\ UNCHANGED lock

\* spin_lock_irqsave.
GetCount_Lock(r) == Call(r) /\ lock = Nobody /\ lock' = r

\* The upper half; the lower is latched.
GetCount_Post(r) ==
  /\ at[r] = "locked"
  /\ val' = [val EXCEPT ![r] = Joined(Post(count), 0)]
  /\ latch' = [latch EXCEPT ![Channel[r]] = Pre(count)]
  /\ Goto(r, "post")
  /\ UNCHANGED <<count, capture, busy, lock, begun>>

GetCount_Pre(r) ==
  /\ at[r] = "post"
  /\ val' = [val EXCEPT ![r] = @ + latch[Channel[r]]]
  /\ Goto(r, "read")
  /\ UNCHANGED <<count, registers, lock, begun>>

\* spin_unlock_irqrestore, and return.
GetCount_Return(r) ==
  /\ at[r] = "read"
  /\ lock' = Nobody
  /\ Goto(r, "idle")
  /\ begun' = [begun EXCEPT ![r] = 0]
  /\ val' = [val EXCEPT ![r] = 0]
  /\ UNCHANGED <<count, registers>>

-----------------------------------------------------------------------------
(* Common_Rtc_GetCountByCapture *)

ByCapture_Request(r) ==
  /\ at[r] = "idle"
  /\ busy' = [busy EXCEPT ![Channel[r]] = TRUE]
  /\ begun' = [begun EXCEPT ![r] = count]
  /\ Goto(r, "request")
  /\ UNCHANGED <<count, latch, capture, lock, val>>

\* The hardware completes the request.
Capture(c) ==
  /\ busy[c]
  /\ capture' = [capture EXCEPT ![c] = count]
  /\ busy' = [busy EXCEPT ![c] = FALSE]
  /\ UNCHANGED <<count, latch, lock, at, begun, val>>

CapturePost(r) ==
  /\ at[r] = "request"
  /\ val' = [val EXCEPT ![r] = Joined(Post(capture[Channel[r]]), 0)]
  /\ Goto(r, "captured")
  /\ UNCHANGED <<count, registers, lock, begun>>

\* Mutant: the busy bit is not waited for.
ByCapture_Post_NoWait(r) == CapturePost(r)

ByCapture_Post(r) == ~busy[Channel[r]] /\ CapturePost(r)

ByCapture_Pre(r) ==
  /\ at[r] = "captured"
  /\ val' = [val EXCEPT ![r] = @ + Pre(capture[Channel[r]])]
  /\ Goto(r, "read")
  /\ UNCHANGED <<count, registers, lock, begun>>

-----------------------------------------------------------------------------
GetCount(r) ==
  \/ GetCount_Lock(r)
  \/ GetCount_Post(r)
  \/ GetCount_Pre(r)
  \/ GetCount_Return(r)

RtcNext ==
  \/ Tick
  \/ \E r \in Reader : GetCount(r)
  \/ \E c \in Channels : Capture(c)
  \/ \E r \in Capturer : ByCapture_Post(r) \/ ByCapture_Pre(r)

-----------------------------------------------------------------------------
(* Properties *)

RtcTypeOK ==
  /\ count \in Nat
  /\ latch \in [Channels -> 0 .. PreMod - 1]
  /\ capture \in [Channels -> Nat]
  /\ busy \in [Channels -> BOOLEAN]
  /\ lock \in Reader \cup {Nobody}
  /\ at \in [Caller -> At]
  /\ begun \in [Caller -> Nat]
  /\ val \in [Caller -> Nat]

(***************************************************************************)
(* What a caller has read is the counter at one instant of its call: a     *)
(* carry between the halves, or another CPU's read between a caller's two, *)
(* never gives a time before the call or after it, so time stamps of one   *)
(* task never go back (Common_Rtc.c:45-46, 56-60, 69-74).                  *)
(***************************************************************************)
ReadsAnInstant ==
  \A r \in Caller : at[r] = "read" => begun[r] <= val[r] /\ val[r] <= count
=============================================================================
