---------------------------- MODULE GnssPpsProofs ----------------------------
(***************************************************************************)
(* Machine-checked proofs about GnssPps and the counter it reads, for any  *)
(* number of readers on either channel, any split of the counter and any   *)
(* number of ticks and pulses.                                             *)
(***************************************************************************)
EXTENDS GnssPps, RingLemmas

\* The two halves of the counter, joined, are the counter.
LEMMA Halves ==
  ASSUME NEW n \in Nat
  PROVE  /\ Pre(n) \in 0 .. PreMod - 1
         /\ Joined(Post(n), 0) \in Nat
         /\ Joined(Post(n), 0) + Pre(n) = n
  BY CommonRtcAssumption DEF Post, Pre, Joined

-----------------------------------------------------------------------------
(* The counter *)

\* Where the callers can be.
Places ==
  /\ \A r \in Reader : at[r] \in {"idle", "locked", "post", "read"}
  /\ \A r \in Capturer : at[r] \in {"idle", "request", "captured", "read"}

\* A task in the middle of GetCount has the spin lock.
HoldsLock == \A r \in Reader : at[r] # "idle" => lock = r

BegunBefore == \A r \in Caller : begun[r] <= count

\* Between the two reads nobody else changes the latch.
HalfRead ==
  \A r \in Reader : at[r] = "post" =>
    LET n == val[r] + latch[Channel[r]] IN begun[r] <= n /\ n <= count

\* Once the request is completed the two halves belong together.
HalvesAgree ==
  \A r \in Capturer :
    LET c == Channel[r] IN
      /\ (at[r] = "request" /\ ~busy[c]) \/ at[r] = "captured"
           => begun[r] <= capture[c] /\ capture[c] <= count
      /\ at[r] = "captured" => ~busy[c] /\ val[r] = Joined(Post(capture[c]), 0)

RtcInv ==
  RtcTypeOK /\ Places /\ HoldsLock /\ BegunBefore /\ HalfRead /\ HalvesAgree
  /\ ReadsAnInstant

\* A step of the handler that reads the counter, or one that leaves it alone.
RtcStep ==
  \/ RtcNext
  \/ ByCapture_Request(Pps)
  \/ \E k, following, turned : Stored(k, following, turned)
  \/ UNCHANGED rtcVars

LEMMA RtcInvStep == RtcInv /\ RtcStep => RtcInv'
<1> SUFFICES ASSUME RtcInv, RtcStep PROVE RtcInv'
  OBVIOUS
<1>1. CASE Tick
  <2>1. RtcTypeOK'
    BY <1>1, CommonRtcAssumption
       DEF Tick, RtcInv, RtcTypeOK, Caller, Goto, registers, At
  <2>2. Places' /\ HoldsLock'
    BY <1>1, CommonRtcAssumption
       DEF Tick, RtcInv, RtcTypeOK, Caller, Goto, registers, Places, HoldsLock
  <2>3. BegunBefore'
    BY <1>1 DEF Tick, RtcInv, RtcTypeOK, Caller, Goto, registers, BegunBefore
  <2>4. HalfRead'
    BY <1>1, CommonRtcAssumption
       DEF Tick, RtcInv, RtcTypeOK, Caller, Goto, registers, HalfRead, BegunBefore,
           Places, HoldsLock
  <2>5. HalvesAgree'
    BY <1>1, CommonRtcAssumption
       DEF Tick, RtcInv, RtcTypeOK, Caller, Goto, registers, HalvesAgree, BegunBefore,
           Places
  <2>6. ReadsAnInstant'
    BY <1>1, CommonRtcAssumption
       DEF Tick, RtcInv, RtcTypeOK, Caller, Goto, registers, ReadsAnInstant, HalfRead,
           HalvesAgree
  <2>7. QED
    BY <2>1, <2>2, <2>3, <2>4, <2>5, <2>6 DEF RtcInv
<1>2. ASSUME NEW r \in Reader, GetCount(r) PROVE RtcInv'
  <2>1. CASE GetCount_Lock(r)
    <3>1. RtcTypeOK'
      BY <2>1, CommonRtcAssumption
         DEF GetCount_Lock, Call, RtcInv, RtcTypeOK, Caller, Goto, registers, At
    <3>2. Places' /\ HoldsLock'
      BY <2>1, CommonRtcAssumption
         DEF GetCount_Lock, Call, RtcInv, RtcTypeOK, Caller, Goto, registers, Places,
             HoldsLock
    <3>3. BegunBefore'
      BY <2>1
         DEF GetCount_Lock, Call, RtcInv, RtcTypeOK, Caller, Goto, registers,
             BegunBefore
    <3>4. HalfRead'
      BY <2>1, CommonRtcAssumption
         DEF GetCount_Lock, Call, RtcInv, RtcTypeOK, Caller, Goto, registers, HalfRead,
             BegunBefore, Places, HoldsLock
    <3>5. HalvesAgree'
      BY <2>1, CommonRtcAssumption
         DEF GetCount_Lock, Call, RtcInv, RtcTypeOK, Caller, Goto, registers,
             HalvesAgree, BegunBefore, Places
    <3>6. ReadsAnInstant'
      BY <2>1, CommonRtcAssumption
         DEF GetCount_Lock, Call, RtcInv, RtcTypeOK, Caller, Goto, registers,
             ReadsAnInstant, HalfRead, HalvesAgree
    <3>7. QED
      BY <3>1, <3>2, <3>3, <3>4, <3>5, <3>6 DEF RtcInv
  <2>2. CASE GetCount_Post(r)
    <3>1. /\ Pre(count) \in 0 .. PreMod - 1
          /\ Joined(Post(count), 0) \in Nat
          /\ Joined(Post(count), 0) + Pre(count) = count
      BY Halves DEF RtcInv, RtcTypeOK
    <3>2. RtcTypeOK'
      BY <2>2, <3>1, CommonRtcAssumption
         DEF GetCount_Post, RtcInv, RtcTypeOK, Caller, Goto, registers, At
    <3>3. Places' /\ HoldsLock'
      BY <2>2, CommonRtcAssumption
         DEF GetCount_Post, RtcInv, RtcTypeOK, Caller, Goto, registers, Places,
             HoldsLock
    <3>4. BegunBefore'
      BY <2>2 DEF GetCount_Post, RtcInv, RtcTypeOK, Caller, Goto, registers, BegunBefore
    <3>5. HalfRead'
      BY <2>2, <3>1, CommonRtcAssumption
         DEF GetCount_Post, RtcInv, RtcTypeOK, Caller, Goto, registers, HalfRead,
             BegunBefore, Places, HoldsLock
    <3>6. HalvesAgree'
      BY <2>2, <3>1, CommonRtcAssumption
         DEF GetCount_Post, RtcInv, RtcTypeOK, Caller, Goto, registers, HalvesAgree,
             BegunBefore, Places
    <3>7. ReadsAnInstant'
      BY <2>2, <3>1, CommonRtcAssumption
         DEF GetCount_Post, RtcInv, RtcTypeOK, Caller, Goto, registers, ReadsAnInstant,
             HalfRead, HalvesAgree
    <3>8. QED
      BY <3>2, <3>3, <3>4, <3>5, <3>6, <3>7 DEF RtcInv
  <2>3. CASE GetCount_Pre(r)
    <3>1. RtcTypeOK'
      BY <2>3, CommonRtcAssumption
         DEF GetCount_Pre, RtcInv, RtcTypeOK, Caller, Goto, registers, At
    <3>2. Places' /\ HoldsLock'
      BY <2>3, CommonRtcAssumption
         DEF GetCount_Pre, RtcInv, RtcTypeOK, Caller, Goto, registers, Places, HoldsLock
    <3>3. BegunBefore'
      BY <2>3 DEF GetCount_Pre, RtcInv, RtcTypeOK, Caller, Goto, registers, BegunBefore
    <3>4. HalfRead'
      BY <2>3, CommonRtcAssumption
         DEF GetCount_Pre, RtcInv, RtcTypeOK, Caller, Goto, registers, HalfRead,
             BegunBefore, Places, HoldsLock
    <3>5. HalvesAgree'
      BY <2>3, CommonRtcAssumption
         DEF GetCount_Pre, RtcInv, RtcTypeOK, Caller, Goto, registers, HalvesAgree,
             BegunBefore, Places
    <3>6. ReadsAnInstant'
      BY <2>3, CommonRtcAssumption
         DEF GetCount_Pre, RtcInv, RtcTypeOK, Caller, Goto, registers, ReadsAnInstant,
             HalfRead, HalvesAgree
    <3>7. QED
      BY <3>1, <3>2, <3>3, <3>4, <3>5, <3>6 DEF RtcInv
  <2>4. CASE GetCount_Return(r)
    <3>1. RtcTypeOK'
      BY <2>4, CommonRtcAssumption
         DEF GetCount_Return, RtcInv, RtcTypeOK, Caller, Goto, registers, At
    <3>2. Places' /\ HoldsLock'
      BY <2>4, CommonRtcAssumption
         DEF GetCount_Return, RtcInv, RtcTypeOK, Caller, Goto, registers, Places,
             HoldsLock
    <3>3. BegunBefore'
      BY <2>4
         DEF GetCount_Return, RtcInv, RtcTypeOK, Caller, Goto, registers, BegunBefore
    <3>4. HalfRead'
      BY <2>4, CommonRtcAssumption
         DEF GetCount_Return, RtcInv, RtcTypeOK, Caller, Goto, registers, HalfRead,
             BegunBefore, Places, HoldsLock
    <3>5. HalvesAgree'
      BY <2>4, CommonRtcAssumption
         DEF GetCount_Return, RtcInv, RtcTypeOK, Caller, Goto, registers, HalvesAgree,
             BegunBefore, Places
    <3>6. ReadsAnInstant'
      BY <2>4, CommonRtcAssumption
         DEF GetCount_Return, RtcInv, RtcTypeOK, Caller, Goto, registers,
             ReadsAnInstant, HalfRead, HalvesAgree
    <3>7. QED
      BY <3>1, <3>2, <3>3, <3>4, <3>5, <3>6 DEF RtcInv
  <2>5. QED
    BY <1>2, <2>1, <2>2, <2>3, <2>4 DEF GetCount
<1>3. ASSUME NEW c \in Channels, Capture(c) PROVE RtcInv'
  <2>1. RtcTypeOK'
    BY <1>3, CommonRtcAssumption
       DEF Capture, RtcInv, RtcTypeOK, Caller, Goto, registers, At
  <2>2. Places' /\ HoldsLock'
    BY <1>3, CommonRtcAssumption
       DEF Capture, RtcInv, RtcTypeOK, Caller, Goto, registers, Places, HoldsLock
  <2>3. BegunBefore'
    BY <1>3 DEF Capture, RtcInv, RtcTypeOK, Caller, Goto, registers, BegunBefore
  <2>4. HalfRead'
    BY <1>3, CommonRtcAssumption
       DEF Capture, RtcInv, RtcTypeOK, Caller, Goto, registers, HalfRead, BegunBefore,
           Places, HoldsLock
  <2>5. HalvesAgree'
    BY <1>3, CommonRtcAssumption
       DEF Capture, RtcInv, RtcTypeOK, Caller, Goto, registers, HalvesAgree,
           BegunBefore, Places
  <2>6. ReadsAnInstant'
    BY <1>3, CommonRtcAssumption
       DEF Capture, RtcInv, RtcTypeOK, Caller, Goto, registers, ReadsAnInstant,
           HalfRead, HalvesAgree
  <2>7. QED
    BY <2>1, <2>2, <2>3, <2>4, <2>5, <2>6 DEF RtcInv
<1>4. ASSUME NEW r \in Capturer, ByCapture_Post(r) \/ ByCapture_Pre(r) PROVE RtcInv'
  <2>1. /\ Pre(capture[Channel[r]]) \in 0 .. PreMod - 1
        /\ Joined(Post(capture[Channel[r]]), 0) \in Nat
        /\ Joined(Post(capture[Channel[r]]), 0) + Pre(capture[Channel[r]])
             = capture[Channel[r]]
    <3>1. capture[Channel[r]] \in Nat
      BY CommonRtcAssumption DEF RtcInv, RtcTypeOK, Caller
    <3>2. QED
      BY <3>1, Halves
  <2>2. CASE ByCapture_Post(r)
    <3>1. RtcTypeOK'
      BY <2>2, <2>1, CommonRtcAssumption
         DEF ByCapture_Post, CapturePost, RtcInv, RtcTypeOK, Caller, Goto, registers, At
    <3>2. Places' /\ HoldsLock'
      BY <2>2, CommonRtcAssumption
         DEF ByCapture_Post, CapturePost, RtcInv, RtcTypeOK, Caller, Goto, registers,
             Places, HoldsLock
    <3>3. BegunBefore'
      BY <2>2
         DEF ByCapture_Post, CapturePost, RtcInv, RtcTypeOK, Caller, Goto, registers,
             BegunBefore
    <3>4. HalfRead'
      BY <2>2, <2>1, CommonRtcAssumption
         DEF ByCapture_Post, CapturePost, RtcInv, RtcTypeOK, Caller, Goto, registers,
             HalfRead, BegunBefore, Places, HoldsLock
    <3>5. HalvesAgree'
      BY <2>2, <2>1, CommonRtcAssumption
         DEF ByCapture_Post, CapturePost, RtcInv, RtcTypeOK, Caller, Goto, registers,
             HalvesAgree, BegunBefore, Places
    <3>6. ReadsAnInstant'
      BY <2>2, <2>1, CommonRtcAssumption
         DEF ByCapture_Post, CapturePost, RtcInv, RtcTypeOK, Caller, Goto, registers,
             ReadsAnInstant, HalfRead, HalvesAgree
    <3>7. QED
      BY <3>1, <3>2, <3>3, <3>4, <3>5, <3>6 DEF RtcInv
  <2>3. CASE ByCapture_Pre(r)
    <3>1. RtcTypeOK'
      BY <2>3, <2>1, CommonRtcAssumption
         DEF ByCapture_Pre, RtcInv, RtcTypeOK, Caller, Goto, registers, At
    <3>2. Places' /\ HoldsLock'
      BY <2>3, CommonRtcAssumption
         DEF ByCapture_Pre, RtcInv, RtcTypeOK, Caller, Goto, registers, Places,
             HoldsLock
    <3>3. BegunBefore'
      BY <2>3 DEF ByCapture_Pre, RtcInv, RtcTypeOK, Caller, Goto, registers, BegunBefore
    <3>4. HalfRead'
      BY <2>3, <2>1, CommonRtcAssumption
         DEF ByCapture_Pre, RtcInv, RtcTypeOK, Caller, Goto, registers, HalfRead,
             BegunBefore, Places, HoldsLock
    <3>5. HalvesAgree'
      BY <2>3, <2>1, CommonRtcAssumption
         DEF ByCapture_Pre, RtcInv, RtcTypeOK, Caller, Goto, registers, HalvesAgree,
             BegunBefore, Places
    <3>6. ReadsAnInstant'
      BY <2>3, <2>1, CommonRtcAssumption
         DEF ByCapture_Pre, RtcInv, RtcTypeOK, Caller, Goto, registers, ReadsAnInstant,
             HalfRead, HalvesAgree
    <3>7. QED
      BY <3>1, <3>2, <3>3, <3>4, <3>5, <3>6 DEF RtcInv
  <2>4. QED
    BY <1>4, <2>2, <2>3
<1>5. CASE ByCapture_Request(Pps)
  <2>1. RtcTypeOK'
    BY <1>5, GnssPpsAssumption, CommonRtcAssumption
       DEF ByCapture_Request, RtcInv, RtcTypeOK, Caller, Goto, registers, At
  <2>2. Places' /\ HoldsLock'
    BY <1>5, GnssPpsAssumption, CommonRtcAssumption
       DEF ByCapture_Request, RtcInv, RtcTypeOK, Caller, Goto, Places, HoldsLock
  <2>3. BegunBefore'
    BY <1>5
       DEF ByCapture_Request, RtcInv, RtcTypeOK, Caller, Goto, registers, BegunBefore
  <2>4. HalfRead'
    BY <1>5, GnssPpsAssumption, CommonRtcAssumption
       DEF ByCapture_Request, RtcInv, RtcTypeOK, Caller, Goto, registers, HalfRead,
           BegunBefore, Places, HoldsLock
  <2>5. HalvesAgree'
    BY <1>5, GnssPpsAssumption, CommonRtcAssumption
       DEF ByCapture_Request, RtcInv, RtcTypeOK, Caller, Goto, registers, HalvesAgree,
           BegunBefore, Places
  <2>6. ReadsAnInstant'
    BY <1>5, GnssPpsAssumption, CommonRtcAssumption
       DEF ByCapture_Request, RtcInv, RtcTypeOK, Caller, Goto, registers,
           ReadsAnInstant, HalfRead, HalvesAgree
  <2>7. QED
    BY <2>1, <2>2, <2>3, <2>4, <2>5, <2>6 DEF RtcInv
<1>6. ASSUME NEW k, NEW following, NEW turned, Stored(k, following, turned)
      PROVE  RtcInv'
  <2>1. RtcTypeOK'
    BY <1>6, GnssPpsAssumption, CommonRtcAssumption
       DEF Stored, RtcInv, RtcTypeOK, Caller, Goto, registers, At
  <2>2. Places' /\ HoldsLock'
    BY <1>6, GnssPpsAssumption, CommonRtcAssumption
       DEF Stored, RtcInv, RtcTypeOK, Caller, Goto, Places, HoldsLock
  <2>3. BegunBefore'
    BY <1>6 DEF Stored, RtcInv, RtcTypeOK, Caller, Goto, registers, BegunBefore
  <2>4. HalfRead'
    BY <1>6, GnssPpsAssumption, CommonRtcAssumption
       DEF Stored, RtcInv, RtcTypeOK, Caller, Goto, registers, HalfRead, BegunBefore,
           Places, HoldsLock
  <2>5. HalvesAgree'
    BY <1>6, GnssPpsAssumption, CommonRtcAssumption
       DEF Stored, RtcInv, RtcTypeOK, Caller, Goto, registers, HalvesAgree,
           BegunBefore, Places
  <2>6. ReadsAnInstant'
    BY <1>6, GnssPpsAssumption, CommonRtcAssumption
       DEF Stored, RtcInv, RtcTypeOK, Caller, Goto, registers, ReadsAnInstant,
           HalfRead, HalvesAgree
  <2>7. QED
    BY <2>1, <2>2, <2>3, <2>4, <2>5, <2>6 DEF RtcInv
<1>7. CASE UNCHANGED rtcVars
  BY <1>7
     DEF rtcVars, registers, RtcInv, RtcTypeOK, Places, HoldsLock, BegunBefore, HalfRead,
         HalvesAgree, ReadsAnInstant
<1>8. CASE RtcNext
  BY <1>1, <1>2, <1>3, <1>4, <1>8 DEF RtcNext
<1>9. QED
  BY <1>5, <1>6, <1>7, <1>8 DEF RtcStep

-----------------------------------------------------------------------------
(* The handler *)

\* The handler works on the last stamp, for a rising edge.
Handling ==
  at[Pps] # "idle" => edge = "RISING" /\ Len(stamped) > 0

\* A pulse whose rising edge is to be stamped has not been stamped.
Unstamped ==
  \A j \in 1 .. Len(stamped) :
    /\ stamped[j].pulse <= pulse
    /\ at[Pps] = "idle" /\ edge = "RISING" /\ pin => stamped[j].pulse < pulse

\* Stamps are no later than the read that is going on.
StampedBefore ==
  \A j \in 1 .. Done :
    /\ stamped[j].count <= count
    /\ at[Pps] # "idle" => stamped[j].count <= begun[Pps]

PpsInv ==
  TypeOK /\ RtcInv /\ Handling /\ Unstamped /\ StampedBefore /\ OneStampPerPulse
  /\ LatestStamps

LEMMA EveryRtcStep == [Next]_vars => RtcStep
  BY DEF Next, vars, RtcStep, MovePin, Gnss_Pps_Init, pps_handler_Request,
         pps_handler_Store, pps_handler_Falling

\* The counter's steps neither start nor end the handler, nor go back.
LEMMA RtcKeepsHandler ==
  RtcInv /\ RtcNext =>
    /\ (at'[Pps] = "idle") = (at[Pps] = "idle")
    /\ begun'[Pps] = begun[Pps]
    /\ count <= count'
<1> SUFFICES ASSUME RtcInv, RtcNext
             PROVE  /\ (at'[Pps] = "idle") = (at[Pps] = "idle")
                    /\ begun'[Pps] = begun[Pps]
                    /\ count <= count'
  OBVIOUS
<1> USE CommonRtcAssumption, GnssPpsAssumption
    DEF RtcInv, RtcTypeOK, Caller, Goto, At
<1>1. CASE Tick
  BY <1>1 DEF Tick
<1>2. CASE \E r \in Reader : GetCount(r)
  BY <1>2 DEF GetCount, GetCount_Lock, Call, GetCount_Post, GetCount_Pre, GetCount_Return
<1>3. CASE \E c \in Channels : Capture(c)
  BY <1>3 DEF Capture
<1>4. CASE \E r \in Capturer : ByCapture_Post(r) \/ ByCapture_Pre(r)
  BY <1>4 DEF ByCapture_Post, CapturePost, ByCapture_Pre
<1>5. QED
  BY <1>1, <1>2, <1>3, <1>4 DEF RtcNext

LEMMA WrappedInt ==
  ASSUME NEW n \in Nat
  PROVE  ThroughInt(n) \in 0 .. WideMod - 1
<1>1. n % IntMod \in 0 .. IntMod - 1
  BY GnssPpsAssumption
<1>2. QED
  BY <1>1, GnssPpsAssumption DEF ThroughInt

LEMMA PpsInvStep == PpsInv /\ [Next]_vars => PpsInv'
<1> SUFFICES ASSUME PpsInv, [Next]_vars PROVE PpsInv'
  OBVIOUS
<1>1. RtcInv'
  BY EveryRtcStep, RtcInvStep DEF PpsInv
<1>2. RtcInv /\ RtcTypeOK /\ RtcTypeOK' /\ Pps \in Capturer /\ Pps \in Caller
  BY <1>1, GnssPpsAssumption DEF PpsInv, RtcInv, Caller
<1>0. /\ count \in Nat /\ begun[Pps] \in Nat /\ pulse \in Nat
      /\ Len(stamped) \in Nat /\ Done \in 0 .. Len(stamped)
      /\ \A j \in 1 .. Len(stamped) :
           stamped[j] \in [pulse: 0 .. MaxPulses, count: Nat]
  <2>1. stamped \in Seq([pulse: 0 .. MaxPulses, count: Nat])
    BY DEF PpsInv, TypeOK
  <2>2. Len(stamped) \in Nat /\ (at[Pps] # "idle" => Len(stamped) > 0)
    BY <2>1 DEF PpsInv, Handling
  <2>3. Done \in 0 .. Len(stamped)
    BY <2>2 DEF Done
  <2>4. count \in Nat /\ begun[Pps] \in Nat /\ pulse \in Nat
    BY <1>2, GnssPpsAssumption DEF PpsInv, TypeOK, RtcTypeOK
  <2>5. ASSUME NEW j \in 1 .. Len(stamped)
        PROVE  stamped[j] \in [pulse: 0 .. MaxPulses, count: Nat]
    <3> DEFINE Stamp == [pulse: 0 .. MaxPulses, count: Nat]
    <3>1. stamped \in Seq(Stamp)
      BY <2>1
    <3> HIDE DEF Stamp
    <3>2. stamped[j] \in Stamp
      BY <3>1
    <3>3. QED
      BY <3>2 DEF Stamp
  <2>6. QED
    BY <2>2, <2>3, <2>4, <2>5
<1>3. CASE RtcNext /\ UNCHANGED pps
  <2>1. /\ (at'[Pps] = "idle") = (at[Pps] = "idle")
        /\ begun'[Pps] = begun[Pps]
        /\ count <= count'
    BY <1>2, <1>3, RtcKeepsHandler
  <2>2. Done' = Done
    BY <1>3, <2>1 DEF Done, pps
  <2>3. StampedBefore'
    <3>1. count' \in Nat /\ stamped' = stamped
      BY <1>2, <1>3 DEF RtcTypeOK, pps
    <3>2. QED
      BY <1>0, <2>1, <2>2, <3>1 DEF PpsInv, StampedBefore
  <2>4. TypeOK' /\ Handling' /\ Unstamped' /\ OneStampPerPulse' /\ LatestStamps'
    BY <1>2, <1>3, <2>1, <2>2
       DEF PpsInv, TypeOK, Handling, Unstamped, OneStampPerPulse, LatestStamps, pps
  <2>5. QED
    BY <1>1, <2>3, <2>4 DEF PpsInv
<1>4. CASE MovePin
  <2>1. Done' = Done
    BY <1>4 DEF MovePin, rtcVars, Done
  <2>2. QED
    <3>1. TypeOK'
      BY <1>2, <1>4, GnssPpsAssumption DEF PpsInv, MovePin, rtcVars, TypeOK
    <3>2. Unstamped'
      BY <1>0, <1>4 DEF PpsInv, MovePin, rtcVars, Unstamped, TypeOK
    <3>3. Handling' /\ StampedBefore' /\ OneStampPerPulse' /\ LatestStamps'
      BY <1>4, <2>1
         DEF PpsInv, MovePin, rtcVars, Handling, StampedBefore, OneStampPerPulse,
             LatestStamps
    <3>4. QED
      BY <1>1, <3>1, <3>2, <3>3 DEF PpsInv
<1>5. CASE Gnss_Pps_Init
  <2>1. Done' = Done
    BY <1>5 DEF Gnss_Pps_Init, rtcVars, Done
  <2>2. QED
    BY <1>1, <1>2, <1>5, <2>1
       DEF PpsInv, Gnss_Pps_Init, rtcVars, TypeOK, Handling, Unstamped,
           StampedBefore, OneStampPerPulse, LatestStamps
<1>6. CASE pps_handler_Request
  <2> DEFINE new == [pulse |-> pulse, count |-> 0]
  <2>1. stamped' = Append(stamped, new) /\ Len(stamped') = Len(stamped) + 1
    BY <1>6 DEF pps_handler_Request, PpsInv, TypeOK
  <2>2. /\ at[Pps] = "idle" /\ at'[Pps] # "idle" /\ edge = "RISING" /\ pin
        /\ begun'[Pps] = count /\ count' = count
        /\ UNCHANGED <<isEnabled, pin, polarity, edge, head, times, pulse>>
    BY <1>2, <1>6
       DEF pps_handler_Request, Interrupt, ByCapture_Request, Goto, RtcTypeOK,
           PpsInv, OneStampPerPulse
  <2>3. /\ \A j \in 1 .. Len(stamped) : stamped'[j] = stamped[j]
        /\ stamped'[Len(stamped')] = new
    BY <2>1 DEF PpsInv, TypeOK
  <2>4. Done' = Done /\ Done = Len(stamped)
    BY <2>1, <2>2 DEF Done, PpsInv, TypeOK
  <2>5. TypeOK'
    BY <1>2, <2>1, <2>2 DEF PpsInv, TypeOK
  <2>6. Handling' /\ Unstamped' /\ OneStampPerPulse'
    <3>1. Handling' /\ (edge' = "RISING") = polarity'
      BY <1>0, <2>1, <2>2 DEF PpsInv, Handling, OneStampPerPulse
    <3>2. \A j \in 1 .. Len(stamped) : stamped[j].pulse < pulse
      BY <2>2 DEF PpsInv, Unstamped
    <3>3. Unstamped'
      BY <1>0, <2>1, <2>2, <2>3, <3>2 DEF Unstamped
    <3>4. \A j, l \in 1 .. Len(stamped') :
            j < l => stamped'[j].pulse < stamped'[l].pulse
      <4>1. SUFFICES ASSUME NEW j \in 1 .. Len(stamped'), NEW l \in 1 .. Len(stamped'),
                            j < l
                     PROVE  stamped'[j].pulse < stamped'[l].pulse
        OBVIOUS
      <4>2. j \in 1 .. Len(stamped) /\ stamped'[j] = stamped[j]
        BY <1>0, <2>1, <2>3, <4>1
      <4>3. CASE l = Len(stamped')
        BY <2>3, <3>2, <4>2, <4>3
      <4>4. CASE l \in 1 .. Len(stamped)
        BY <2>3, <4>1, <4>2, <4>4 DEF PpsInv, OneStampPerPulse
      <4>5. QED
        BY <1>0, <2>1, <4>3, <4>4
    <3>5. QED
      BY <3>1, <3>3, <3>4 DEF OneStampPerPulse
  <2>7. StampedBefore'
    BY <2>2, <2>3, <2>4 DEF PpsInv, StampedBefore
  <2>8. LatestStamps'
    <3>1. head' = Done' % NumTimes
      BY <2>2, <2>4 DEF PpsInv, LatestStamps
    <3>2. ASSUME NEW j \in 1 .. Done'
          PROVE  /\ j > Done' - NumTimes =>
                      times'[(j - 1) % NumTimes] = ThroughInt(stamped'[j].count)
                 /\ j > 1 => stamped'[j - 1].count <= stamped'[j].count
      <4>1. stamped'[j] = stamped[j] /\ (j > 1 => stamped'[j - 1] = stamped[j - 1])
        <5>1. j \in 1 .. Len(stamped) /\ (j > 1 => j - 1 \in 1 .. Len(stamped))
          BY <1>0, <2>4
        <5>2. QED
          BY <2>3, <5>1
      <4>2. QED
        BY <2>2, <2>4, <4>1 DEF PpsInv, LatestStamps
    <3>3. QED
      BY <3>1, <3>2 DEF LatestStamps
  <2>9. QED
    BY <1>1, <2>5, <2>6, <2>7, <2>8 DEF PpsInv
<1>7. CASE pps_handler_Store
  <2>1. /\ at[Pps] = "read" /\ at'[Pps] = "idle"
        /\ head' = NextHead
        /\ times' = [times EXCEPT ![head] = ThroughInt(val[Pps])]
        /\ edge' = "FALLING" /\ polarity' = ~polarity
        /\ stamped' = [stamped EXCEPT ![Len(stamped)].count = val[Pps]]
        /\ UNCHANGED <<count, isEnabled, pin, pulse>>
    BY <1>2, <1>7 DEF pps_handler_Store, Stored, Goto, RtcTypeOK
  <2>2. /\ edge = "RISING" /\ polarity /\ Len(stamped) > 0
        /\ begun[Pps] <= val[Pps] /\ val[Pps] <= count /\ val[Pps] \in Nat
        /\ Len(stamped) \in Nat /\ Done = Len(stamped) - 1
    BY <1>2, <2>1
       DEF PpsInv, Handling, OneStampPerPulse, RtcInv, RtcTypeOK, ReadsAnInstant,
           TypeOK, Done
  <2>3. /\ Len(stamped') = Len(stamped)
        /\ \A j \in 1 .. Len(stamped) : stamped'[j].pulse = stamped[j].pulse
        /\ \A j \in 1 .. Done : stamped'[j] = stamped[j]
        /\ stamped'[Len(stamped)].count = val[Pps]
        /\ stamped' \in Seq([pulse: 0 .. MaxPulses, count: Nat])
    <3> DEFINE last == [stamped[Len(stamped)] EXCEPT !.count = val[Pps]]
    <3>1. /\ last \in [pulse: 0 .. MaxPulses, count: Nat]
          /\ last.pulse = stamped[Len(stamped)].pulse /\ last.count = val[Pps]
      <4>1. stamped[Len(stamped)] \in [pulse: 0 .. MaxPulses, count: Nat]
        BY <1>0, <2>2
      <4>2. QED
        BY <2>2, <4>1
    <3>2. stamped' = [stamped EXCEPT ![Len(stamped)] = last]
      BY <2>1
    <3>3. stamped \in Seq([pulse: 0 .. MaxPulses, count: Nat])
      BY DEF PpsInv, TypeOK
    <3> HIDE DEF last
    <3>4. QED
      BY <2>2, <3>1, <3>2, <3>3
  <2>4. Done' = Len(stamped) /\ Done' = Done + 1 /\ Done \in Nat
    BY <2>1, <2>2, <2>3 DEF Done
  <2>5. head = Done % NumTimes /\ NumTimes \in Nat \ {0}
    BY GnssPpsAssumption DEF PpsInv, LatestStamps
  <2>6. head' = Done' % NumTimes
    BY <2>1, <2>4, <2>5, NextRemainder DEF NextHead
  <2>7. TypeOK'
    <3>1. head' \in 0 .. NumTimes - 1
      BY <2>4, <2>5, <2>6
    <3>2. times' \in [0 .. NumTimes - 1 -> 0 .. WideMod - 1]
      BY <2>1, <2>2, WrappedInt DEF PpsInv, TypeOK
    <3>3. QED
      BY <1>2, <2>1, <2>3, <3>1, <3>2 DEF PpsInv, TypeOK
  <2>8. Handling' /\ Unstamped' /\ OneStampPerPulse'
    <3>1. Handling'
      BY <2>1 DEF Handling
    <3>2. \A j \in 1 .. Len(stamped') : stamped'[j].pulse <= pulse'
      BY <2>1, <2>3 DEF PpsInv, Unstamped
    <3>3. Unstamped'
      BY <2>1, <3>2 DEF Unstamped
    <3>4. (edge' = "RISING") = polarity'
      BY <2>1, <2>2
    <3>5. \A j, l \in 1 .. Len(stamped') :
            j < l => stamped'[j].pulse < stamped'[l].pulse
      BY <2>3 DEF PpsInv, OneStampPerPulse
    <3>6. QED
      BY <3>1, <3>3, <3>4, <3>5 DEF OneStampPerPulse
  <2>9. StampedBefore'
    <3>1. SUFFICES ASSUME NEW j \in 1 .. Done' PROVE stamped'[j].count <= count
      BY <2>1 DEF StampedBefore
    <3>2. CASE j = Done'
      BY <2>2, <2>3, <2>4, <3>2
    <3>3. CASE j \in 1 .. Done
      BY <2>3, <3>3 DEF PpsInv, StampedBefore
    <3>4. QED
      BY <2>4, <3>2, <3>3
  <2>10. LatestStamps'
    <3>1. ASSUME NEW j \in 1 .. Done', j > Done' - NumTimes
          PROVE  times'[(j - 1) % NumTimes] = ThroughInt(stamped'[j].count)
      <4>1. head \in DOMAIN times
        BY DEF PpsInv, TypeOK
      <4>2. CASE j = Done'
        BY <2>1, <2>3, <2>4, <2>5, <4>1, <4>2
      <4>3. CASE j <= Done
        <5>1. (j - 1) % NumTimes # head
          <6>1. j - 1 \in Nat /\ j - 1 < Done /\ Done < (j - 1) + NumTimes
            BY <2>4, <2>5, <3>1, <4>3
          <6>2. QED
            BY <2>4, <2>5, <6>1, SlotsApart
        <5>2. times[(j - 1) % NumTimes] = ThroughInt(stamped[j].count)
          BY <2>4, <2>5, <3>1, <4>3 DEF PpsInv, LatestStamps
        <5>3. times'[(j - 1) % NumTimes] = times[(j - 1) % NumTimes]
          BY <2>1, <5>1 DEF PpsInv, TypeOK
        <5>4. QED
          BY <2>3, <4>3, <5>2, <5>3
      <4>4. QED
        BY <2>4, <4>2, <4>3
    <3>2. ASSUME NEW j \in 1 .. Done', j > 1
          PROVE  stamped'[j - 1].count <= stamped'[j].count
      <4>1. CASE j = Done'
        <5>1. stamped[j - 1].count <= begun[Pps]
          BY <2>1, <2>4, <3>2, <4>1 DEF PpsInv, StampedBefore
        <5>2. j - 1 \in 1 .. Done
          BY <2>4, <3>2, <4>1
        <5>3. /\ stamped'[j - 1] = stamped[j - 1] /\ stamped'[j].count = val[Pps]
              /\ stamped[j - 1].count \in Nat
          BY <1>0, <2>3, <2>4, <4>1, <5>2
        <5>4. QED
          BY <1>0, <2>2, <5>1, <5>3
      <4>2. CASE j <= Done
        <5>1. j \in 1 .. Done /\ j - 1 \in 1 .. Done
          BY <2>4, <3>2, <4>2
        <5>2. QED
          BY <2>3, <3>2, <5>1 DEF PpsInv, LatestStamps
      <4>3. QED
        BY <2>4, <4>1, <4>2
    <3>3. QED
      BY <2>6, <3>1, <3>2 DEF LatestStamps
  <2>11. QED
    BY <1>1, <2>7, <2>8, <2>9, <2>10 DEF PpsInv
<1>8. CASE pps_handler_Falling
  <2>1. Done' = Done
    BY <1>8 DEF pps_handler_Falling, rtcVars, Done
  <2>2. ~polarity /\ ~pin /\ pin' = pin /\ at[Pps] = "idle"
    BY <1>8 DEF pps_handler_Falling, Interrupt, PpsInv, OneStampPerPulse, TypeOK
  <2>3. QED
    BY <1>1, <1>2, <1>8, <2>1, <2>2
       DEF PpsInv, pps_handler_Falling, rtcVars, TypeOK, Handling, Unstamped,
           StampedBefore, OneStampPerPulse, LatestStamps
<1>9. CASE UNCHANGED vars
  BY <1>1, <1>9
     DEF PpsInv, vars, pps, rtcVars, TypeOK, Handling, Unstamped, StampedBefore,
         OneStampPerPulse, LatestStamps, Done, RtcTypeOK, registers
<1>10. QED
  BY <1>3, <1>4, <1>5, <1>6, <1>7, <1>8, <1>9 DEF Next

LEMMA PpsInvInit == Init => PpsInv
<1> SUFFICES ASSUME Init PROVE PpsInv
  OBVIOUS
<1> USE CommonRtcAssumption, GnssPpsAssumption DEF Init, RtcInit
<1>1. count \in Nat /\ 0 \in 0 .. PreMod - 1 /\ 0 \in 0 .. NumTimes - 1 /\ 0 \in 0 .. WideMod - 1
  OBVIOUS
<1>2. RtcInv
  BY <1>1
     DEF RtcInv, RtcTypeOK, At, Caller, Places, HoldsLock, BegunBefore, HalfRead,
         HalvesAgree, ReadsAnInstant
<1>3. Len(stamped) = 0 /\ Done = 0
  BY DEF Done, Caller
<1>4. TypeOK
  <2>1. stamped \in Seq([pulse: 0 .. MaxPulses, count: Nat])
    OBVIOUS
  <2>2. times \in [0 .. NumTimes - 1 -> 0 .. WideMod - 1]
    BY <1>1
  <2>3. /\ isEnabled \in BOOLEAN /\ pin \in BOOLEAN /\ polarity \in BOOLEAN
        /\ edge \in {"RISING", "FALLING"}
    OBVIOUS
  <2>4. head \in 0 .. NumTimes - 1 /\ pulse \in 0 .. MaxPulses
    OBVIOUS
  <2>5. QED
    BY <1>2, <2>1, <2>2, <2>3, <2>4 DEF TypeOK, RtcInv
<1>5. 0 = 0 % NumTimes
  OBVIOUS
<1>6. Handling /\ Unstamped /\ StampedBefore /\ OneStampPerPulse /\ LatestStamps
  BY <1>3, <1>5
     DEF Handling, Unstamped, StampedBefore, OneStampPerPulse, LatestStamps, Caller
<1>7. QED
  BY <1>2, <1>4, <1>6 DEF PpsInv

LEMMA PpsInvariant == Spec => []PpsInv
  BY PpsInvInit, PpsInvStep, PTL DEF Spec

-----------------------------------------------------------------------------
(***************************************************************************)
(* Type correctness: head stays inside times, the lower half below its     *)
(* modulus, every stamp below that of a uint64_t.                          *)
(***************************************************************************)
THEOREM TypeCorrect == Spec => []TypeOK
<1>1. PpsInv => TypeOK
  BY DEF PpsInv
<1>2. QED
  BY <1>1, PpsInvariant, PTL

(***************************************************************************)
(* Whatever Common_Rtc_GetCount and its capturing twin return is the       *)
(* counter at one instant of the call (Common_Rtc.c:45-46, 69-74).         *)
(***************************************************************************)
THEOREM CountIsAnInstant == Spec => []ReadsAnInstant
<1>1. PpsInv => ReadsAnInstant
  BY DEF PpsInv, RtcInv
<1>2. QED
  BY <1>1, PpsInvariant, PTL

(***************************************************************************)
(* The handler never stamps a pulse twice, and its idea of the edge is the *)
(* polarity of the interrupt (Gnss_Pps.c:59, 66-67).                       *)
(***************************************************************************)
THEOREM PulsesStampedOnce == Spec => []OneStampPerPulse
<1>1. PpsInv => OneStampPerPulse
  BY DEF PpsInv
<1>2. QED
  BY <1>1, PpsInvariant, PTL

(***************************************************************************)
(* times is a ring of the latest stamps, whatever its length, and the      *)
(* stamps never go back before they are truncated (Gnss_Pps.c:60-63).      *)
(***************************************************************************)
THEOREM TimesHoldTheLatest == Spec => []LatestStamps
<1>1. PpsInv => LatestStamps
  BY DEF PpsInv
<1>2. QED
  BY <1>1, PpsInvariant, PTL
=============================================================================
