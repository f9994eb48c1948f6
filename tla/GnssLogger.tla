----------------------------- MODULE GnssLogger -----------------------------
(***************************************************************************)
(* The logger with the Gnss program started by hand (its line in init.rc   *)
(* is commented out): Gnss/Gnss_main.c on top of ImuLogger.  Gnss opens    *)
(* the queue with a share in the open count and registers a handler, but   *)
(* its loop polls nothing but the event (nfds is 1), so that it never      *)
(* takes a position, and every way out of it returns at once.              *)
(***************************************************************************)
EXTENDS ImuLogger

CONSTANT Gnss   \* the one task in Started

VARIABLES
  eventFd,    \* the eventfd: "absent" or "made"
  isPolling,  \* set-up is over
  counter     \* the eventfd's counter is not 0

gnss == <<eventFd, isPolling, counter>>
gnssVars == <<vars, gnss>>

GnssInit ==
  /\ Init
  /\ eventFd = "absent"
  /\ isPolling = FALSE
  /\ counter = FALSE

-----------------------------------------------------------------------------
Gnss_OpenQueue ==
  /\ LG!Open(Gnss)
  /\ UNCHANGED <<powerVars, imu, gnss>>

Gnss_Register ==
  /\ openerAt[Gnss] = "opened"
  /\ PC!SetShutdownCallback(Gnss)
  /\ UNCHANGED <<loggingVars, imu, gnss>>

\* Registration failed: return; the open count keeps its share.
Gnss_Refused ==
  /\ Refused(Gnss)
  /\ PC!Exit(Gnss)
  /\ LG!Abandon(Gnss)
  /\ UNCHANGED <<imu, gnss>>

\* eventfd, which comes after the handler that writes to it is known.
Gnss_MakeEvent ==
  /\ Registered(Gnss)
  /\ eventFd = "absent"
  /\ eventFd' = "made"
  /\ UNCHANGED <<vars, isPolling, counter>>

\* The device is opened, set up and started, and the PPS interrupt armed.
Gnss_Setup ==
  /\ Registered(Gnss)
  /\ eventFd = "made"
  /\ ~isPolling
  /\ isPolling' = TRUE
  /\ UNCHANGED <<vars, eventFd, counter>>

\* main returns after registering: neither END nor NotifyStop.
Return ==
  /\ Registered(Gnss)
  /\ PC!Abandon(Gnss)
  /\ LG!Abandon(Gnss)
  /\ UNCHANGED <<imu, gnss>>

\* The eventfd, the device or one of its settings fails.
Gnss_SetupFails ==
  /\ "device" \in Fault
  /\ ~isPolling
  /\ Return

(***************************************************************************)
(* poll fails, or the event is there.  fds[1].revents, which poll has not  *)
(* set, may first let it read the device; then the event is read, and the  *)
(* task returns without sending the block, whether it has begun one or     *)
(* not.                                                                    *)
(***************************************************************************)
Gnss_Poll ==
  /\ isPolling
  /\ counter \/ "poll" \in Fault
  /\ Return

(***************************************************************************)
(* ShutdownHandler, Gnss's: the PowerCtrl task looks the number up among   *)
(* its own descriptors.  Whether what it finds is Gnss's counter is left   *)
(* open; before eventfd has returned it cannot be.                         *)
(***************************************************************************)
Main_GnssHandler ==
  /\ Calling(Gnss)
  /\ counter' \in {counter, eventFd = "made"}
  /\ PC!Shutdown_Return
  /\ UNCHANGED <<loggingVars, imu, eventFd, isPolling>>

-----------------------------------------------------------------------------
GnssRun ==
  \/ Gnss_Register
  \/ Gnss_Refused
  \/ Gnss_MakeEvent
  \/ Gnss_Setup
  \/ Gnss_Poll

GnssNext ==
  \/ Next /\ UNCHANGED gnss
  \/ Gnss_OpenQueue
  \/ GnssRun
  \/ Gnss_SetupFails
  \/ Main_GnssHandler

GnssSpec ==
  /\ GnssInit /\ [][GnssNext]_gnssVars
  /\ Fairness
  /\ SF_gnssVars(GnssRun)
  /\ WF_gnssVars(Main_GnssHandler)

(***************************************************************************)
(* A shutdown waits for the registered tasks to stop (PowerCtrl.c:56), and *)
(* Gnss exits gracefully when it is told (Gnss_main.c:423): a shutdown     *)
(* that begins with Gnss in its loop completes.                            *)
(***************************************************************************)
GnssShutdownCompletes == Begun /\ Reachable /\ isPolling ~> at[Main] = "off"
=============================================================================
