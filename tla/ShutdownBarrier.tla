--------------------------- MODULE ShutdownBarrier ---------------------------
(***************************************************************************)
(* What PowerCtrl.c promises the tasks of the logger, without the mutex,   *)
(* the bitmap and the condition variables: members join while it is open;  *)
(* a shutdown asks every member to stop, then waits until the last one has *)
(* left; nobody joins once it has begun.                                   *)
(*                                                                         *)
(* The promise is void once a task has died owning the mutex (broken).     *)
(***************************************************************************)
CONSTANT Client

VARIABLES phase, members, asked, broken
vars == <<phase, members, asked, broken>>

Phase == {"open", "asking", "waiting", "closed"}

Init ==
  /\ phase = "open"
  /\ members = {}
  /\ asked = {}
  /\ broken = FALSE

Join(t) ==
  /\ phase = "open"
  /\ t \notin members
  /\ members' = members \cup {t}
  /\ UNCHANGED <<phase, asked, broken>>

\* A member may leave before it is asked to.
Leave(t) ==
  /\ t \in members
  /\ members' = members \ {t}
  /\ UNCHANGED <<phase, asked, broken>>

Begin ==
  /\ phase = "open"
  /\ phase' = "asking"
  /\ UNCHANGED <<members, asked, broken>>

Ask(t) ==
  /\ phase = "asking"
  /\ t \in members \ asked
  /\ asked' = asked \cup {t}
  /\ UNCHANGED <<phase, members, broken>>

Wait ==
  /\ phase = "asking"
  /\ members \subseteq asked
  /\ phase' = "waiting"
  /\ UNCHANGED <<members, asked, broken>>

Complete ==
  /\ phase = "waiting"
  /\ members = {}
  /\ phase' = "closed"
  /\ UNCHANGED <<members, asked, broken>>

Break ==
  /\ broken' = TRUE
  /\ phase' \in Phase
  /\ members' \in SUBSET Client
  /\ asked' \in SUBSET Client

Next ==
  \/ \E t \in Client : Join(t) \/ Leave(t) \/ Ask(t)
  \/ Begin
  \/ Wait
  \/ Complete
  \/ Break

Spec == Init /\ [][Next]_vars
=============================================================================
