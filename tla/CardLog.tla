------------------------------- MODULE CardLog -------------------------------
(***************************************************************************)
(* What the writer of Logging/Logging_Writer.c promises of the card as a   *)
(* whole: read from the first file of the first directory to the last, it  *)
(* is one log of blocks, in the order in which they were handed over.  The *)
(* log only ever grows at its end, through any number of boots and power   *)
(* losses, and a block that was acknowledged is in it, whole.              *)
(*                                                                         *)
(* The first directory is the one of the least number, with one exception: *)
(* a number that was free but could not be read when a larger one was made *)
(* may be taken later, and is then read behind it.                         *)
(***************************************************************************)
EXTENDS Integers

CONSTANTS
  Block,     \* the numbers of the blocks
  Size       \* their sizes

VARIABLES
  log,     \* place on the card -> the record there
  safe,    \* the blocks that were acknowledged and synchronised
  passed   \* <<x, d>>: directory x was passed over when d was made

vars == <<log, safe, passed>>

\* A place is a directory, a file in it, and a position in the file.
Place == Nat \X Nat \X Nat

\* Directory d is read before directory e.
Precedes(over, d, e) ==
  \/ d < e /\ <<d, e>> \notin over
  \/ e < d /\ <<e, d>> \in over

\* The order in which the card is read.
Before(over, p, q) ==
  \/ Precedes(over, p[1], q[1])
  \/ p[1] = q[1] /\ p[2] < q[2]
  \/ p[1] = q[1] /\ p[2] = q[2] /\ p[3] < q[3]

Record == [block: Block, size: Size, whole: BOOLEAN]

\* The blocks stand in the order they were handed over, none of them twice.
Log(l, over) ==
  /\ \A p \in DOMAIN l : p \in Place /\ l[p] \in Record
  /\ \A p, q \in DOMAIN l : Before(over, p, q) => l[p].block < l[q].block

\* l continues k: what k has stays, and what is new comes behind it.
Continues(l, k, over) ==
  /\ \A p \in DOMAIN k : p \in DOMAIN l /\ l[p] = k[p]
  /\ \A p \in DOMAIN k, q \in DOMAIN l \ DOMAIN k : Before(over, p, q)

\* What is already there keeps its order: neither directory holds anything.
PassesOver(d, e) == \A p \in DOMAIN log : p[1] # d /\ p[1] # e

Init ==
  /\ log = [p \in {} |-> {}]
  /\ safe = {}
  /\ passed = {}

\* Records reach the card; a block is acknowledged when the card has it.
Next ==
  /\ passed \subseteq passed'
  /\ \A pr \in passed' \ passed : PassesOver(pr[1], pr[2])
  /\ Log(log', passed')
  /\ Continues(log', log, passed')
  /\ safe \subseteq safe'
  /\ \A b \in safe' \ safe : \E p \in DOMAIN log' : log'[p].block = b /\ log'[p].whole

Spec == Init /\ [][Next]_vars
=============================================================================
