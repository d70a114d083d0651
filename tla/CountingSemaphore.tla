-------------------------- MODULE CountingSemaphore --------------------------
(***************************************************************************)
(* What LightweightSemaphore promises: permits are neither lost nor made   *)
(* up, those who wait have a claim on as many of them as they are, and a   *)
(* waiter gives up only while there are fewer permits than waiters.        *)
(***************************************************************************)
EXTENDS Integers, FiniteSets

CONSTANT Threads

VARIABLES
  permits, \* signalled and not yet granted
  waiting  \* threads that have joined the waiters

vars == <<permits, waiting>>

Unclaimed == permits - Cardinality(waiting)

Init == permits = 0 /\ waiting = {}

Signal ==
  /\ permits' \in Nat /\ permits' > permits
  /\ UNCHANGED waiting

\* A thread that does not wait takes permits that nobody waits for.
Take ==
  /\ permits' \in Nat
  /\ permits' < permits /\ permits' >= Cardinality(waiting)
  /\ UNCHANGED waiting

Join(t) ==
  /\ t \notin waiting /\ Unclaimed <= 0
  /\ waiting' = waiting \cup {t}
  /\ UNCHANGED permits

TakeWaiting(t) ==
  /\ t \in waiting /\ permits > 0
  /\ permits' = permits - 1
  /\ waiting' = waiting \ {t}

GiveUp(t) ==
  /\ t \in waiting /\ Unclaimed < 0
  /\ waiting' = waiting \ {t}
  /\ UNCHANGED permits

Next ==
  \/ Signal \/ Take
  \/ \E t \in Threads : Join(t) \/ TakeWaiting(t) \/ GiveUp(t)

Spec == Init /\ [][Next]_vars
=============================================================================
