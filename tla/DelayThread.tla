---------------------------- MODULE DelayThread ----------------------------
(***************************************************************************)
(* delay_thread: clients stamp actions with the time at which they are due *)
(* and queue them; one worker takes them, sleeps until each is due and     *)
(* runs it.  It leaves its loop when wait_dequeue_timed finds nothing for  *)
(* a second, and the destructor of the static instance stops it.           *)
(*                                                                         *)
(* Actions are <<submitter, n>>.  A task may itself submit, so the worker  *)
(* is a submitter too.  The BlockingConcurrentQueue is taken by what       *)
(* CountingSemaphore promises (one waiter: a wait fails only if there is   *)
(* no permit; a timeout of whole seconds is never refused) and is FIFO for *)
(* each submitter only.  Time is what is left until an event: Tick lets a  *)
(* unit of it pass for all.                                                *)
(***************************************************************************)
EXTENDS Integers, Sequences, FiniteSets

CONSTANTS
  Clients,
  Worker,     \* t, as a submitter
  MaxActions, \* bound on the actions of one submitter
  Delays,     \* what set_delay is called with
  Idle        \* the 1s of wait_dequeue_timed

ASSUME WorkerAssumption == Worker \notin Clients
ASSUME ClientsAssumption == IsFiniteSet(Clients)
ASSUME TimeAssumption == MaxActions \in Nat /\ Delays \subseteq Nat /\ Idle \in Nat \ {0}

Submitters == Clients \cup {Worker}
Actions == Submitters \X (1 .. MaxActions)

VARIABLES
  delayAmount, \* delay_amount: zero before set_delay, because the instance is static
  queue,       \* submitter -> numbers of its actions in q, oldest first
  permits,     \* permits of q
  remaining,   \* action -> time until it is due
  stamped,     \* submitter -> how many actions it has stamped
  stage,       \* submitter -> "idle", "enqueue" or "signal": the next step of submit_action
  worker,      \* next step of the worker
  action,      \* the action the worker has taken last
  idleFor,     \* how long the worker's present wait has lasted, at most Idle
  destructor,  \* "no", "joining" or "done"
  prompt,      \* history: actions signalled before the wait of the worker had lasted Idle
  midway,      \* history: the worker left while an action was queued and not signalled
  lowered,     \* history: actions stamped with less delay than their submitter's last
  lastDelay,   \* history: submitter -> the delay of its last action
  endedAfter   \* history: tasks that ended since the destructor set destroying

vars == <<delayAmount, queue, permits, remaining, stamped, stage, worker, action, idleFor,
          destructor, prompt, midway, lowered, lastDelay, endedAfter>>

clientVars == <<delayAmount, remaining, stamped, stage, prompt, lowered, lastDelay>>

WorkerPC == {"wait", "taken", "check", "sleep", "due", "run", "left"}

TypeOK ==
  /\ delayAmount \in Delays \cup {0} /\ permits \in Nat
  /\ queue \in [Submitters -> Seq(1 .. MaxActions)]
  /\ remaining \in [Actions -> Nat]
  /\ stamped \in [Submitters -> 0 .. MaxActions]
  /\ stage \in [Submitters -> {"idle", "enqueue", "signal"}]
  /\ \A c \in Submitters : stage[c] # "idle" => stamped[c] > 0
  /\ worker \in WorkerPC /\ action \in Submitters \X (0 .. MaxActions)
  /\ worker \notin {"wait", "left"} => action[2] > 0
  /\ idleFor \in 0 .. Idle
  /\ destructor \in {"no", "joining", "done"}
  /\ prompt \subseteq Actions /\ lowered \subseteq Actions
  /\ lastDelay \in [Submitters -> Delays \cup {0}]
  /\ midway \in BOOLEAN /\ endedAfter \in Nat

Init ==
  /\ delayAmount = 0 /\ permits = 0 /\ idleFor = 0 /\ endedAfter = 0
  /\ queue = [c \in Submitters |-> << >>]
  /\ remaining = [a \in Actions |-> 0]
  /\ stamped = [c \in Submitters |-> 0]
  /\ stage = [c \in Submitters |-> "idle"]
  /\ worker = "wait" /\ action = <<Worker, 0>>
  /\ destructor = "no"
  /\ prompt = {} /\ midway = FALSE /\ lowered = {} /\ lastDelay = [c \in Submitters |-> 0]

Destroying == destructor # "no"

-----------------------------------------------------------------------------
(* set_delay and delay_action.  A client does not call them while static   *)
(* objects are destroyed, a task that still runs then may.                 *)

MayCall(c) == IF c = Worker THEN worker = "run" ELSE ~Destroying

SetDelay(c, d) ==
  /\ MayCall(c) /\ stage[c] = "idle" /\ d # delayAmount
  /\ delayAmount' = d
  /\ UNCHANGED <<queue, permits, remaining, stamped, stage, worker, action, idleFor,
                 destructor, prompt, lowered, lastDelay, midway, endedAfter>>

\* The delayed_action with its time, now() + delay_amount.
Stamp(c) ==
  /\ MayCall(c) /\ stage[c] = "idle" /\ stamped[c] < MaxActions
  /\ stamped' = [stamped EXCEPT ![c] = @ + 1]
  /\ remaining' = [remaining EXCEPT ![<<c, stamped[c] + 1>>] = delayAmount]
  /\ lowered' = IF delayAmount < lastDelay[c] THEN lowered \cup {<<c, stamped[c] + 1>>}
                ELSE lowered
  /\ lastDelay' = [lastDelay EXCEPT ![c] = delayAmount]
  /\ stage' = [stage EXCEPT ![c] = "enqueue"]
  /\ UNCHANGED <<delayAmount, queue, permits, worker, action, idleFor, destructor, prompt,
                 midway, endedAfter>>

\* q.enqueue: the entry, then the permit.
Enqueue(c) ==
  /\ stage[c] = "enqueue"
  /\ queue' = [queue EXCEPT ![c] = Append(@, stamped[c])]
  /\ stage' = [stage EXCEPT ![c] = "signal"]
  /\ UNCHANGED <<delayAmount, permits, remaining, stamped, worker, action, idleFor,
                 destructor, prompt, lowered, lastDelay, midway, endedAfter>>

\* Mutant of TimeIsUp: the worker waits without a timeout.
NeverUp == FALSE
TimeIsUp == idleFor = Idle

Signal(c) ==
  /\ stage[c] = "signal"
  /\ permits' = permits + 1
  /\ prompt' = IF worker = "left" \/ (worker = "wait" /\ idleFor = Idle) THEN prompt
               ELSE prompt \cup {<<c, stamped[c]>>}
  /\ stage' = [stage EXCEPT ![c] = "idle"]
  /\ UNCHANGED <<delayAmount, queue, remaining, stamped, worker, action, idleFor,
                 destructor, lowered, lastDelay, midway, endedAfter>>

-----------------------------------------------------------------------------
(* The worker.                                                             *)

\* Mutant of Dequeued: the newest entry.
NewestDequeued(s) == [entry |-> s[Len(s)], rest |-> SubSeq(s, 1, Len(s) - 1)]
\* A dequeue gives the oldest entry of some submitter.
Dequeued(s) == [entry |-> Head(s), rest |-> Tail(s)]

Take(c) ==
  /\ worker = "wait" /\ permits > 0 /\ queue[c] # << >>
  /\ permits' = permits - 1
  /\ action' = <<c, Dequeued(queue[c]).entry>>
  /\ queue' = [queue EXCEPT ![c] = Dequeued(@).rest]
  /\ worker' = "taken"
  /\ UNCHANGED <<clientVars, idleFor, destructor, midway, endedAfter>>

\* Mutant of NothingThere: a late permit does not end a wait whose time is up.
DoNotLook == TRUE
\* A wait that times out has corrected the semaphore's count: no permit is left.
NothingThere == permits = 0

TimesOut ==
  /\ worker = "wait" /\ TimeIsUp /\ NothingThere
  /\ worker' = "left"
  /\ midway' = \E c \in Submitters : stage[c] = "signal"
  /\ UNCHANGED <<clientVars, queue, permits, action, idleFor, destructor, endedAfter>>

\* Mutant of Stop: destroying is never looked at.
NeverStop == FALSE
Stop == Destroying

WorkerGoes(from, to) ==
  /\ worker = from
  /\ worker' = to
  /\ UNCHANGED <<clientVars, queue, permits, action, idleFor, destructor, midway, endedAfter>>

CheckTaken == WorkerGoes("taken", IF Stop THEN "left" ELSE "check")

\* The condition of the inner loop, and in the loop destroying and the sleep of 1ms.
CheckDue == WorkerGoes("check", IF remaining[action] > 0 THEN "sleep" ELSE "due")

Sleep == WorkerGoes("sleep", IF Stop THEN "due" ELSE "check")

BeginTask == WorkerGoes("due", IF Stop THEN "left" ELSE "run")

\* The task returns, with its own calls of delay_action, and a new wait begins.
EndTask ==
  /\ worker = "run" /\ stage[Worker] = "idle"
  /\ worker' = "wait"
  /\ idleFor' = 0
  /\ endedAfter' = IF Destroying THEN endedAfter + 1 ELSE endedAfter
  /\ UNCHANGED <<clientVars, queue, permits, action, destructor, midway>>

WorkerStep ==
  \/ \E c \in Submitters : Take(c)
  \/ TimesOut \/ CheckTaken \/ CheckDue \/ Sleep \/ BeginTask \/ EndTask

-----------------------------------------------------------------------------
(* ~delay_thread, and time.                                                *)

SetDestroying ==
  /\ ~Destroying /\ \A c \in Clients : stage[c] = "idle"
  /\ destructor' = "joining"
  /\ UNCHANGED <<clientVars, queue, permits, worker, action, idleFor, midway, endedAfter>>

Join ==
  /\ destructor = "joining" /\ worker = "left"
  /\ destructor' = "done"
  /\ UNCHANGED <<clientVars, queue, permits, worker, action, idleFor, midway, endedAfter>>

\* Mutant of Passed: a duration that runs below zero.
PassedOn(n) == n - 1
Passed(n) == IF n > 0 THEN n - 1 ELSE 0

Tick ==
  /\ remaining' = [a \in Actions |-> Passed(remaining[a])]
  /\ idleFor' = IF worker = "wait" /\ idleFor < Idle THEN idleFor + 1 ELSE idleFor
  /\ <<remaining, idleFor>>' # <<remaining, idleFor>>
  /\ UNCHANGED <<delayAmount, queue, permits, stamped, stage, worker, action, destructor,
                 prompt, lowered, lastDelay, midway, endedAfter>>

ClientStep(c) == Enqueue(c) \/ Signal(c)

Next ==
  \/ \E c \in Submitters : Stamp(c) \/ ClientStep(c) \/ \E d \in Delays : SetDelay(c, d)
  \/ WorkerStep
  \/ SetDestroying \/ Join \/ Tick

Spec == Init /\ [][Next]_vars

\* The worker and calls that have begun are scheduled, time passes.
FairSpec ==
  /\ Spec
  /\ \A c \in Submitters : WF_vars(ClientStep(c))
  /\ WF_vars(WorkerStep) /\ WF_vars(Join) /\ WF_vars(Tick)

-----------------------------------------------------------------------------
Queued == {a \in Actions : \E i \in 1 .. Len(queue[a[1]]) : queue[a[1]][i] = a[2]}

\* An action whose signal came before a wait of the worker had lasted a second is not left
\* behind by the worker, so what is stranded was submitted to a worker that had been idle.
\* The exception: an action that is queued and not signalled can be taken with another's
\* permit, and the other is stranded if the worker leaves before the signal comes.
PromptIsNotLost ==
  worker = "left" /\ ~Destroying /\ ~midway => prompt \cap Queued = {}

\* While the worker sleeps for an action, no other action of the same submitter is due in
\* the queue, unless the delay was lowered between the two.
HeldBackOnlyIfLowered ==
  \A a \in Queued :
    a[1] = action[1] /\ worker \in {"check", "sleep"} /\ remaining[a] < remaining[action] =>
      \E n \in action[2] + 1 .. a[2] : <<a[1], n>> \in lowered

\* Once the destructor has set destroying, the worker ends at most one task more: the one
\* it runs or is about to run.
AtMostOneAfterDestroy == endedAfter <= 1

\* A queued action is run in the end and the destructor returns in the end, but for a
\* worker that has left or is made to leave.
ActionsEnd ==
  /\ \A a \in Actions : a \in Queued ~> a \notin Queued \/ worker = "left"
  /\ Destroying ~> destructor = "done"
=============================================================================
