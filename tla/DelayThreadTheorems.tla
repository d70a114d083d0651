------------------------- MODULE DelayThreadTheorems -------------------------
(***************************************************************************)
(* Proofs about DelayThread for every number of clients and actions, and   *)
(* all delays.                                                             *)
(***************************************************************************)
EXTENDS DelayThread, FiniteSetTheorems, TLAPS

\* The numbers in a submitter's queue ascend, above the action of it that the worker has,
\* up to the last one that was stamped.
QueuesAscend ==
  \A c \in Submitters :
    /\ \A i \in 1 .. Len(queue[c]) :
         /\ queue[c][i] <= stamped[c]
         /\ stage[c] = "enqueue" => queue[c][i] < stamped[c]
         /\ c = action[1] => action[2] < queue[c][i]
         /\ \A j \in 1 .. i - 1 : queue[c][j] < queue[c][i]
    /\ c = action[1] =>
         /\ action[2] <= stamped[c]
         /\ stage[c] = "enqueue" => action[2] < stamped[c]

\* Between two actions of a submitter the delay was lowered.
LoweredBetween(c, m, n) == \E k \in m + 1 .. n : <<c, k>> \in lowered

\* Actions of a submitter are due in the order of their stamps until the delay is lowered.
DueInOrder ==
  \A c \in Submitters, n \in 1 .. MaxActions :
    n <= stamped[c] =>
      \A m \in 1 .. n : LoweredBetween(c, m, n) \/ remaining[<<c, m>>] <= remaining[<<c, n>>]

\* The last action of a submitter is due within its delay.
DueWithinDelay ==
  \A c \in Submitters :
    stamped[c] > 0 => remaining[<<c, stamped[c]>>] <= lastDelay[c]

\* No task begins once destroying is set.
LastTask == endedAfter = 0 \/ (endedAfter = 1 /\ Destroying /\ worker # "run")

\* Submitters that have queued an action and not signalled it.
Signalling == {c \in Submitters : stage[c] = "signal"}

\* Every queued action has its permit or its submitter is about to give it.
PermitsCounted == permits + Cardinality(Signalling) = Cardinality(Queued)

\* An action is prompt only after its signal.
PromptSignalled ==
  \A a \in prompt :
    /\ a[2] <= stamped[a[1]]
    /\ stage[a[1]] # "idle" => a[2] < stamped[a[1]]

\* The inductive invariant.
IInv ==
  /\ TypeOK
  /\ QueuesAscend /\ DueInOrder /\ DueWithinDelay
  /\ LastTask
  /\ PermitsCounted /\ PromptSignalled /\ PromptIsNotLost

\* The instance as constructed satisfies the invariant.
LEMMA InitIInv == Init => IInv
PROOF
  <1> SUFFICES ASSUME Init PROVE IInv OBVIOUS
  <1> USE TimeAssumption, WorkerAssumption DEF Init
  <1>1. TypeOK
    <2>1. << >> \in Seq(1 .. MaxActions) OBVIOUS
    <2>2. queue \in [Submitters -> Seq(1 .. MaxActions)] BY <2>1
    <2>3. action \in Submitters \X (0 .. MaxActions) BY DEF Submitters
    <2>4. /\ remaining \in [Actions -> Nat]
          /\ stamped \in [Submitters -> 0 .. MaxActions]
          /\ stage \in [Submitters -> {"idle", "enqueue", "signal"}]
          /\ \A c \in Submitters : stage[c] = "idle"
          /\ lastDelay \in [Submitters -> Delays \cup {0}]
      OBVIOUS
    <2>5. idleFor \in 0 .. Idle OBVIOUS
    <2> QED BY <2>2, <2>3, <2>4, <2>5 DEF TypeOK, WorkerPC
  <1>2. QueuesAscend BY DEF QueuesAscend
  <1>3. DueInOrder BY DEF DueInOrder
  <1>4. DueWithinDelay BY DEF DueWithinDelay
  <1>5. LastTask BY DEF LastTask
  <1>6. PermitsCounted
    <2>1. Signalling = {} BY DEF Signalling
    <2>2. Queued = {} BY DEF Queued, Actions
    <2> QED BY <2>1, <2>2, FS_EmptySet DEF PermitsCounted
  <1>7. PromptSignalled /\ PromptIsNotLost BY DEF PromptSignalled, PromptIsNotLost
  <1> QED BY <1>1, <1>2, <1>3, <1>4, <1>5, <1>6, <1>7 DEF IInv

\* A submitter inside submit_action has an action.
LEMMA Submitting ==
  ASSUME TypeOK, NEW c \in Submitters, stage[c] # "idle"
  PROVE  stamped[c] \in 1 .. MaxActions /\ <<c, stamped[c]>> \in Actions
PROOF
  <1>1. stamped[c] \in 0 .. MaxActions /\ stamped[c] > 0 BY DEF TypeOK
  <1>2. stamped[c] \in 1 .. MaxActions BY <1>1, TimeAssumption
  <1> QED BY <1>2 DEF Actions

\* The types of what belongs to one submitter.
LEMMA Numbers ==
  ASSUME TypeOK, NEW c \in Submitters
  PROVE  /\ stamped[c] \in 0 .. MaxActions /\ lastDelay[c] \in Nat
         /\ Len(queue[c]) \in Nat
         /\ \A i \in 1 .. Len(queue[c]) : queue[c][i] \in 1 .. MaxActions
         /\ \A n \in 1 .. MaxActions : remaining[<<c, n>>] \in Nat
PROOF
  <1>1. stamped[c] \in 0 .. MaxActions BY DEF TypeOK
  <1>2. lastDelay[c] \in Nat
    <2>1. lastDelay[c] \in Delays \cup {0} BY DEF TypeOK
    <2>2. \A d \in Delays : d \in Nat BY TimeAssumption
    <2>3. CASE lastDelay[c] \in Delays BY <2>2, <2>3
    <2>4. CASE lastDelay[c] = 0 BY <2>4
    <2> QED BY <2>1, <2>3, <2>4
  <1>3. Len(queue[c]) \in Nat /\ \A i \in 1 .. Len(queue[c]) : queue[c][i] \in 1 .. MaxActions
    <2>1. queue[c] \in Seq(1 .. MaxActions) BY DEF TypeOK
    <2>2. ASSUME NEW S, NEW s \in Seq(S)
          PROVE  Len(s) \in Nat /\ \A i \in 1 .. Len(s) : s[i] \in S
      OBVIOUS
    <2> QED BY <2>1, <2>2
  <1>4. \A n \in 1 .. MaxActions : remaining[<<c, n>>] \in Nat BY DEF TypeOK, Actions
  <1> QED BY <1>1, <1>2, <1>3, <1>4

\* Every step keeps the types.
LEMMA TypeStep == TypeOK /\ [Next]_vars => TypeOK'
PROOF
  <1> SUFFICES ASSUME TypeOK, [Next]_vars PROVE TypeOK' OBVIOUS
  <1> USE TimeAssumption DEF TypeOK, WorkerPC, Actions, clientVars
  <1>1. ASSUME NEW c \in Submitters, NEW d \in Delays, SetDelay(c, d) PROVE TypeOK'
    BY <1>1 DEF SetDelay
  <1>2. ASSUME NEW c \in Submitters, Stamp(c) PROVE TypeOK'
    <2>1. stamped[c] + 1 \in 1 .. MaxActions /\ delayAmount \in Nat BY <1>2 DEF Stamp
    <2>2. <<c, stamped[c] + 1>> \in Actions BY <2>1
    <2>3. remaining' \in [Actions -> Nat] BY <1>2, <2>1, <2>2 DEF Stamp
    <2>4. lowered' \subseteq Actions BY <1>2, <2>2 DEF Stamp
    <2>5. /\ stamped' \in [Submitters -> 0 .. MaxActions]
          /\ stage' \in [Submitters -> {"idle", "enqueue", "signal"}]
          /\ \A b \in Submitters : stage'[b] # "idle" => stamped'[b] > 0
      BY <1>2, <2>1 DEF Stamp
    <2>6. lastDelay' \in [Submitters -> Delays \cup {0}] BY <1>2 DEF Stamp
    <2> QED BY <1>2, <2>3, <2>4, <2>5, <2>6 DEF Stamp
  <1>3. ASSUME NEW c \in Submitters, Enqueue(c) PROVE TypeOK'
    <2>1. stamped[c] \in 1 .. MaxActions BY <1>3, Submitting DEF Enqueue
    <2>2. queue' \in [Submitters -> Seq(1 .. MaxActions)] BY <1>3, <2>1 DEF Enqueue
    <2>3. /\ stage' \in [Submitters -> {"idle", "enqueue", "signal"}]
          /\ \A b \in Submitters : stage'[b] # "idle" => stamped'[b] > 0
      BY <1>3, <2>1 DEF Enqueue
    <2> QED BY <1>3, <2>2, <2>3 DEF Enqueue
  <1>4. ASSUME NEW c \in Submitters, Signal(c) PROVE TypeOK'
    <2>1. stamped[c] \in 1 .. MaxActions BY <1>4, Submitting DEF Signal
    <2>2. <<c, stamped[c]>> \in Actions BY <2>1
    <2>3. prompt' \subseteq Actions BY <1>4, <2>2 DEF Signal
    <2>4. /\ stage' \in [Submitters -> {"idle", "enqueue", "signal"}]
          /\ \A b \in Submitters : stage'[b] # "idle" => stamped'[b] > 0
      BY <1>4, <2>1 DEF Signal
    <2>5. permits' \in Nat BY <1>4 DEF Signal
    <2>6. UNCHANGED <<delayAmount, queue, remaining, stamped, worker, action, idleFor, destructor,
                      lowered, lastDelay, midway, endedAfter>>
      BY <1>4 DEF Signal
    <2> QED BY <2>3, <2>4, <2>5, <2>6
  <1>5. ASSUME NEW c \in Submitters, Take(c) PROVE TypeOK'
    <2>1. Head(queue[c]) \in 1 .. MaxActions /\ Tail(queue[c]) \in Seq(1 .. MaxActions)
      BY <1>5 DEF Take
    <2>2. action' \in Submitters \X (0 .. MaxActions) BY <1>5, <2>1 DEF Take, Dequeued
    <2>3. queue' \in [Submitters -> Seq(1 .. MaxActions)] BY <1>5, <2>1 DEF Take, Dequeued
    <2>4. permits' \in Nat /\ worker' = "taken" /\ action'[2] > 0 BY <1>5, <2>1 DEF Take, Dequeued
    <2> QED BY <1>5, <2>2, <2>3, <2>4 DEF Take
  <1>6. CASE TimesOut BY <1>6 DEF TimesOut
  <1>7. CASE CheckTaken \/ CheckDue \/ Sleep \/ BeginTask
    BY <1>7 DEF CheckTaken, CheckDue, Sleep, BeginTask, WorkerGoes
  <1>8. CASE EndTask
    <2>1. endedAfter' \in Nat /\ idleFor' \in 0 .. Idle /\ worker' = "wait" BY <1>8 DEF EndTask
    <2>2. UNCHANGED <<clientVars, queue, permits, action, destructor, midway>> BY <1>8 DEF EndTask
    <2> QED BY <2>1, <2>2
  <1>9. CASE SetDestroying \/ Join BY <1>9 DEF SetDestroying, Join
  <1>10. CASE Tick
    <2>1. remaining' \in [Actions -> Nat] BY <1>10 DEF Tick, Passed
    <2>2. idleFor' \in 0 .. Idle BY <1>10 DEF Tick
    <2> QED BY <1>10, <2>1, <2>2 DEF Tick
  <1>11. CASE UNCHANGED vars BY <1>11 DEF vars
  <1> QED BY <1>1, <1>2, <1>3, <1>4, <1>5, <1>6, <1>7, <1>8, <1>9, <1>10, <1>11
          DEF Next, ClientStep, WorkerStep

\* Queues stay in ascending order, above the action that the worker took last.
LEMMA QueueStep == IInv /\ [Next]_vars => QueuesAscend'
PROOF
  <1> SUFFICES ASSUME IInv, [Next]_vars PROVE QueuesAscend' OBVIOUS
  <1> USE TimeAssumption DEF IInv, QueuesAscend
  <1>0. ASSUME UNCHANGED <<queue, stamped, stage, action>> PROVE QueuesAscend'
    BY <1>0
  <1>1. ASSUME NEW c \in Submitters, Stamp(c) PROVE QueuesAscend'
    <2>1. /\ stamped'[c] = stamped[c] + 1 /\ UNCHANGED <<queue, action>>
          /\ \A b \in Submitters \ {c} : stamped'[b] = stamped[b] /\ stage'[b] = stage[b]
      BY <1>1 DEF Stamp, TypeOK
    <2>2. \A b \in Submitters :
            /\ stamped[b] \in Nat /\ stamped'[b] >= stamped[b]
            /\ stage'[b] = "enqueue" => stage[b] = "enqueue" \/ stamped'[b] > stamped[b]
            /\ \A i \in 1 .. Len(queue[b]) : queue[b][i] \in Nat
      BY <2>1, Numbers
    <2>3. action[2] \in Nat BY DEF TypeOK
    <2> SUFFICES ASSUME NEW b \in Submitters
                 PROVE  /\ \A i \in 1 .. Len(queue[b]) :
                             /\ queue[b][i] <= stamped'[b]
                             /\ stage'[b] = "enqueue" => queue[b][i] < stamped'[b]
                             /\ b = action[1] => action[2] < queue[b][i]
                             /\ \A j \in 1 .. i - 1 : queue[b][j] < queue[b][i]
                        /\ b = action[1] =>
                             /\ action[2] <= stamped'[b]
                             /\ stage'[b] = "enqueue" => action[2] < stamped'[b]
      BY <2>1
    <2>4. ASSUME NEW i \in 1 .. Len(queue[b])
          PROVE  /\ queue[b][i] <= stamped'[b]
                 /\ stage'[b] = "enqueue" => queue[b][i] < stamped'[b]
                 /\ b = action[1] => action[2] < queue[b][i]
                 /\ \A j \in 1 .. i - 1 : queue[b][j] < queue[b][i]
      <3>1. /\ queue[b][i] \in Nat /\ queue[b][i] <= stamped[b]
            /\ stage[b] = "enqueue" => queue[b][i] < stamped[b]
        BY <2>2
      <3>2. stamped[b] \in Nat /\ stamped'[b] \in Nat /\ stamped'[b] >= stamped[b]
        BY <2>1, <2>2
      <3>3. stage'[b] = "enqueue" => stage[b] = "enqueue" \/ stamped'[b] > stamped[b] BY <2>2
      <3> QED BY <3>1, <3>2, <3>3
    <2>5. ASSUME b = action[1]
          PROVE  /\ action[2] <= stamped'[b]
                 /\ stage'[b] = "enqueue" => action[2] < stamped'[b]
      <3>1. /\ action[2] <= stamped[b]
            /\ stage[b] = "enqueue" => action[2] < stamped[b]
        BY <2>5
      <3>2. stamped[b] \in Nat /\ stamped'[b] \in Nat /\ stamped'[b] >= stamped[b]
        BY <2>1, <2>2
      <3>3. stage'[b] = "enqueue" => stage[b] = "enqueue" \/ stamped'[b] > stamped[b] BY <2>2
      <3> QED BY <2>3, <3>1, <3>2, <3>3
    <2> QED BY <2>4, <2>5
  <1>2. ASSUME NEW c \in Submitters, Enqueue(c) PROVE QueuesAscend'
    <2> DEFINE q == queue[c]
    <2>1. stamped[c] \in 1 .. MaxActions BY <1>2, Submitting DEF Enqueue
    <2>2. q \in Seq(1 .. MaxActions) BY DEF TypeOK
    <2>3. /\ Len(queue'[c]) = Len(q) + 1 /\ queue'[c][Len(q) + 1] = stamped[c]
          /\ \A i \in 1 .. Len(q) : queue'[c][i] = q[i]
      BY <1>2, <2>1, <2>2 DEF Enqueue, TypeOK
    <2>4. /\ \A b \in Submitters \ {c} : queue'[b] = queue[b] /\ stage'[b] = stage[b]
          /\ stage'[c] = "signal" /\ UNCHANGED <<stamped, action>>
      BY <1>2 DEF Enqueue, TypeOK
    <2>5. stage[c] = "enqueue" BY <1>2 DEF Enqueue
    <2>6. \A i \in 1 .. Len(q) : q[i] < stamped[c] BY <2>5
    <2> HIDE DEF q
    <2>7. \A i \in 1 .. Len(q) + 1 :
            /\ queue'[c][i] <= stamped[c]
            /\ c = action[1] => action[2] < queue'[c][i]
            /\ \A j \in 1 .. i - 1 : queue'[c][j] < queue'[c][i]
      <3> SUFFICES ASSUME NEW i \in 1 .. Len(q) + 1
                   PROVE  /\ queue'[c][i] <= stamped[c]
                          /\ c = action[1] => action[2] < queue'[c][i]
                          /\ \A j \in 1 .. i - 1 : queue'[c][j] < queue'[c][i]
        OBVIOUS
      <3>1. Len(q) \in Nat /\ \A j \in 1 .. Len(q) : q[j] \in 1 .. MaxActions BY <2>2
      <3>2. CASE i = Len(q) + 1 BY <2>1, <2>3, <2>5, <2>6, <3>1, <3>2 DEF q
      <3>3. CASE i \in 1 .. Len(q)
        <4>1. queue'[c][i] = q[i] /\ \A j \in 1 .. i - 1 : queue'[c][j] = q[j]
          BY <2>3, <3>1, <3>3
        <4>2. c = action[1] => action[2] < q[i] BY <3>3 DEF q
        <4>3. \A j \in 1 .. i - 1 : q[j] < q[i] BY <3>3 DEF q
        <4> QED BY <2>1, <2>6, <3>1, <3>3, <4>1, <4>2, <4>3
      <3> QED BY <3>1, <3>2, <3>3
    <2> QED BY <2>3, <2>4, <2>5, <2>7
  <1>3. ASSUME NEW c \in Submitters, Take(c) PROVE QueuesAscend'
    <2> DEFINE q == queue[c]
    <2>1. q \in Seq(1 .. MaxActions) /\ q # << >> BY <1>3 DEF Take, TypeOK
    <2>2. /\ Len(queue'[c]) = Len(q) - 1
          /\ \A i \in 1 .. Len(q) - 1 : queue'[c][i] = q[i + 1]
      BY <1>3, <2>1 DEF Take, Dequeued, TypeOK
    <2>3. /\ \A b \in Submitters \ {c} : queue'[b] = queue[b]
          /\ UNCHANGED <<stamped, stage>> /\ action' = <<c, q[1]>>
      BY <1>3, <2>1 DEF Take, Dequeued, TypeOK, clientVars
    <2>4. \A i \in 2 .. Len(q) : q[1] < q[i]
      BY <2>1
    <2>5. Len(q) \in Nat /\ Len(q) > 0 /\ \A i \in 1 .. Len(q) : q[i] \in 1 .. MaxActions
      BY <2>1
    <2>6. \A i \in 1 .. Len(q) :
            /\ q[i] <= stamped[c] /\ (stage[c] = "enqueue" => q[i] < stamped[c])
            /\ \A j \in 1 .. i - 1 : q[j] < q[i]
      OBVIOUS
    <2>7. ASSUME NEW b \in Submitters \ {c} PROVE c # b /\ action'[1] # b BY <2>3
    <2> HIDE DEF q
    <2>8. \A i \in 1 .. Len(q) - 1 :
            /\ i + 1 \in 2 .. Len(q) /\ queue'[c][i] = q[i + 1]
            /\ \A j \in 1 .. i - 1 : j + 1 \in 1 .. i /\ queue'[c][j] = q[j + 1]
      <3> SUFFICES ASSUME NEW i \in 1 .. Len(q) - 1
                   PROVE  /\ i + 1 \in 2 .. Len(q) /\ queue'[c][i] = q[i + 1]
                          /\ \A j \in 1 .. i - 1 :
                               j + 1 \in 1 .. i /\ queue'[c][j] = q[j + 1]
        OBVIOUS
      <3>1. i + 1 \in 2 .. Len(q) BY <2>5
      <3>2. \A j \in 1 .. i - 1 : j \in 1 .. Len(q) - 1 /\ j + 1 \in 1 .. i BY <2>5
      <3>3. queue'[c][i] = q[i + 1] BY <2>2
      <3> QED BY <2>2, <3>1, <3>2, <3>3
    <2>9. \A i \in 1 .. Len(q) - 1 :
            /\ queue'[c][i] <= stamped[c]
            /\ stage[c] = "enqueue" => queue'[c][i] < stamped[c]
            /\ q[1] < queue'[c][i]
            /\ \A j \in 1 .. i - 1 : queue'[c][j] < queue'[c][i]
      BY <2>4, <2>5, <2>6, <2>8
    <2>10. q[1] <= stamped[c] /\ (stage[c] = "enqueue" => q[1] < stamped[c]) BY <2>5, <2>6
    <2> QED BY <2>2, <2>3, <2>7, <2>9, <2>10
  <1>4. ASSUME NEW c \in Submitters, Signal(c) PROVE QueuesAscend' BY <1>4 DEF Signal, TypeOK
  <1>5. ASSUME NEW c \in Submitters, NEW d \in Delays, SetDelay(c, d) PROVE QueuesAscend'
    BY <1>5, <1>0 DEF SetDelay
  <1>6. CASE \/ TimesOut \/ CheckTaken \/ CheckDue \/ Sleep \/ BeginTask \/ EndTask
             \/ SetDestroying \/ Join \/ Tick \/ UNCHANGED vars
    BY <1>6, <1>0
    DEF TimesOut, CheckTaken, CheckDue, Sleep, BeginTask, WorkerGoes, EndTask, SetDestroying,
        Join, Tick, clientVars, vars
  <1> QED BY <1>1, <1>2, <1>3, <1>4, <1>5, <1>6 DEF Next, ClientStep, WorkerStep

\* Time passes for all actions alike, and a new action is due before an older one of its
\* submitter only if its delay is lower.
LEMMA DueStep == IInv /\ [Next]_vars => DueInOrder' /\ DueWithinDelay'
PROOF
  <1> SUFFICES ASSUME IInv, [Next]_vars PROVE DueInOrder' /\ DueWithinDelay' OBVIOUS
  <1> USE TimeAssumption DEF IInv, DueInOrder, DueWithinDelay, LoweredBetween
  <1>0. ASSUME UNCHANGED <<stamped, lowered, remaining, lastDelay>>
        PROVE  DueInOrder' /\ DueWithinDelay'
    BY <1>0
  <1>1. ASSUME NEW c \in Submitters, Stamp(c) PROVE DueInOrder' /\ DueWithinDelay'
    <2> DEFINE last == stamped[c]
               new  == stamped[c] + 1
    <2>1. /\ last \in 0 .. MaxActions /\ new \in 1 .. MaxActions /\ delayAmount \in Nat
          /\ lastDelay[c] \in Nat
      BY <1>1, Numbers DEF Stamp, TypeOK
    <2>2. /\ stamped'[c] = new /\ lastDelay'[c] = delayAmount
          /\ \A b \in Submitters \ {c} : stamped'[b] = stamped[b] /\ lastDelay'[b] = lastDelay[b]
      BY <1>1 DEF Stamp, TypeOK
    <2>3. \A b \in Submitters, n \in 1 .. MaxActions :
            remaining'[<<b, n>>] = IF <<b, n>> = <<c, new>> THEN delayAmount ELSE remaining[<<b, n>>]
      BY <1>1 DEF Stamp, TypeOK, Actions
    <2>4. lowered' = IF delayAmount < lastDelay[c] THEN lowered \cup {<<c, new>>} ELSE lowered
      BY <1>1 DEF Stamp
    <2>5. DueWithinDelay'
      <3>1. \A b \in Submitters : stamped[b] \in 0 .. MaxActions BY DEF TypeOK
      <3> QED BY <2>1, <2>2, <2>3, <3>1
    <2>6. ASSUME NEW b \in Submitters, NEW n \in 1 .. MaxActions, n <= stamped'[b],
                 NEW m \in 1 .. n
          PROVE  LoweredBetween(b, m, n)' \/ remaining'[<<b, m>>] <= remaining'[<<b, n>>]
      <3>1. CASE b # c \/ n # new
        <4>1. n <= stamped[b] BY <2>1, <2>2, <2>6, <3>1
        <4>2. LoweredBetween(b, m, n) \/ remaining[<<b, m>>] <= remaining[<<b, n>>] BY <4>1
        <4>3. <<b, n>> # <<c, new>> /\ <<b, m>> # <<c, new>> BY <2>1, <2>2, <2>6, <3>1, <4>1
        <4> QED BY <2>3, <2>4, <4>2, <4>3
      <3>2. CASE b = c /\ n = new
        <4>1. CASE m = new \/ delayAmount < lastDelay[c]
          <5>1. CASE m = new BY <2>1, <2>3, <3>2, <5>1
          <5>2. CASE m # new /\ delayAmount < lastDelay[c]
            <6>1. new \in m + 1 .. n BY <2>1, <3>2, <5>2
            <6> QED BY <2>4, <3>2, <5>2, <6>1
          <5> QED BY <4>1, <5>1, <5>2
        <4>2. CASE m # new /\ delayAmount >= lastDelay[c]
          <5>1. last \in 1 .. MaxActions /\ m \in 1 .. last BY <2>1, <3>2, <4>2
          <5>2. LoweredBetween(c, m, last) \/ remaining[<<c, m>>] <= remaining[<<c, last>>]
            BY <5>1
          <5>3. remaining[<<c, last>>] <= lastDelay[c] BY <5>1
          <5>4. \A k \in 1 .. MaxActions : remaining[<<c, k>>] \in Nat BY DEF TypeOK, Actions
          <5>5. CASE LoweredBetween(c, m, last)
            BY <2>1, <2>4, <3>2, <5>1, <5>5
          <5>6. CASE remaining[<<c, m>>] <= remaining[<<c, last>>]
            BY <2>1, <2>3, <3>2, <4>2, <5>1, <5>3, <5>4, <5>6
          <5> QED BY <5>2, <5>5, <5>6
        <4> QED BY <2>1, <4>1, <4>2
      <3> QED BY <3>1, <3>2
    <2> QED BY <2>5, <2>6
  <1>2. CASE Tick
    <2>1. /\ UNCHANGED <<stamped, lowered, lastDelay>>
          /\ \A c \in Submitters, n \in 1 .. MaxActions :
               remaining'[<<c, n>>] = Passed(remaining[<<c, n>>])
      BY <1>2 DEF Tick, Actions
    <2>2. \A c \in Submitters, n \in 1 .. MaxActions : remaining[<<c, n>>] \in Nat
      BY DEF TypeOK, Actions
    <2>3. \A c \in Submitters : stamped[c] \in 0 .. MaxActions /\ lastDelay[c] \in Nat
      BY Numbers
    <2>4. \A r, s \in Nat : (r <= s => Passed(r) <= Passed(s)) /\ Passed(r) <= r BY DEF Passed
    <2>5. DueInOrder'
      <3> SUFFICES ASSUME NEW c \in Submitters, NEW n \in 1 .. MaxActions, n <= stamped[c],
                          NEW m \in 1 .. n, ~LoweredBetween(c, m, n)
                   PROVE  remaining'[<<c, m>>] <= remaining'[<<c, n>>]
        BY <2>1
      <3>1. m \in 1 .. MaxActions OBVIOUS
      <3>2. remaining[<<c, m>>] <= remaining[<<c, n>>] OBVIOUS
      <3> QED BY <2>1, <2>2, <2>4, <3>1, <3>2
    <2>6. DueWithinDelay'
      <3> SUFFICES ASSUME NEW c \in Submitters, stamped[c] > 0
                   PROVE  remaining'[<<c, stamped[c]>>] <= lastDelay[c]
        BY <2>1
      <3>1. stamped[c] \in 1 .. MaxActions BY <2>3
      <3>2. remaining[<<c, stamped[c]>>] <= lastDelay[c] OBVIOUS
      <3>3. remaining[<<c, stamped[c]>>] \in Nat BY <2>2, <3>1
      <3>4. /\ remaining'[<<c, stamped[c]>>] <= remaining[<<c, stamped[c]>>]
            /\ remaining'[<<c, stamped[c]>>] \in Nat
        BY <2>1, <3>1, <3>3 DEF Passed
      <3> QED BY <2>3, <3>2, <3>3, <3>4
    <2> QED BY <2>5, <2>6
  <1>3. ASSUME NEW c \in Submitters, Enqueue(c) \/ Signal(c) \/ Take(c)
        PROVE  DueInOrder' /\ DueWithinDelay'
    BY <1>3, <1>0 DEF Enqueue, Signal, Take, clientVars
  <1>4. ASSUME NEW c \in Submitters, NEW d \in Delays, SetDelay(c, d)
        PROVE  DueInOrder' /\ DueWithinDelay'
    BY <1>4, <1>0 DEF SetDelay
  <1>5. CASE \/ TimesOut \/ CheckTaken \/ CheckDue \/ Sleep \/ BeginTask \/ EndTask
             \/ SetDestroying \/ Join \/ UNCHANGED vars
    BY <1>5, <1>0
    DEF TimesOut, CheckTaken, CheckDue, Sleep, BeginTask, WorkerGoes, EndTask, SetDestroying,
        Join, clientVars, vars
  <1> QED BY <1>1, <1>2, <1>3, <1>4, <1>5 DEF Next, ClientStep, WorkerStep

\* The worker looks at destroying before it begins a task.
LEMMA LastTaskStep == IInv /\ [Next]_vars => LastTask'
PROOF
  <1> SUFFICES ASSUME IInv, [Next]_vars PROVE LastTask' OBVIOUS
  <1> USE DEF IInv, LastTask, Destroying
  <1>1. ASSUME NEW c \in Submitters, NEW d \in Delays, SetDelay(c, d) PROVE LastTask'
    BY <1>1 DEF SetDelay
  <1>2. ASSUME NEW c \in Submitters, Stamp(c) \/ Enqueue(c) \/ Signal(c) PROVE LastTask'
    BY <1>2 DEF Stamp, Enqueue, Signal
  <1>3. ASSUME NEW c \in Submitters, Take(c) PROVE LastTask' BY <1>3 DEF Take
  <1>4. CASE TimesOut BY <1>4 DEF TimesOut
  <1>5. CASE CheckTaken \/ CheckDue \/ Sleep
    BY <1>5 DEF CheckTaken, CheckDue, Sleep, WorkerGoes
  <1>6. CASE BeginTask BY <1>6 DEF BeginTask, WorkerGoes, Stop
  <1>7. CASE EndTask BY <1>7 DEF EndTask, TypeOK
  <1>8. CASE SetDestroying \/ Join BY <1>8 DEF SetDestroying, Join
  <1>9. CASE Tick BY <1>9 DEF Tick
  <1>10. CASE UNCHANGED vars BY <1>10 DEF vars
  <1> QED BY <1>1, <1>2, <1>3, <1>4, <1>5, <1>6, <1>7, <1>8, <1>9, <1>10
          DEF Next, ClientStep, WorkerStep

\* There are finitely many submitters and actions, so what is counted is a number.
LEMMA Finite ==
  /\ IsFiniteSet(Signalling) /\ Cardinality(Signalling) \in Nat
  /\ IsFiniteSet(Queued) /\ Cardinality(Queued) \in Nat
PROOF
  <1>1. IsFiniteSet(Submitters) BY ClientsAssumption, FS_AddElement DEF Submitters
  <1>2. IsFiniteSet(1 .. MaxActions) BY TimeAssumption, FS_Interval
  <1>3. IsFiniteSet(Actions) BY <1>1, <1>2, FS_Product DEF Actions
  <1>4. IsFiniteSet(Signalling) BY <1>1, FS_Subset DEF Signalling
  <1>5. IsFiniteSet(Queued) BY <1>3, FS_Subset DEF Queued
  <1> QED BY <1>4, <1>5, FS_CardinalityType

\* Queued, action by action.
LEMMA QueuedActions ==
  ASSUME TypeOK, NEW c \in Submitters, NEW n \in 1 .. MaxActions
  PROVE  <<c, n>> \in Queued <=> \E i \in 1 .. Len(queue[c]) : queue[c][i] = n
BY DEF Queued, Actions

\* An enqueue adds one action to the queued ones.
LEMMA EnqueueAdds ==
  ASSUME IInv, NEW c \in Submitters, Enqueue(c)
  PROVE  Queued' = Queued \cup {<<c, stamped[c]>>} /\ <<c, stamped[c]>> \notin Queued
PROOF
  <1> USE DEF IInv
  <1>1. stamped[c] \in 1 .. MaxActions /\ <<c, stamped[c]>> \in Actions
    BY Submitting DEF Enqueue
  <1>2. queue[c] \in Seq(1 .. MaxActions) BY DEF TypeOK
  <1>3. /\ Len(queue'[c]) = Len(queue[c]) + 1 /\ queue'[c][Len(queue[c]) + 1] = stamped[c]
        /\ \A i \in 1 .. Len(queue[c]) : queue'[c][i] = queue[c][i]
        /\ Len(queue[c]) \in Nat
    BY <1>1, <1>2 DEF Enqueue, TypeOK
  <1>4. \A b \in Submitters \ {c} : queue'[b] = queue[b] BY DEF Enqueue, TypeOK
  <1>5. \A i \in 1 .. Len(queue[c]) : queue[c][i] # stamped[c]
    BY <1>1, Numbers DEF Enqueue, QueuesAscend
  <1>6. <<c, stamped[c]>> \notin Queued BY <1>1, <1>5, QueuedActions
  <1>7. ASSUME NEW a \in Actions
        PROVE  a \in Queued' <=> a \in Queued \cup {<<c, stamped[c]>>}
    <2>1. PICK b \in Submitters, n \in 1 .. MaxActions : a = <<b, n>> BY DEF Actions
    <2>2. a \in Queued' <=> \E i \in 1 .. Len(queue'[b]) : queue'[b][i] = n
      BY <2>1 DEF Queued
    <2>3. CASE b # c BY <1>4, <2>1, <2>2, <2>3, QueuedActions
    <2>4. CASE b = c
      <3>1. (\E i \in 1 .. Len(queue'[c]) : queue'[c][i] = n)
              <=> n = stamped[c] \/ \E i \in 1 .. Len(queue[c]) : queue[c][i] = n
        <4>1. /\ 1 .. Len(queue'[c]) = 1 .. Len(queue[c]) \cup {Len(queue[c]) + 1}
              /\ 1 .. Len(queue[c]) \subseteq 1 .. Len(queue'[c])
          BY <1>3
        <4> QED BY <1>3, <4>1
      <3> QED BY <2>1, <2>2, <2>4, <3>1, QueuedActions
    <2> QED BY <2>3, <2>4
  <1>8. Queued \subseteq Actions /\ Queued' \subseteq Actions BY DEF Queued
  <1> QED BY <1>1, <1>6, <1>7, <1>8

\* A dequeue removes one action from the queued ones.
LEMMA TakeRemoves ==
  ASSUME IInv, NEW c \in Submitters, Take(c)
  PROVE  \E a \in Queued : Queued' = Queued \ {a}
PROOF
  <1> USE DEF IInv
  <1> DEFINE q == queue[c]
             a == <<c, q[1]>>
  <1>1. q \in Seq(1 .. MaxActions) /\ q # << >> BY DEF Take, TypeOK
  <1>2. Len(q) \in Nat /\ Len(q) > 0 /\ \A i \in 1 .. Len(q) : q[i] \in 1 .. MaxActions
    BY <1>1, TimeAssumption
  <1>3. /\ Len(queue'[c]) = Len(q) - 1
        /\ \A i \in 1 .. Len(q) - 1 : queue'[c][i] = q[i + 1]
    BY <1>1 DEF Take, Dequeued, TypeOK
  <1>4. \A b \in Submitters \ {c} : queue'[b] = queue[b] BY DEF Take, TypeOK
  <1>5. \A i \in 2 .. Len(q) : q[1] < q[i] BY <1>1 DEF QueuesAscend
  <1>6. a \in Queued BY <1>2, QueuedActions
  <1>7. ASSUME NEW x \in Actions PROVE x \in Queued' <=> x \in Queued \ {a}
    <2>1. PICK b \in Submitters, n \in 1 .. MaxActions : x = <<b, n>> BY DEF Actions
    <2>2. x \in Queued' <=> \E i \in 1 .. Len(queue'[b]) : queue'[b][i] = n
      BY <2>1 DEF Queued
    <2>3. CASE b # c BY <1>4, <2>1, <2>2, <2>3, QueuedActions
    <2>4. CASE b = c
      <3> HIDE DEF q
      <3>1. ASSUME NEW i \in 1 .. Len(queue'[c]), queue'[c][i] = n
            PROVE  n # q[1] /\ \E j \in 1 .. Len(q) : q[j] = n
        <4>1. i + 1 \in 2 .. Len(q) /\ q[i + 1] = n BY <1>2, <1>3, <3>1
        <4> QED BY <1>2, <1>5, <4>1
      <3>2. ASSUME NEW j \in 1 .. Len(q), q[j] = n, n # q[1]
            PROVE  \E i \in 1 .. Len(queue'[c]) : queue'[c][i] = n
        <4>1. j - 1 \in 1 .. Len(q) - 1 /\ (j - 1) + 1 = j BY <1>2, <3>2
        <4> QED BY <1>3, <3>2, <4>1
      <3>3. x \in Queued <=> \E j \in 1 .. Len(q) : q[j] = n
        BY <2>1, <2>4, QueuedActions DEF q
      <3> QED BY <2>1, <2>2, <2>4, <3>1, <3>2, <3>3
    <2> QED BY <2>3, <2>4
  <1>8. Queued \subseteq Actions /\ Queued' \subseteq Actions BY DEF Queued
  <1> HIDE DEF a
  <1> QED BY <1>6, <1>7, <1>8

\* Every step keeps permits and queued actions in step.
LEMMA PermitsStep == IInv /\ [Next]_vars => PermitsCounted'
PROOF
  <1> SUFFICES ASSUME IInv, [Next]_vars PROVE PermitsCounted' OBVIOUS
  <1> USE Finite DEF IInv, PermitsCounted
  <1>0. ASSUME UNCHANGED permits, Signalling' = Signalling, Queued' = Queued
        PROVE  PermitsCounted'
    BY <1>0
  <1>1. permits \in Nat BY DEF TypeOK
  <1>2. ASSUME NEW c \in Submitters, Stamp(c) PROVE PermitsCounted'
    <2>1. Signalling' = Signalling BY <1>2 DEF Stamp, TypeOK, Signalling
    <2>2. Queued' = Queued BY <1>2 DEF Stamp, Queued
    <2> QED BY <1>0, <1>2, <2>1, <2>2 DEF Stamp
  <1>3. ASSUME NEW c \in Submitters, Enqueue(c) PROVE PermitsCounted'
    <2>1. Signalling' = Signalling \cup {c} /\ c \notin Signalling
      BY <1>3 DEF Enqueue, TypeOK, Signalling
    <2>2. Cardinality(Signalling') = Cardinality(Signalling) + 1 BY <2>1, FS_AddElement
    <2>3. Cardinality(Queued') = Cardinality(Queued) + 1 BY <1>3, EnqueueAdds, FS_AddElement
    <2>4. permits' = permits BY <1>3 DEF Enqueue
    <2> QED BY <1>1, <2>2, <2>3, <2>4
  <1>4. ASSUME NEW c \in Submitters, Signal(c) PROVE PermitsCounted'
    <2>1. Signalling' = Signalling \ {c} /\ c \in Signalling
      BY <1>4 DEF Signal, TypeOK, Signalling
    <2>2. Cardinality(Signalling') = Cardinality(Signalling) - 1 BY <2>1, FS_RemoveElement
    <2>3. Queued' = Queued BY <1>4 DEF Signal, Queued
    <2>4. permits' = permits + 1 BY <1>4 DEF Signal
    <2> QED BY <1>1, <2>2, <2>3, <2>4
  <1>5. ASSUME NEW c \in Submitters, Take(c) PROVE PermitsCounted'
    <2>1. Cardinality(Queued') = Cardinality(Queued) - 1
      BY <1>5, TakeRemoves, FS_RemoveElement
    <2>2. Signalling' = Signalling BY <1>5 DEF Take, clientVars, Signalling
    <2>3. permits' = permits - 1 BY <1>5 DEF Take
    <2> QED BY <1>1, <2>1, <2>2, <2>3
  <1>6. ASSUME UNCHANGED <<permits, stage, queue>> PROVE PermitsCounted'
    BY <1>0, <1>6 DEF Signalling, Queued
  <1>7. ASSUME NEW c \in Submitters, NEW d \in Delays, SetDelay(c, d) PROVE PermitsCounted'
    BY <1>6, <1>7 DEF SetDelay
  <1>8. CASE \/ TimesOut \/ CheckTaken \/ CheckDue \/ Sleep \/ BeginTask \/ EndTask
             \/ SetDestroying \/ Join \/ Tick \/ UNCHANGED vars
    BY <1>6, <1>8
    DEF TimesOut, CheckTaken, CheckDue, Sleep, BeginTask, WorkerGoes, EndTask, SetDestroying,
        Join, Tick, clientVars, vars
  <1> QED BY <1>2, <1>3, <1>4, <1>5, <1>7, <1>8 DEF Next, ClientStep, WorkerStep

\* Every step keeps prompt actions behind their signals.
LEMMA PromptStep == IInv /\ [Next]_vars => PromptSignalled'
PROOF
  <1> SUFFICES ASSUME IInv, [Next]_vars, NEW a \in prompt'
               PROVE  /\ a[2] <= stamped'[a[1]]
                      /\ stage'[a[1]] # "idle" => a[2] < stamped'[a[1]]
    BY DEF PromptSignalled
  <1> USE DEF IInv, PromptSignalled
  <1>0. ASSUME NEW x \in Actions
        PROVE  x[1] \in Submitters /\ x[2] \in Nat /\ stamped[x[1]] \in Nat
    BY Numbers DEF Actions
  <1>1. ASSUME UNCHANGED <<prompt, stamped, stage>>
        PROVE  /\ a[2] <= stamped'[a[1]]
               /\ stage'[a[1]] # "idle" => a[2] < stamped'[a[1]]
    BY <1>1
  <1>2. ASSUME NEW c \in Submitters, Stamp(c)
        PROVE  /\ a[2] <= stamped'[a[1]]
               /\ stage'[a[1]] # "idle" => a[2] < stamped'[a[1]]
    <2>1. a \in prompt /\ a \in Actions BY <1>2 DEF Stamp, TypeOK
    <2>2. /\ stamped'[c] = stamped[c] + 1
          /\ \A b \in Submitters \ {c} : stamped'[b] = stamped[b] /\ stage'[b] = stage[b]
      BY <1>2 DEF Stamp, TypeOK
    <2> QED BY <1>0, <2>1, <2>2
  <1>3. ASSUME NEW c \in Submitters, Enqueue(c)
        PROVE  /\ a[2] <= stamped'[a[1]]
               /\ stage'[a[1]] # "idle" => a[2] < stamped'[a[1]]
    BY <1>3 DEF Enqueue, TypeOK
  <1>4. ASSUME NEW c \in Submitters, Signal(c)
        PROVE  /\ a[2] <= stamped'[a[1]]
               /\ stage'[a[1]] # "idle" => a[2] < stamped'[a[1]]
    <2>1. stage'[c] = "idle" /\ \A b \in Submitters \ {c} : stage'[b] = stage[b]
      BY <1>4 DEF Signal, TypeOK
    <2>2. stamped' = stamped BY <1>4 DEF Signal
    <2>3. CASE a \in prompt BY <1>0, <2>1, <2>2, <2>3 DEF TypeOK
    <2>4. CASE a = <<c, stamped[c]>> BY <2>1, <2>2, <2>4, Numbers
    <2> QED BY <1>4, <2>3, <2>4 DEF Signal
  <1>5. ASSUME NEW c \in Submitters, Take(c)
        PROVE  /\ a[2] <= stamped'[a[1]]
               /\ stage'[a[1]] # "idle" => a[2] < stamped'[a[1]]
    BY <1>1, <1>5 DEF Take, clientVars
  <1>6. ASSUME NEW c \in Submitters, NEW d \in Delays, SetDelay(c, d)
        PROVE  /\ a[2] <= stamped'[a[1]]
               /\ stage'[a[1]] # "idle" => a[2] < stamped'[a[1]]
    BY <1>1, <1>6 DEF SetDelay
  <1>7. CASE \/ TimesOut \/ CheckTaken \/ CheckDue \/ Sleep \/ BeginTask \/ EndTask
             \/ SetDestroying \/ Join \/ Tick \/ UNCHANGED vars
    BY <1>1, <1>7
    DEF TimesOut, CheckTaken, CheckDue, Sleep, BeginTask, WorkerGoes, EndTask, SetDestroying,
        Join, Tick, clientVars, vars
  <1> QED BY <1>2, <1>3, <1>4, <1>5, <1>6, <1>7 DEF Next, ClientStep, WorkerStep

\* The worker leaves when no permit is left and nobody is about to give one, and then
\* nothing is queued; later a signal makes nothing prompt.
LEMMA LeaveStep == IInv /\ [Next]_vars => PromptIsNotLost'
PROOF
  <1> SUFFICES ASSUME IInv, [Next]_vars, worker' = "left", ~Destroying', ~midway'
               PROVE  prompt' \cap Queued' = {}
    BY DEF PromptIsNotLost
  <1> USE DEF IInv, PromptIsNotLost, Destroying
  <1>1. ASSUME worker = "left", ~Destroying, ~midway, UNCHANGED <<prompt, queue>>
        PROVE  prompt' \cap Queued' = {}
    BY <1>1 DEF Queued
  <1>2. ASSUME NEW c \in Submitters, Enqueue(c) PROVE prompt' \cap Queued' = {}
    <2>1. worker = "left" /\ ~Destroying /\ ~midway /\ prompt' = prompt BY <1>2 DEF Enqueue
    <2>2. Queued' = Queued \cup {<<c, stamped[c]>>} BY <1>2, EnqueueAdds
    <2>3. <<c, stamped[c]>> \notin prompt BY <1>2, Numbers DEF Enqueue, PromptSignalled
    <2> QED BY <2>1, <2>2, <2>3
  <1>3. ASSUME NEW c \in Submitters, Stamp(c) \/ Signal(c) PROVE prompt' \cap Queued' = {}
    BY <1>1, <1>3 DEF Stamp, Signal
  <1>4. ASSUME NEW c \in Submitters, NEW d \in Delays, SetDelay(c, d)
        PROVE  prompt' \cap Queued' = {}
    BY <1>1, <1>4 DEF SetDelay
  <1>5. CASE TimesOut
    <2>1. permits = 0 /\ \A c \in Submitters : stage[c] # "signal"
      BY <1>5 DEF TimesOut, NothingThere
    <2>2. Cardinality(Signalling) = 0 BY <2>1, FS_EmptySet DEF Signalling
    <2>3. Queued = {} BY <2>1, <2>2, Finite, FS_EmptySet DEF PermitsCounted
    <2>4. Queued' = Queued BY <1>5 DEF TimesOut, Queued
    <2> QED BY <2>3, <2>4
  <1>6. CASE (\E c \in Submitters : Take(c)) \/ CheckDue \/ Sleep \/ EndTask \/ SetDestroying
             \/ CheckTaken \/ BeginTask
    BY <1>6 DEF Take, CheckTaken, CheckDue, Sleep, BeginTask, WorkerGoes, EndTask, Stop,
                SetDestroying
  <1>7. CASE Join \/ Tick \/ UNCHANGED vars
    BY <1>1, <1>7 DEF Join, Tick, vars
  <1> QED BY <1>2, <1>3, <1>4, <1>5, <1>6, <1>7 DEF Next, ClientStep, WorkerStep

\* The invariant of the proofs holds in every state of the delay thread.
THEOREM Invariance == Spec => []IInv
PROOF
  <1>1. IInv /\ [Next]_vars => IInv'
    BY TypeStep, QueueStep, DueStep, LastTaskStep, PermitsStep, PromptStep, LeaveStep DEF IInv
  <1> QED BY InitIInv, <1>1, PTL DEF Spec

\* Type correctness.
THEOREM TypeCorrect == Spec => []TypeOK
PROOF
  <1>1. IInv => TypeOK BY DEF IInv
  <1> QED BY Invariance, <1>1, PTL

\* The worker holds nothing of a submitter back that is due, unless the submitter's delay
\* was lowered after the action the worker sleeps for.
THEOREM HeldBack == Spec => []HeldBackOnlyIfLowered
PROOF
  <1>1. IInv => HeldBackOnlyIfLowered
    <2> SUFFICES ASSUME IInv, NEW a \in Queued, a[1] = action[1],
                        remaining[a] < remaining[action], worker \in {"check", "sleep"}
                 PROVE  \E n \in action[2] + 1 .. a[2] : <<a[1], n>> \in lowered
      BY DEF HeldBackOnlyIfLowered
    <2> USE DEF IInv
    <2>1. PICK c \in Submitters, n \in 1 .. MaxActions : a = <<c, n>> BY DEF Queued, Actions
    <2>2. PICK i \in 1 .. Len(queue[c]) : queue[c][i] = n BY <2>1 DEF Queued
    <2>3. action[2] < n /\ n <= stamped[c] BY <2>1, <2>2 DEF QueuesAscend
    <2>4. action = <<c, action[2]>> /\ action[2] \in 0 .. MaxActions BY <2>1 DEF TypeOK
    <2>6. CASE action[2] # 0
      <3>1. action[2] \in 1 .. n BY <2>3, <2>4, <2>6
      <3>2. \/ LoweredBetween(c, action[2], n)
            \/ remaining[<<c, action[2]>>] <= remaining[<<c, n>>]
        BY <2>3, <3>1 DEF DueInOrder
      <3>3. remaining[<<c, action[2]>>] \in Nat /\ remaining[<<c, n>>] \in Nat
        BY <2>4, <2>6 DEF TypeOK, Actions
      <3>4. LoweredBetween(c, action[2], n) BY <2>1, <2>4, <3>2, <3>3
      <3> QED BY <2>1, <3>4 DEF LoweredBetween
    <2>7. action[2] # 0 BY <2>4 DEF TypeOK
    <2> QED BY <2>6, <2>7
  <1> QED BY Invariance, <1>1, PTL

\* A worker that leaves because it was idle leaves nothing behind that was signalled before
\* its last second was over, unless an action was queued and not signalled then.
THEOREM PromptRun == Spec => []PromptIsNotLost
PROOF
  <1>1. IInv => PromptIsNotLost BY DEF IInv
  <1> QED BY Invariance, <1>1, PTL

\* After the destructor has set destroying, one task at most ends.
THEOREM LastTaskOnly == Spec => []AtMostOneAfterDestroy
PROOF
  <1>1. IInv => AtMostOneAfterDestroy BY DEF IInv, LastTask, AtMostOneAfterDestroy
  <1> QED BY Invariance, <1>1, PTL
=============================================================================
