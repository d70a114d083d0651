------------------------ MODULE AbortableLockTheorems ------------------------
(***************************************************************************)
(* Proofs about AbortableLock for every number of threads.                 *)
(***************************************************************************)
EXTENDS AbortableLock, TLAPS

\* What the steps after cv.wait rely on, because cv.m is held since the wait ended:
\* the reason for waking up is still there unless the abort_condition reverted.
ReasonKept ==
  \A t \in Threads :
    /\ pc[t] = "decide" => ~occupied \/ t \in aborts \/ t \in reverted
    /\ pc[t] = "recheck" => ~occupied \/ t \in reverted
    /\ pc[t] = "lock" => ~occupied
    /\ pc[t] = "woke_early" => t \in reverted

\* SleepersAreDue, extended to a thread that has read the flag and will fall asleep.
DozersAreDue ==
  \A t \in Threads : pc[t] \in {"read_abort", "wait", "asleep"} /\ t \notin missed =>
    /\ ~occupied => \E u \in Threads : pc[u] = "notify"
    /\ pc[t] # "read_abort" /\ t \in aborts => t \in unnotified

\* The inductive invariant.
IInv == TypeOK /\ OneHolder /\ ReasonKept /\ DozersAreDue

\* The guardian as constructed satisfies the invariant.
LEMMA InitIInv == Init => IInv
PROOF
  BY NoneAssumption
  DEF Init, IInv, TypeOK, OneHolder, ReasonKept, DozersAreDue, PC, InMonitor

\* Every step keeps the types and the ownership of cv.m.
LEMMA TypeStep == TypeOK /\ [Next]_vars => TypeOK'
PROOF
  <1> SUFFICES ASSUME TypeOK, [Next]_vars PROVE TypeOK' OBVIOUS
  <1> USE NoneAssumption DEF TypeOK, PC, InMonitor
  <1>1. ASSUME NEW t \in Threads, Call(t) PROVE TypeOK' BY <1>1 DEF Call, Goto
  <1>2. ASSUME NEW t \in Threads, RaiseAbort(t) PROVE TypeOK' BY <1>2 DEF RaiseAbort
  <1>3. ASSUME NEW t \in Threads, RevertAbort(t) PROVE TypeOK' BY <1>3 DEF RevertAbort
  <1>4. ASSUME NEW t \in Threads, NotifyAbort(t) PROVE TypeOK'
    BY <1>4
    DEF NotifyAbort, Awake, Missing
  <1>5. ASSUME NEW t \in Threads, Unlock(t) PROVE TypeOK' BY <1>5 DEF Unlock, UnlockNext, Goto
  <1>6. ASSUME NEW t \in Threads, LockCv(t) PROVE TypeOK' BY <1>6 DEF LockCv, Goto
  <1>7. ASSUME NEW t \in Threads, ReadFlag(t) PROVE TypeOK' BY <1>7 DEF ReadFlag, AfterWait, Goto
  <1>8. ASSUME NEW t \in Threads, ReadAbort(t) PROVE TypeOK' BY <1>8 DEF ReadAbort, AfterWait, Goto
  <1>9. ASSUME NEW t \in Threads, Wait(t) PROVE TypeOK' BY <1>9 DEF Wait, Goto
  <1>10. ASSUME NEW t \in Threads, Decide(t) PROVE TypeOK' BY <1>10 DEF Decide, Goto
  <1>11. ASSUME NEW t \in Threads, Recheck(t) PROVE TypeOK' BY <1>11 DEF Recheck, IsFree, Goto
  <1>12. ASSUME NEW t \in Threads, Lock(t) PROVE TypeOK' BY <1>12 DEF Lock, Goto
  <1>13. ASSUME NEW t \in Threads, WokeEarly(t) PROVE TypeOK' BY <1>13 DEF WokeEarly, Goto
  <1>14. ASSUME NEW t \in Threads, Release(t) PROVE TypeOK' BY <1>14 DEF Release, Goto
  <1>15. ASSUME NEW t \in Threads, Notify(t) PROVE TypeOK' BY <1>15 DEF Notify, Awake, Missing
  <1>16. ASSUME NEW t \in Threads, SpuriousWakeup(t) PROVE TypeOK' BY <1>16 DEF SpuriousWakeup, Goto
  <1>17. CASE UNCHANGED vars BY <1>17 DEF vars
  <1> QED BY <1>1, <1>2, <1>3, <1>4, <1>5, <1>6, <1>7, <1>8, <1>9, <1>10, <1>11, <1>12, <1>13,
             <1>14, <1>15, <1>16, <1>17
          DEF Next, Client, Step

\* Every step keeps the flag and the ownership of lock_ts in agreement.
LEMMA HolderStep == IInv /\ [Next]_vars => OneHolder'
PROOF
  <1> SUFFICES ASSUME IInv, [Next]_vars PROVE OneHolder' OBVIOUS
  <1> USE NoneAssumption DEF IInv, TypeOK, OneHolder, ReasonKept
  <1>1. ASSUME NEW t \in Threads, Call(t) PROVE OneHolder' BY <1>1 DEF Call
  <1>2. ASSUME NEW t \in Threads, RaiseAbort(t) PROVE OneHolder' BY <1>2 DEF RaiseAbort
  <1>3. ASSUME NEW t \in Threads, RevertAbort(t) PROVE OneHolder' BY <1>3 DEF RevertAbort
  <1>4. ASSUME NEW t \in Threads, NotifyAbort(t) PROVE OneHolder' BY <1>4 DEF NotifyAbort
  <1>5. ASSUME NEW t \in Threads, Unlock(t) PROVE OneHolder' BY <1>5 DEF Unlock
  <1>6. ASSUME NEW t \in Threads, LockCv(t) PROVE OneHolder' BY <1>6 DEF LockCv
  <1>7. ASSUME NEW t \in Threads, ReadFlag(t) PROVE OneHolder' BY <1>7 DEF ReadFlag
  <1>8. ASSUME NEW t \in Threads, ReadAbort(t) PROVE OneHolder' BY <1>8 DEF ReadAbort
  <1>9. ASSUME NEW t \in Threads, Wait(t) PROVE OneHolder' BY <1>9 DEF Wait
  <1>10. ASSUME NEW t \in Threads, Decide(t) PROVE OneHolder' BY <1>10 DEF Decide
  <1>11. ASSUME NEW t \in Threads, Recheck(t) PROVE OneHolder' BY <1>11 DEF Recheck
  <1>12. ASSUME NEW t \in Threads, Lock(t) PROVE OneHolder' BY <1>12 DEF Lock
  <1>13. ASSUME NEW t \in Threads, WokeEarly(t) PROVE OneHolder' BY <1>13 DEF WokeEarly
  <1>14. ASSUME NEW t \in Threads, Release(t) PROVE OneHolder' BY <1>14 DEF Release
  <1>15. ASSUME NEW t \in Threads, Notify(t) PROVE OneHolder' BY <1>15 DEF Notify
  <1>16. ASSUME NEW t \in Threads, SpuriousWakeup(t) PROVE OneHolder' BY <1>16 DEF SpuriousWakeup
  <1>17. CASE UNCHANGED vars BY <1>17 DEF vars
  <1> QED BY <1>1, <1>2, <1>3, <1>4, <1>5, <1>6, <1>7, <1>8, <1>9, <1>10, <1>11, <1>12, <1>13,
             <1>14, <1>15, <1>16, <1>17
          DEF Next, Client, Step

\* Every step keeps the reason for which a thread stopped waiting.
LEMMA ReasonStep == IInv /\ [Next]_vars => ReasonKept'
PROOF
  <1> SUFFICES ASSUME IInv, [Next]_vars PROVE ReasonKept' OBVIOUS
  <1> USE NoneAssumption DEF IInv, TypeOK, ReasonKept, InMonitor
  <1>1. ASSUME NEW t \in Threads, Call(t) PROVE ReasonKept' BY <1>1 DEF Call, Goto
  <1>2. ASSUME NEW t \in Threads, RaiseAbort(t) PROVE ReasonKept' BY <1>2 DEF RaiseAbort
  <1>3. ASSUME NEW t \in Threads, RevertAbort(t) PROVE ReasonKept' BY <1>3 DEF RevertAbort
  <1>4. ASSUME NEW t \in Threads, NotifyAbort(t) PROVE ReasonKept'
    BY <1>4
    DEF NotifyAbort, Awake, Missing
  <1>5. ASSUME NEW t \in Threads, Unlock(t) PROVE ReasonKept' BY <1>5 DEF Unlock, UnlockNext, Goto
  <1>6. ASSUME NEW t \in Threads, LockCv(t) PROVE ReasonKept' BY <1>6 DEF LockCv, Goto
  <1>7. ASSUME NEW t \in Threads, ReadFlag(t) PROVE ReasonKept'
    BY <1>7
    DEF ReadFlag, AfterWait, Goto
  <1>8. ASSUME NEW t \in Threads, ReadAbort(t) PROVE ReasonKept'
    BY <1>8
    DEF ReadAbort, AfterWait, Goto
  <1>9. ASSUME NEW t \in Threads, Wait(t) PROVE ReasonKept' BY <1>9 DEF Wait, Goto
  <1>10. ASSUME NEW t \in Threads, Decide(t) PROVE ReasonKept' BY <1>10 DEF Decide, Goto
  <1>11. ASSUME NEW t \in Threads, Recheck(t) PROVE ReasonKept' BY <1>11 DEF Recheck, IsFree, Goto
  <1>12. ASSUME NEW t \in Threads, Lock(t) PROVE ReasonKept' BY <1>12 DEF Lock, Goto
  <1>13. ASSUME NEW t \in Threads, WokeEarly(t) PROVE ReasonKept' BY <1>13 DEF WokeEarly, Goto
  <1>14. ASSUME NEW t \in Threads, Release(t) PROVE ReasonKept' BY <1>14 DEF Release, Goto
  <1>15. ASSUME NEW t \in Threads, Notify(t) PROVE ReasonKept' BY <1>15 DEF Notify, Awake, Missing
  <1>16. ASSUME NEW t \in Threads, SpuriousWakeup(t) PROVE ReasonKept'
    BY <1>16
    DEF SpuriousWakeup, Goto
  <1>17. CASE UNCHANGED vars BY <1>17 DEF vars
  <1> QED BY <1>1, <1>2, <1>3, <1>4, <1>5, <1>6, <1>7, <1>8, <1>9, <1>10, <1>11, <1>12, <1>13,
             <1>14, <1>15, <1>16, <1>17
          DEF Next, Client, Step

\* Every step keeps the notification that a sleeper is due.
LEMMA DozerStep == IInv /\ [Next]_vars => DozersAreDue'
PROOF
  <1> SUFFICES ASSUME IInv, [Next]_vars PROVE DozersAreDue' OBVIOUS
  <1> USE NoneAssumption DEF IInv, TypeOK, DozersAreDue
  <1>1. ASSUME NEW t \in Threads, Call(t) PROVE DozersAreDue' BY <1>1 DEF Call, Goto
  <1>2. ASSUME NEW t \in Threads, RaiseAbort(t) PROVE DozersAreDue' BY <1>2 DEF RaiseAbort
  <1>3. ASSUME NEW t \in Threads, RevertAbort(t) PROVE DozersAreDue' BY <1>3 DEF RevertAbort
  <1>4. ASSUME NEW t \in Threads, NotifyAbort(t) PROVE DozersAreDue'
    BY <1>4
    DEF NotifyAbort, Awake, Missing
  <1>5. ASSUME NEW t \in Threads, Unlock(t) PROVE DozersAreDue' BY <1>5 DEF Unlock, UnlockNext, Goto
  <1>6. ASSUME NEW t \in Threads, LockCv(t) PROVE DozersAreDue' BY <1>6 DEF LockCv, Goto
  <1>7. ASSUME NEW t \in Threads, ReadFlag(t) PROVE DozersAreDue'
    BY <1>7
    DEF ReadFlag, AfterWait, Goto
  <1>8. ASSUME NEW t \in Threads, ReadAbort(t) PROVE DozersAreDue'
    BY <1>8
    DEF ReadAbort, AfterWait, Goto
  <1>9. ASSUME NEW t \in Threads, Wait(t) PROVE DozersAreDue' BY <1>9 DEF Wait, Goto
  <1>10. ASSUME NEW t \in Threads, Decide(t) PROVE DozersAreDue' BY <1>10 DEF Decide, Goto
  <1>11. ASSUME NEW t \in Threads, Recheck(t) PROVE DozersAreDue' BY <1>11 DEF Recheck, IsFree, Goto
  <1>12. ASSUME NEW t \in Threads, Lock(t) PROVE DozersAreDue' BY <1>12 DEF Lock, Goto
  <1>13. ASSUME NEW t \in Threads, WokeEarly(t) PROVE DozersAreDue' BY <1>13 DEF WokeEarly, Goto
  <1>14. ASSUME NEW t \in Threads, Release(t) PROVE DozersAreDue' BY <1>14 DEF Release, Goto
  <1>15. ASSUME NEW t \in Threads, Notify(t) PROVE DozersAreDue' BY <1>15 DEF Notify, Awake, Missing
  <1>16. ASSUME NEW t \in Threads, SpuriousWakeup(t) PROVE DozersAreDue'
    BY <1>16
    DEF SpuriousWakeup, Goto
  <1>17. CASE UNCHANGED vars BY <1>17 DEF vars
  <1> QED BY <1>1, <1>2, <1>3, <1>4, <1>5, <1>6, <1>7, <1>8, <1>9, <1>10, <1>11, <1>12, <1>13,
             <1>14, <1>15, <1>16, <1>17
          DEF Next, Client, Step

\* IInv is an invariant of the specification.
THEOREM Invariance == Spec => []IInv
PROOF
  <1>1. IInv /\ [Next]_vars => IInv'
    BY TypeStep, HolderStep, ReasonStep, DozerStep DEF IInv
  <1> QED BY <1>1, InitIInv, PTL DEF Spec

\* cv.m is held by the one thread that is between its locking and its unlocking.
THEOREM TypeCorrect == Spec => []TypeOK
PROOF
  <1>1. IInv => TypeOK BY DEF IInv
  <1> QED BY <1>1, Invariance, PTL

\* The lock is mutually exclusive although unlock clears the flag outside cv.m.
THEOREM Exclusion == Spec => []OneHolder
PROOF
  <1>1. IInv => OneHolder BY DEF IInv
  <1> QED BY <1>1, Invariance, PTL

\* Without a lost notification nobody sleeps beside a free lock or a true abort_condition.
THEOREM SleepersDue == Spec => []SleepersAreDue
PROOF
  <1>1. IInv => SleepersAreDue BY DEF IInv, DozersAreDue, SleepersAreDue
  <1> QED BY <1>1, Invariance, PTL

\* The "woke up early" assertion can fail only through a reverted abort_condition.
THEOREM EarlyOnlyByRevert == Spec => []EarlyOnlyIfReverted
PROOF
  <1>1. IInv => EarlyOnlyIfReverted BY DEF IInv, ReasonKept, EarlyOnlyIfReverted
  <1> QED BY <1>1, Invariance, PTL
=============================================================================
