---------------------------- MODULE AbortableLock ----------------------------
(***************************************************************************)
(* abortable_locked_guardian: lock_or_abort waits on the guardian's own    *)
(* condition variable until the flag critical_region_occupied is clear or  *)
(* the caller's abort_condition holds.  The condition_held returned by     *)
(* cv.wait keeps cv.m until lock_or_abort returns; unlock of the lock_t    *)
(* that it hands out does not take cv.m.                                   *)
(*                                                                         *)
(* Every call brings its own abort_condition, whose value the clients      *)
(* change; one that makes it true then notifies cv.v, as unlock does.      *)
(***************************************************************************)
CONSTANTS
  Threads,
  None \* no thread

ASSUME NoneAssumption == None \notin Threads

VARIABLES
  occupied,   \* critical_region_occupied
  mutex,      \* the thread that holds cv.m
  holders,    \* threads that own a lock_t
  aborts,     \* threads whose abort_condition is true
  unnotified, \* threads whose abort_condition became true, cv.v not yet notified
  pc,         \* thread -> next step of its call
  missed,     \* history: threads notified after they read the flag, before they slept
  reverted    \* history: threads whose abort_condition became false during their call

vars == <<occupied, mutex, holders, aborts, unnotified, pc, missed, reverted>>

PC == {"idle", "lock_cv", "read_flag", "read_abort", "wait", "asleep", "decide", "recheck",
       "lock", "woke_early", "release", "notify"}

\* Steps at which a thread is between the locking and the unlocking of cv.m.
InMonitor == {"read_flag", "read_abort", "wait", "decide", "recheck", "lock", "woke_early",
              "release"}

\* Beside the types: cv.m is held by the one thread inside, and by no other.
TypeOK ==
  /\ occupied \in BOOLEAN
  /\ mutex \in Threads \cup {None}
  /\ holders \subseteq Threads /\ aborts \subseteq Threads /\ unnotified \subseteq Threads
  /\ pc \in [Threads -> PC]
  /\ \A t \in Threads : pc[t] \in InMonitor <=> mutex = t
  /\ missed \subseteq Threads /\ reverted \subseteq Threads

Init ==
  /\ occupied = FALSE /\ mutex = None
  /\ holders = {} /\ aborts = {} /\ unnotified = {}
  /\ pc = [t \in Threads |-> "idle"]
  /\ missed = {} /\ reverted = {}

Goto(t, label) == pc' = [pc EXCEPT ![t] = label]

-----------------------------------------------------------------------------
(* The clients.                                                            *)

\* lock_or_abort with a new abort_condition, true already or not.
Call(t) ==
  /\ pc[t] = "idle" /\ t \notin holders
  /\ aborts' \in {aborts \ {t}, aborts \cup {t}}
  /\ reverted' = reverted \ {t}
  /\ Goto(t, "lock_cv")
  /\ UNCHANGED <<occupied, mutex, holders, unnotified, missed>>

RaiseAbort(t) ==
  /\ pc[t] # "idle" /\ t \notin aborts
  /\ aborts' = aborts \cup {t}
  /\ unnotified' = unnotified \cup {t}
  /\ UNCHANGED <<occupied, mutex, holders, pc, missed, reverted>>

RevertAbort(t) ==
  /\ pc[t] # "idle" /\ t \in aborts
  /\ aborts' = aborts \ {t}
  /\ reverted' = reverted \cup {t}
  /\ UNCHANGED <<occupied, mutex, holders, unnotified, pc, missed>>

\* notify_all: every sleeper goes to take cv.m again.  One that has read the flag and
\* does not sleep yet gets nothing.
Awake == [u \in Threads |-> IF pc[u] = "asleep" THEN "lock_cv" ELSE pc[u]]
Missing == {u \in Threads : pc[u] \in {"read_abort", "wait"}}

NotifyAbort(t) ==
  /\ t \in unnotified
  /\ unnotified' = unnotified \ {t}
  /\ pc' = Awake
  /\ missed' = missed \cup Missing
  /\ UNCHANGED <<occupied, mutex, holders, aborts, reverted>>

-----------------------------------------------------------------------------
(* lock_or_abort: condition_held's constructor.                            *)

LockCv(t) ==
  /\ pc[t] = "lock_cv" /\ mutex = None
  /\ mutex' = t
  /\ Goto(t, "read_flag")
  /\ UNCHANGED <<occupied, holders, aborts, unnotified, missed, reverted>>

\* Mutant of AfterWait: the condition_held is a temporary, gone when cv.wait returns.
TemporaryHeld(t) == None
\* The condition_held lives in `locked` until lock_or_abort returns.
AfterWait(t) == mutex

\* The predicate's first operand.
ReadFlag(t) ==
  /\ pc[t] = "read_flag"
  /\ missed' = missed \ {t}
  /\ IF occupied
     THEN Goto(t, "read_abort") /\ UNCHANGED mutex
     ELSE Goto(t, "decide") /\ mutex' = AfterWait(t)
  /\ UNCHANGED <<occupied, holders, aborts, unnotified, reverted>>

\* The predicate's second operand.
ReadAbort(t) ==
  /\ pc[t] = "read_abort"
  /\ IF t \in aborts
     THEN Goto(t, "decide") /\ mutex' = AfterWait(t)
     ELSE Goto(t, "wait") /\ UNCHANGED mutex
  /\ UNCHANGED <<occupied, holders, aborts, unnotified, missed, reverted>>

\* v.wait unlocks cv.m and sleeps in one step.
Wait(t) ==
  /\ pc[t] = "wait"
  /\ mutex' = None
  /\ Goto(t, "asleep")
  /\ UNCHANGED <<occupied, holders, aborts, unnotified, missed, reverted>>

SpuriousWakeup(t) ==
  /\ pc[t] = "asleep"
  /\ Goto(t, "lock_cv")
  /\ UNCHANGED <<occupied, mutex, holders, aborts, unnotified, missed, reverted>>

-----------------------------------------------------------------------------
(* lock_or_abort, after the wait.                                          *)

\* abort_condition is evaluated again and goes before the flag.
Decide(t) ==
  /\ pc[t] = "decide"
  /\ Goto(t, IF t \in aborts THEN "release" ELSE "recheck")
  /\ UNCHANGED <<occupied, mutex, holders, aborts, unnotified, missed, reverted>>

\* Mutant of IsFree: the flag is not looked at again.
AssumeFree == TRUE
IsFree == ~occupied

Recheck(t) ==
  /\ pc[t] = "recheck"
  /\ Goto(t, IF IsFree THEN "lock" ELSE "woke_early")
  /\ UNCHANGED <<occupied, mutex, holders, aborts, unnotified, missed, reverted>>

\* make_unique<lock_t>(am) calls abortable_mutex::lock.
Lock(t) ==
  /\ pc[t] = "lock"
  /\ occupied' = TRUE
  /\ holders' = holders \cup {t}
  /\ Goto(t, "release")
  /\ UNCHANGED <<mutex, aborts, unnotified, missed, reverted>>

\* The assertion; with NDEBUG the exception after it.
WokeEarly(t) ==
  /\ pc[t] = "woke_early"
  /\ Goto(t, "release")
  /\ UNCHANGED <<occupied, mutex, holders, aborts, unnotified, missed, reverted>>

\* ~condition_held unlocks cv.m, then notifies.
Release(t) ==
  /\ pc[t] = "release"
  /\ mutex' = None
  /\ Goto(t, "notify")
  /\ UNCHANGED <<occupied, holders, aborts, unnotified, missed, reverted>>

\* Mutant of UnlockNext: unlock does not notify.
SilentUnlock == "idle"
UnlockNext == "notify"

\* abortable_mutex::unlock, without cv.m.
Unlock(t) ==
  /\ pc[t] = "idle" /\ t \in holders
  /\ occupied' = FALSE
  /\ holders' = holders \ {t}
  /\ Goto(t, UnlockNext)
  /\ UNCHANGED <<mutex, aborts, unnotified, missed, reverted>>

\* The notify_all of condition_held::unlock and of abortable_mutex::unlock.
Notify(t) ==
  /\ pc[t] = "notify"
  /\ pc' = [Awake EXCEPT ![t] = "idle"]
  /\ missed' = missed \cup Missing
  /\ UNCHANGED <<occupied, mutex, holders, aborts, unnotified, reverted>>

-----------------------------------------------------------------------------
Client(t) == Call(t) \/ RaiseAbort(t) \/ RevertAbort(t) \/ NotifyAbort(t) \/ Unlock(t)

Step(t) ==
  \/ LockCv(t) \/ ReadFlag(t) \/ ReadAbort(t) \/ Wait(t)
  \/ Decide(t) \/ Recheck(t) \/ Lock(t) \/ WokeEarly(t) \/ Release(t) \/ Notify(t)

Next == \E t \in Threads : Client(t) \/ Step(t) \/ SpuriousWakeup(t)

Spec == Init /\ [][Next]_vars

-----------------------------------------------------------------------------
\* The flag is set exactly while one lock_t is owned: a waiter that found the flag
\* clear cannot be overtaken before it sets it, although unlock runs outside cv.m.
OneHolder ==
  /\ \A t, u \in holders : t = u
  /\ occupied <=> holders # {}

\* A sleeper that could go on will be notified, unless a notification came between
\* its reading the flag and its falling asleep: unlock changes the flag and notifies
\* without cv.m (abortable_lock.hpp:27-28), so such a notification is lost.
SleepersAreDue ==
  \A t \in Threads : pc[t] = "asleep" /\ t \notin missed =>
    /\ ~occupied => \E u \in Threads : pc[u] = "notify"
    /\ t \in aborts => t \in unnotified

\* The assertion "woke up early" fails only when an abort_condition that ended the
\* wait is false when it is evaluated again, never because another thread got the lock.
EarlyOnlyIfReverted == \A t \in Threads : pc[t] = "woke_early" => t \in reverted

\* The assertion at abortable_lock.hpp:51: lock_or_abort never wakes without a reason.
NeverWokeEarly == \A t \in Threads : pc[t] # "woke_early"
=============================================================================
