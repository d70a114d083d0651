------------------------ MODULE LightweightSemaphore ------------------------
(***************************************************************************)
(* details::mpmc_sema::LightweightSemaphore over a POSIX semaphore: an     *)
(* atomic count that is decremented below zero by threads that go to sleep *)
(* in the kernel semaphore, and is corrected by those that time out there. *)
(*                                                                         *)
(* A call waits for 1 .. max permits (max = 1: the calls for one permit).  *)
(* Its timeout is "none" for the try functions, "timed", or "forever".     *)
(* A failed compare-exchange leaves everything as it was, so a loop around *)
(* one is the step of its successful iteration; the spinning before the    *)
(* decrement is the choice between the two steps at "spin".                *)
(***************************************************************************)
EXTENDS Integers, FiniteSets

CONSTANTS
  Threads,
  MaxBulk, \* bound on the permits a call asks for
  Second,  \* nsecs_in_1_sec, scaled down
  Timeout  \* the part of timeout_usecs below a second, in the same unit

ASSUME ThreadsAssumption == IsFiniteSet(Threads)
ASSUME MaxBulkAssumption == MaxBulk \in Nat \ {0}
ASSUME ClockAssumption == Second \in Nat \ {0} /\ Timeout \in 0 .. Second - 1

VARIABLES
  count,    \* m_count
  kernel,   \* the value of m_sema
  posts,    \* sem_post calls that signal has still to make
  pc,       \* thread -> next step of its call
  timeout,  \* thread -> "none", "timed" or "forever"
  max,      \* thread -> permits it may still take
  got,      \* thread -> permits its call has got
  phantoms  \* history: waits that returned true without a permit

semaVars == <<count, kernel, posts, pc, timeout, max, got, phantoms>>

PC == {"idle", "try", "spin", "asleep", "timed_out", "reclaim", "more", "return"}

\* Threads whose decrement of count is not answered yet.
Waiting == {t \in Threads : pc[t] \in {"asleep", "timed_out", "reclaim"}}

SemaTypeOK ==
  /\ count \in Int /\ kernel \in Nat /\ posts \in Nat /\ phantoms \in Nat
  /\ pc \in [Threads -> PC]
  /\ timeout \in [Threads -> {"none", "timed", "forever"}]
  /\ max \in [Threads -> 0 .. MaxBulk] /\ got \in [Threads -> 0 .. MaxBulk]
  /\ \A t \in Threads :
       /\ got[t] + max[t] <= MaxBulk
       /\ pc[t] \notin {"idle", "return"} => max[t] > 0
       /\ pc[t] \notin {"more", "return"} => got[t] = 0
       /\ pc[t] \in {"timed_out", "reclaim"} => timeout[t] = "timed"
       /\ t \in Waiting \/ pc[t] = "spin" => timeout[t] # "none"

SemaInit ==
  /\ count = 0 /\ kernel = 0 /\ posts = 0 /\ phantoms = 0
  /\ pc = [t \in Threads |-> "idle"]
  /\ timeout = [t \in Threads |-> "none"]
  /\ max = [t \in Threads |-> 0] /\ got = [t \in Threads |-> 0]

Goto(t, label) == pc' = [pc EXCEPT ![t] = label]

LeastOf(m, n) == IF m < n THEN m ELSE n

-----------------------------------------------------------------------------
(* wait, tryWait, waitMany, tryWaitMany.                                   *)

Call(t, kind, n) ==
  /\ pc[t] = "idle"
  /\ timeout' = [timeout EXCEPT ![t] = kind]
  /\ max' = [max EXCEPT ![t] = n]
  /\ Goto(t, "try")
  /\ UNCHANGED <<count, kernel, posts, got, phantoms>>

\* The call has got n more permits; the first of several is followed by tryWaitMany.
Acquire(t, n, next) ==
  /\ got' = [got EXCEPT ![t] = @ + n]
  /\ max' = [max EXCEPT ![t] = @ - n]
  /\ Goto(t, next)

\* compare_exchange of a positive count, greedily.
TakeAvailable(t) ==
  /\ pc[t] \in {"try", "spin", "more"} /\ count > 0
  /\ LET n == LeastOf(count, max[t])
     IN count' = count - n /\ Acquire(t, n, "return")
  /\ UNCHANGED <<kernel, posts, timeout, phantoms>>

FindsNone(t) ==
  /\ pc[t] \in {"try", "more"} /\ count <= 0
  /\ Goto(t, IF pc[t] = "try" /\ timeout[t] # "none" THEN "spin" ELSE "return")
  /\ UNCHANGED <<count, kernel, posts, timeout, max, got, phantoms>>

\* Mutant of Then: looks for more although the call wanted only one.
ThenMore(t) == IF max[t] > 0 THEN "more" ELSE "return"
\* After one permit: waitManyWithPartialSpinning looks for more, wait returns.
Then(t) == IF max[t] > 1 THEN "more" ELSE "return"

\* fetch_sub, after which the thread waits in the kernel unless the count was positive.
Decrement(t) ==
  /\ pc[t] = "spin"
  /\ count' = count - 1
  /\ IF count > 0
     THEN Acquire(t, 1, Then(t))
     ELSE Goto(t, "asleep") /\ UNCHANGED <<max, got>>
  /\ UNCHANGED <<kernel, posts, timeout, phantoms>>

\* sem_wait and sem_timedwait.
Woken(t) ==
  /\ pc[t] = "asleep" /\ kernel > 0
  /\ kernel' = kernel - 1
  /\ Acquire(t, 1, Then(t))
  /\ UNCHANGED <<count, posts, timeout, phantoms>>

\* The deadline that timed_wait gives to sem_timedwait: at exactly one second the
\* nanoseconds are not carried.
Nanoseconds(clock) ==
  IF clock + Timeout > Second THEN clock + Timeout - Second ELSE clock + Timeout

\* sem_timedwait refuses nanoseconds that are a second or more with EINVAL, and
\* timed_wait returns true for every failure but ETIMEDOUT.
Refused(t) ==
  /\ pc[t] = "asleep" /\ timeout[t] = "timed"
  /\ \E clock \in 0 .. Second - 1 : Nanoseconds(clock) >= Second
  /\ phantoms' = phantoms + 1
  /\ Acquire(t, 1, Then(t))
  /\ UNCHANGED <<count, kernel, posts, timeout>>

TimesOut(t) ==
  /\ pc[t] = "asleep" /\ timeout[t] = "timed" /\ kernel = 0
  /\ Goto(t, "timed_out")
  /\ UNCHANGED <<count, kernel, posts, timeout, max, got, phantoms>>

\* Mutant of Granted: the loop waits for a permit beyond its own.
GrantedWhenPositive == count > 0
\* Signals cover every thread that has decremented count.
Granted == count >= 0

\* The loop after a timeout: somebody signalled for this thread too.
SeesGrant(t) ==
  /\ pc[t] = "timed_out" /\ Granted
  /\ Goto(t, "reclaim")
  /\ UNCHANGED <<count, kernel, posts, timeout, max, got, phantoms>>

\* try_wait on the kernel semaphore.
Reclaim(t) ==
  /\ pc[t] = "reclaim"
  /\ IF kernel > 0
     THEN kernel' = kernel - 1 /\ Acquire(t, 1, Then(t))
     ELSE Goto(t, "timed_out") /\ UNCHANGED <<kernel, max, got>>
  /\ UNCHANGED <<count, posts, timeout, phantoms>>

\* Mutant of Readjusted: the decrement of a thread that timed out stays.
NotReadjusted(n) == n
Readjusted(n) == n + 1

GiveBack(t) ==
  /\ pc[t] = "timed_out" /\ count < 0
  /\ count' = Readjusted(count)
  /\ Goto(t, "return")
  /\ UNCHANGED <<kernel, posts, timeout, max, got, phantoms>>

-----------------------------------------------------------------------------
(* signal.                                                                 *)

\* Mutant of ToRelease: it posts for every permit, whether somebody sleeps or not.
ReleaseAll(n) == n
ToRelease(n) == LeastOf(-count, n)

Signal(n) ==
  /\ count' = count + n
  /\ posts' = IF ToRelease(n) > 0 THEN posts + ToRelease(n) ELSE posts
  /\ UNCHANGED <<kernel, pc, timeout, max, got, phantoms>>

Post ==
  /\ posts > 0
  /\ posts' = posts - 1
  /\ kernel' = kernel + 1
  /\ UNCHANGED <<count, pc, timeout, max, got, phantoms>>

\* A call makes progress by itself.
SemaStep(t) ==
  \/ TakeAvailable(t) \/ FindsNone(t) \/ Decrement(t)
  \/ Woken(t) \/ Refused(t) \/ TimesOut(t)
  \/ SeesGrant(t) \/ Reclaim(t) \/ GiveBack(t)

-----------------------------------------------------------------------------
\* The permits that signal has given and no call has got.
Permits == count + Cardinality(Waiting)

\* count, the kernel semaphore and the posts under way account for every thread that
\* has decremented count: a wakeup is neither lost nor left over, except for those
\* that waits without a permit leave behind.
Balance ==
  LeastOf(count, 0) + Cardinality(Waiting) + phantoms = kernel + posts

\* As long as no wait was refused, the semaphore keeps the promises of
\* CountingSemaphore: in particular a timed wait fails only while there are fewer
\* permits than waiters, and nobody takes a permit that a waiter has a claim on.
Abstract == INSTANCE CountingSemaphore WITH permits <- Permits, waiting <- Waiting
=============================================================================
