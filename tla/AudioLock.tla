----------------------------- MODULE AudioLock -----------------------------
(***************************************************************************)
(* The lock of the audio framework, drivers/audio/audio_utility/           *)
(* audio_lock.c: a FreeRTOS mutex, a queue of length one that stands for a *)
(* condition variable, and a count of the tasks that are taking the mutex, *)
(* for which alock_unlock yields.                                          *)
(*                                                                         *)
(* Callers are any tasks that keep to the protocol: unlock and wait with   *)
(* the mutex, lock without it, and do not go on when alock_lock_ms or      *)
(* alock_trylock failed.  Calls from interrupts and on a NULL lock are     *)
(* refused by every function and change nothing.                           *)
(***************************************************************************)
EXTENDS Integers, FiniteSets

CONSTANTS
  Tasks,   \* tasks that share the lock, of one priority
  Uses,    \* Uses[t]: the operations task t calls besides alock_unlock
  Free     \* an unlocked mutex

Ops == {"lock", "lock_ms", "trylock", "wait", "wait_ms", "signal"}

ASSUME TaskAssumption == IsFiniteSet(Tasks) /\ Free \notin Tasks
ASSUME UsesAssumption == Uses \in [Tasks -> SUBSET Ops]

VARIABLES
  pc,          \* control point of each task
  timed,       \* TRUE: the take or receive a task blocks in may time out
  mutex,       \* alock_t.mutex
  cond,        \* messages in alock_t.cond, a queue of length 1
  lock_count,  \* alock_t.lock_count
  signalled    \* history: slept when alock_signal was called, and no signal
               \* was received since
vars == <<pc, timed, mutex, cond, lock_count, signalled>>

\* out: without the mutex; take, got, late: counted in lock_count, before the
\* mutex, with it, and after the time out; in: with the mutex; sleep, woken: in
\* alock_wait before and after the receive; gave, yield: in alock_unlock.
Points == {"out", "take", "got", "late", "in", "sleep", "woken", "gave", "yield"}

Init ==
  /\ pc = [t \in Tasks |-> "out"]
  /\ timed = [t \in Tasks |-> FALSE]
  /\ mutex = Free
  /\ cond = 0
  /\ lock_count = 0
  /\ signalled = [t \in Tasks |-> FALSE]

Go(t, p) == pc' = [pc EXCEPT ![t] = p]

\* alock_lock_no_timeout (isTimed FALSE) or alock_lock_ms with ms > 0, up to
\* the take of the mutex.
CallLock(t, isTimed) ==
  /\ pc[t] = "out"
  /\ (IF isTimed THEN "lock_ms" ELSE "lock") \in Uses[t]
  /\ lock_count' = lock_count + 1
  /\ timed' = [timed EXCEPT ![t] = isTimed]
  /\ Go(t, "take")
  /\ UNCHANGED <<mutex, cond, signalled>>

\* xSemaphoreTake(p_alock->mutex, ...) == pdTRUE.  The endless form tries again
\* every LOCK_TIMEOUT_WARN_MS, which changes nothing.
Take(t) ==
  /\ pc[t] = "take"
  /\ mutex = Free
  /\ mutex' = t
  /\ Go(t, "got")
  /\ UNCHANGED <<timed, cond, lock_count, signalled>>

\* alock_lock_ms: the take times out.
TakeTimesOut(t) ==
  /\ pc[t] = "take"
  /\ timed[t]
  /\ Go(t, "late")
  /\ UNCHANGED <<timed, mutex, cond, lock_count, signalled>>

\* Mutant of CountDown: a take that timed out stays counted.
CountDownWhenTaken(t) ==
  /\ \/ pc[t] = "got" /\ Go(t, "in") /\ lock_count' = lock_count - 1
     \/ pc[t] = "late" /\ Go(t, "out") /\ UNCHANGED lock_count
  /\ UNCHANGED <<timed, mutex, cond, signalled>>

\* atomic_add(&p_alock->lock_count, -1) and the return of the call.
CountDown(t) ==
  /\ \/ pc[t] = "got" /\ Go(t, "in")
     \/ pc[t] = "late" /\ Go(t, "out")
  /\ lock_count' = lock_count - 1
  /\ UNCHANGED <<timed, mutex, cond, signalled>>

\* alock_trylock, and alock_lock_ms with ms = 0.
TryLock(t) ==
  /\ pc[t] = "out"
  /\ "trylock" \in Uses[t]
  /\ mutex = Free
  /\ mutex' = t
  /\ Go(t, "in")
  /\ UNCHANGED <<timed, cond, lock_count, signalled>>

\* alock_unlock: xSemaphoreGive(p_alock->mutex).
Unlock(t) ==
  /\ pc[t] = "in"
  /\ mutex' = Free
  /\ Go(t, "gave")
  /\ UNCHANGED <<timed, cond, lock_count, signalled>>

\* Mutant of CheckCount: an unlock that never yields.
CheckCountNever(t) ==
  /\ pc[t] = "gave"
  /\ Go(t, "out")
  /\ UNCHANGED <<timed, mutex, cond, lock_count, signalled>>

\* alock_unlock: if (p_alock->lock_count > 0).
CheckCount(t) ==
  /\ pc[t] = "gave"
  /\ Go(t, IF lock_count > 0 THEN "yield" ELSE "out")
  /\ UNCHANGED <<timed, mutex, cond, lock_count, signalled>>

\* portYIELD(): the other tasks run until none of them can take the mutex.
Yield(t) ==
  /\ pc[t] = "yield"
  /\ ~(mutex = Free /\ \E s \in Tasks : pc[s] = "take")
  /\ Go(t, "out")
  /\ UNCHANGED <<timed, mutex, cond, lock_count, signalled>>

\* Mutant of CallWait: the queue is emptied before the receive.
CallWaitAfresh(t, isTimed) ==
  /\ pc[t] = "in"
  /\ (IF isTimed THEN "wait_ms" ELSE "wait") \in Uses[t]
  /\ timed' = [timed EXCEPT ![t] = isTimed]
  /\ mutex' = Free
  /\ cond' = 0
  /\ Go(t, "sleep")
  /\ UNCHANGED <<lock_count, signalled>>

\* alock_wait_no_timeout, or alock_wait_ms with ms > 0 (0 is refused), up to
\* the receive: the mutex is given, without a yield.
CallWait(t, isTimed) ==
  /\ pc[t] = "in"
  /\ (IF isTimed THEN "wait_ms" ELSE "wait") \in Uses[t]
  /\ timed' = [timed EXCEPT ![t] = isTimed]
  /\ mutex' = Free
  /\ Go(t, "sleep")
  /\ UNCHANGED <<cond, lock_count, signalled>>

\* xQueueReceive(p_alock->cond, ...) == pdTRUE.  The signal, which may be older
\* than the wait, is used up.
Receive(t) ==
  /\ pc[t] = "sleep"
  /\ cond = 1
  /\ cond' = 0
  /\ signalled' = [s \in Tasks |-> FALSE]
  /\ Go(t, "woken")
  /\ UNCHANGED <<timed, mutex, lock_count>>

\* alock_wait_ms: the receive times out.
ReceiveTimesOut(t) ==
  /\ pc[t] = "sleep"
  /\ timed[t]
  /\ signalled' = [signalled EXCEPT ![t] = FALSE]
  /\ Go(t, "woken")
  /\ UNCHANGED <<timed, mutex, cond, lock_count>>

\* Mutant of Relock: a waiter returns without the mutex.
RelockNever(t) ==
  /\ pc[t] = "woken"
  /\ Go(t, "in")
  /\ UNCHANGED <<timed, mutex, cond, lock_count, signalled>>

\* The waiter takes the mutex back, however long that lasts.
Relock(t) ==
  /\ pc[t] = "woken"
  /\ lock_count' = lock_count + 1
  /\ timed' = [timed EXCEPT ![t] = FALSE]
  /\ Go(t, "take")
  /\ UNCHANGED <<mutex, cond, signalled>>

\* alock_signal, by a task with or without the mutex: xQueueSendToBack does not
\* wait for room, so a second signal before a receive is dropped.
Signal(t) ==
  /\ pc[t] \in {"out", "in"}
  /\ "signal" \in Uses[t]
  /\ cond' = 1
  /\ signalled' = [s \in Tasks |-> signalled[s] \/ pc[s] = "sleep"]
  /\ UNCHANGED <<pc, timed, mutex, lock_count>>

\* Steps a task takes without being called again.
Run(t) ==
  \/ Take(t) \/ TakeTimesOut(t) \/ CountDown(t)
  \/ Unlock(t) \/ CheckCount(t) \/ Yield(t)
  \/ Receive(t) \/ ReceiveTimesOut(t) \/ Relock(t)

Next ==
  \E t \in Tasks :
    \/ Run(t)
    \/ TryLock(t) \/ Signal(t)
    \/ \E isTimed \in BOOLEAN : CallLock(t, isTimed) \/ CallWait(t, isTimed)

Spec == Init /\ [][Next]_vars

\* The scheduler runs every task that can run, and a caller unlocks.
FairSpec == Spec /\ \A t \in Tasks : WF_vars(Run(t))

----------------------------------------------------------------------------
\* Tasks that have added themselves to lock_count and not yet left it.
Counted == {t \in Tasks : pc[t] \in {"take", "got", "late"}}

(* The type of every variable.                                             *)
TypeOK ==
  /\ pc \in [Tasks -> Points]
  /\ timed \in [Tasks -> BOOLEAN]
  /\ mutex \in Tasks \union {Free}
  /\ cond \in 0..1
  /\ lock_count \in Int
  /\ signalled \in [Tasks -> BOOLEAN]

(* A task that a lock, a trylock or a wait returned to has the mutex, and  *)
(* so is alone, whichever of them woke, timed out or tried in between.     *)
Exclusive == \A t \in Tasks : pc[t] \in {"got", "in"} => mutex = t

(* lock_count is the number of tasks that are taking the mutex: never the  *)
(* negative number of "lock count error!!", and positive for the unlock of *)
(* a mutex that somebody waits for, time outs and waits included.          *)
CountIsWaiters == lock_count = Cardinality(Counted)

(* A signal given while a task sleeps in a wait is there for it, though    *)
(* the queue drops signals when it is full, until some waiter has it.      *)
SignalKept == \A t \in Tasks : pc[t] = "sleep" /\ signalled[t] => cond = 1

(* Two tasks that lock and unlock in a loop, or wait, do not starve each   *)
(* other: alock_unlock yields to whoever is counted.  Only one that keeps  *)
(* returning from waits can, since a wait gives the mutex without a yield. *)
Unstarved ==
  \A t \in Tasks :
    (pc[t] = "take" ~> pc[t] # "take") \/ \E s \in Tasks \ {t} : []<>(pc[s] = "woken")
=============================================================================
