------------------------------ MODULE Wakelock ------------------------------
(***************************************************************************)
(* middleware/wakelock/wakelock.c: locks that keep the processor awake,    *)
(* with a FreeRTOS software timer per lock that releases it.               *)
(*                                                                         *)
(* The timers are not changed by the callers: a call sends a command to    *)
(* the queue of the timer task without waiting, and the timer task takes   *)
(* expired timers and commands one by one.  xTimerIsTimerActive therefore  *)
(* tells what the timer task has done, not what it was told to do.         *)
(*                                                                         *)
(* Single core (CFG_FREERTOS_SMP off) with configTIMEOUT_SUPPORT: a call   *)
(* from a task is one critical section, and no task runs during a call     *)
(* from an interrupt.  Times are in ticks.                                 *)
(***************************************************************************)
EXTENDS Integers, Sequences

CONSTANTS
  Locks,
  Periods,  \* values of timeout_ms / portTICK_PERIOD_MS
  QueueLen, \* configTIMER_QUEUE_LENGTH
  TickMod,  \* number of values of TickType_t
  MaxTick,  \* bound: ticks since boot
  Calls,    \* the calls that are made: among "lock", "timeout", "unlock", "deinit"
  Callers,  \* who makes them: among "task", "isr"
  Others,   \* TRUE: other software timers use the queue
  Forever,  \* held until it is unlocked
  None,     \* the timer task is in its queue, or blocked
  Looking   \* it has drained the queue and is about to take an expired timer

ASSUME BoundAssumption ==
  /\ Periods \subseteq Nat \ {0}
  /\ QueueLen \in Nat \ {0}
  /\ TickMod \in Nat \ {0}
  /\ MaxTick \in Nat
ASSUME MarkAssumption ==
  /\ None \notin Locks /\ Looking \notin Locks /\ None # Looking
  /\ Forever \notin Nat

VARIABLES
  now,      \* ticks since boot; xTaskGetTickCount() is now % TickMod
  listed,   \* xWakelocksList
  expired,  \* lock->xExpiredTick
  present,  \* lock->xTimer # NULL
  active,   \* the lock's timer runs
  left,     \* ticks until it expires
  queue,    \* commands to the timer task
  daemon,   \* the timer task: None, Looking, or the lock whose callback it will run
  closing,  \* progress of wake_lock_deinit
  promise,  \* history: ticks the callers still want the lock held
  excuse    \* history: what was special in the calls since the last unlock

vars == <<now, listed, expired, present, active, left, queue, daemon, closing,
          promise, excuse>>

Tick == now % TickMod
Full == Len(queue) = QueueLen
Due(l) == active[l] /\ left[l] = 0

Cmd(c, l, p) == [cmd |-> c, lock |-> l, period |-> p]
Commands ==
  [cmd : {"stop", "period", "delete", "other"}, lock : Locks, period : Periods \union {0}]

Init ==
  /\ now = 0
  /\ listed = {}
  /\ expired = [l \in Locks |-> 0]
  /\ present = [l \in Locks |-> TRUE]
  /\ active = [l \in Locks |-> FALSE]
  /\ left = [l \in Locks |-> 0]
  /\ queue = <<>>
  /\ daemon = None
  /\ closing = [l \in Locks |-> "open"]
  /\ promise = [l \in Locks |-> 0]
  /\ excuse = [l \in Locks |-> {}]

----------------------------------------------------------------------------
(* The calls.                                                              *)

\* Where the commands are that decide what the timer of l will do.
Mine(l) == {n \in DOMAIN queue : queue[n].cmd # "other" /\ queue[n].lock = l}

\* The timer task has done all it was told to do with l.
Settled(l) == Mine(l) = {} /\ daemon # l /\ ~Due(l)

\* hasty: a call while l is not settled; delayed: a tick before the timer task
\* took the command of a call; late: one whose expiry is after the
\* tick count wraps; zero: one whose expiry is the tick count that stands for no
\* expiry; refused: one whose command found the queue full; unlimited: a
\* wake_lock.
Excuses == {"hasty", "delayed", "late", "zero", "refused", "unlimited"}
Note(l, S) ==
  excuse' = [excuse EXCEPT ![l] = @ \union S
                                  \union IF Settled(l) THEN {} ELSE {"hasty"}]
Late(p) ==
  {x \in {"late", "zero"} :
     IF x = "late" THEN now + p >= TickMod ELSE (Tick + p) % TickMod = 0}
Refused == IF Full THEN {"refused"} ELSE {}

Calling(who, call, l) ==
  /\ who \in Callers
  /\ call \in Calls
  /\ closing[l] = "open"

\* What the caller of wake_lock_timeout wants: a running timeout is never
\* shortened, and otherwise the last call counts.
Wanted(l, p) ==
  IF promise[l] # Forever /\ promise[l] > p THEN promise[l] ELSE p

Post(c) == queue' = IF Full THEN queue ELSE Append(queue, c)

\* Mutant of WakeLock: a running timer is left alone.
WakeLockKeepsTimer(l) ==
  /\ Calling("task", "lock", l)
  /\ listed' = listed \union {l}
  /\ promise' = [promise EXCEPT ![l] = Forever]
  /\ Note(l, {"unlimited"})
  /\ UNCHANGED <<now, expired, present, active, left, queue, daemon, closing>>

\* wake_lock_interval with timeout_ms = 0.  If the running timer cannot be
\* stopped the call fails.
WakeLock(l) ==
  /\ Calling("task", "lock", l)
  /\ \/ /\ active[l] /\ Full
        /\ UNCHANGED <<queue, listed, promise, excuse>>
     \/ /\ ~(active[l] /\ Full)
        /\ queue' = IF active[l] THEN Append(queue, Cmd("stop", l, 0)) ELSE queue
        /\ listed' = listed \union {l}
        /\ promise' = [promise EXCEPT ![l] = Forever]
        /\ Note(l, {"unlimited"})
  /\ UNCHANGED <<now, expired, present, active, left, daemon, closing>>

\* wake_lock_interval with timeout_ms > 0.  The expiry is stored before the
\* command is sent, and kept when that fails.
WakeLockTimeout(l, p) ==
  LET new == (Tick + p) % TickMod IN
  /\ Calling("task", "timeout", l)
  /\ \/ /\ new > expired[l] /\ Full
        /\ expired' = [expired EXCEPT ![l] = new]
        /\ Note(l, Refused)
        /\ UNCHANGED <<queue, listed, promise>>
     \/ /\ new > expired[l] /\ ~Full
        /\ expired' = [expired EXCEPT ![l] = new]
        /\ queue' = Append(queue, Cmd("period", l, p))
        /\ listed' = listed \union {l}
        /\ promise' = [promise EXCEPT ![l] = Wanted(l, p)]
        /\ Note(l, Late(p))
     \/ /\ ~(new > expired[l])
        /\ listed' = listed \union {l}
        /\ promise' = [promise EXCEPT ![l] = Wanted(l, p)]
        /\ Note(l, Late(p))
        /\ UNCHANGED <<expired, queue>>
  /\ UNCHANGED <<now, present, active, left, daemon, closing>>

\* wake_lock_interval_FromISR: the results of the timer calls are ignored.
WakeLockFromISR(l) ==
  /\ Calling("isr", "lock", l)
  /\ listed' = listed \union {l}
  /\ Post(Cmd("stop", l, 0))
  /\ promise' = [promise EXCEPT ![l] = Forever]
  /\ Note(l, Refused \union {"unlimited"})
  /\ UNCHANGED <<now, expired, present, active, left, daemon, closing>>

WakeLockTimeoutFromISR(l, p) ==
  LET new == (Tick + p) % TickMod IN
  /\ Calling("isr", "timeout", l)
  /\ listed' = listed \union {l}
  /\ \/ /\ new > expired[l]
        /\ expired' = [expired EXCEPT ![l] = new]
        /\ Post(Cmd("period", l, p))
        /\ Note(l, Late(p) \union Refused)
     \/ /\ ~(new > expired[l])
        /\ Note(l, Late(p))
        /\ UNCHANGED <<expired, queue>>
  /\ promise' = [promise EXCEPT ![l] = Wanted(l, p)]
  /\ UNCHANGED <<now, present, active, left, daemon, closing>>

\* Mutant of Release: the timer is stopped whether it is active or not.
ReleaseAlwaysStops(l) ==
  \/ /\ Full
     /\ UNCHANGED <<queue, listed, expired>>
  \/ /\ ~Full
     /\ queue' = Append(queue, Cmd("stop", l, 0))
     /\ listed' = listed \ {l}
     /\ expired' = [expired EXCEPT ![l] = 0]

\* Mutant of Release: xExpiredTick keeps its value.
ReleaseKeepsExpiry(l) ==
  \/ /\ active[l] /\ Full
     /\ UNCHANGED <<queue, listed, expired>>
  \/ /\ ~(active[l] /\ Full)
     /\ queue' = IF active[l] THEN Append(queue, Cmd("stop", l, 0)) ELSE queue
     /\ listed' = listed \ {l}
     /\ UNCHANGED expired

\* The body of wake_unlock; it fails if a running timer cannot be stopped.
Release(l) ==
  \/ /\ active[l] /\ Full
     /\ UNCHANGED <<queue, listed, expired>>
  \/ /\ ~(active[l] /\ Full)
     /\ queue' = IF active[l] THEN Append(queue, Cmd("stop", l, 0)) ELSE queue
     /\ listed' = listed \ {l}
     /\ expired' = [expired EXCEPT ![l] = 0]

\* What was promised is over, and with it what was special.
Forgive(l) ==
  /\ promise' = [promise EXCEPT ![l] = 0]
  /\ excuse' = [excuse EXCEPT ![l] = {}]

\* A caller that is told of the failure knows that it still holds the lock.
Unlock(l) ==
  /\ Release(l)
  /\ IF active[l] /\ Full
     THEN UNCHANGED <<promise, excuse>>
     ELSE Forgive(l)

WakeUnlock(l) ==
  /\ Calling("task", "unlock", l)
  /\ Unlock(l)
  /\ UNCHANGED <<now, present, active, left, daemon, closing>>

\* wake_unlock_FromISR stops the timer of a lock that is listed.
WakeUnlockFromISR(l) ==
  /\ Calling("isr", "unlock", l)
  /\ \/ l \in listed /\ Post(Cmd("stop", l, 0))
     \/ l \notin listed /\ UNCHANGED queue
  /\ listed' = listed \ {l}
  /\ expired' = [expired EXCEPT ![l] = 0]
  /\ Forgive(l)
  /\ UNCHANGED <<now, present, active, left, daemon, closing>>

\* wake_lock_deinit: wake_unlock, whose result is ignored, ...
DeinitUnlock(l) ==
  /\ Calling("task", "deinit", l)
  /\ Unlock(l)
  /\ closing' = [closing EXCEPT ![l] = "unlocked"]
  /\ UNCHANGED <<now, present, active, left, daemon>>

\* ... xTimerDelete, which may wait for the queue in vain, ...
DeinitDelete(l) ==
  /\ closing[l] = "unlocked"
  /\ Post(Cmd("delete", l, 0))
  /\ closing' = [closing EXCEPT ![l] = "deleted"]
  /\ UNCHANGED <<now, listed, expired, present, active, left, daemon, promise, excuse>>

\* ... and lock->xTimer = NULL.
DeinitForget(l) ==
  /\ closing[l] = "deleted"
  /\ present' = [present EXCEPT ![l] = FALSE]
  /\ closing' = [closing EXCEPT ![l] = "closed"]
  /\ UNCHANGED <<now, listed, expired, active, left, queue, daemon, promise, excuse>>

----------------------------------------------------------------------------
(* The timer task and the tick of FreeRTOS.                                *)

\* The timer task takes all commands before it looks at the time - but for a
\* time that has wrapped, which it finds while it takes them.  A call may still
\* come between this look and the next step.
TimerLooks ==
  /\ daemon = None /\ (queue = <<>> \/ now >= TickMod)
  /\ \E l \in Locks : Due(l)
  /\ daemon' = Looking
  /\ UNCHANGED <<now, listed, expired, present, active, left, queue, closing,
                 promise, excuse>>

\* An expired one-shot timer becomes inactive before its callback runs.
TimerExpires(l) ==
  /\ daemon = Looking
  /\ Due(l)
  /\ active' = [active EXCEPT ![l] = FALSE]
  /\ daemon' = l
  /\ UNCHANGED <<now, listed, expired, present, left, queue, closing, promise, excuse>>

\* wake_unlock_timer_callback; the callers did not ask for the release.
TimerCallback ==
  /\ daemon \in Locks
  /\ Release(daemon)
  /\ daemon' = None
  /\ UNCHANGED <<now, present, active, left, closing, promise, excuse>>

\* The timer task takes a command; a new period starts when it is taken.
TimerCommand ==
  /\ daemon = None
  /\ queue # <<>>
  /\ LET c == Head(queue) IN
     /\ active' = CASE c.cmd = "period" -> [active EXCEPT ![c.lock] = TRUE]
                    [] c.cmd \in {"stop", "delete"} -> [active EXCEPT ![c.lock] = FALSE]
                    [] OTHER -> active
     /\ left' = IF c.cmd = "period" THEN [left EXCEPT ![c.lock] = c.period] ELSE left
  /\ queue' = Tail(queue)
  /\ UNCHANGED <<now, listed, expired, present, daemon, closing, promise, excuse>>

\* Another software timer is started or stopped.
OtherCommand ==
  /\ Others
  /\ ~Full
  /\ \E l \in Locks : queue' = Append(queue, Cmd("other", l, 0))
  /\ UNCHANGED <<now, listed, expired, present, active, left, daemon, closing,
                 promise, excuse>>

Less(n) == IF n = 0 THEN 0 ELSE n - 1

TickInterrupt ==
  /\ now < MaxTick
  /\ now' = now + 1
  /\ left' = [l \in Locks |-> IF active[l] THEN Less(left[l]) ELSE left[l]]
  /\ promise' = [l \in Locks |->
       IF promise[l] = Forever THEN Forever ELSE Less(promise[l])]
  /\ excuse' = [l \in Locks |->
       IF Mine(l) # {} /\ promise[l] # 0 THEN excuse[l] \union {"delayed"}
       ELSE excuse[l]]
  /\ UNCHANGED <<listed, expired, present, active, queue, daemon, closing>>

Call(l) ==
  \/ WakeLock(l) \/ WakeLockFromISR(l)
  \/ \E p \in Periods : WakeLockTimeout(l, p) \/ WakeLockTimeoutFromISR(l, p)
  \/ WakeUnlock(l) \/ WakeUnlockFromISR(l)
  \/ DeinitUnlock(l) \/ DeinitDelete(l) \/ DeinitForget(l)

Next ==
  \/ \E l \in Locks : Call(l) \/ TimerExpires(l)
  \/ TimerLooks \/ TimerCallback \/ TimerCommand
  \/ OtherCommand
  \/ TickInterrupt

Spec == Init /\ [][Next]_vars

----------------------------------------------------------------------------
TypeOK ==
  /\ now \in 0..MaxTick
  /\ listed \subseteq Locks
  /\ expired \in [Locks -> 0 .. TickMod - 1]
  /\ present \in [Locks -> BOOLEAN]
  /\ active \in [Locks -> BOOLEAN]
  /\ left \in [Locks -> Nat]
  /\ queue \in Seq(Commands) /\ Len(queue) <= QueueLen
  /\ daemon \in Locks \union {None, Looking}
  /\ closing \in [Locks -> {"open", "unlocked", "deleted", "closed"}]
  /\ promise \in [Locks -> Nat \union {Forever}]
  /\ excuse \in [Locks -> SUBSET Excuses]

(* "To hold wakelock at specific time": a lock is in the list for as long  *)
(* as its callers asked, whatever locks, timeouts and unlocks follow one   *)
(* another (wake_lock_interval, wake_unlock and the timer callback).       *)
HeldWhilePromised ==
  \A l \in Locks : promise[l] # 0 => l \in listed

(* So it is in the list for that long when each call found the timer task  *)
(* done with the calls before it, no tick came before it took the command, *)
(* the command was not refused and the tick count does not wrap before the *)
(* expiry: a stop, a new period or an expiry never takes the hold of a     *)
(* later call.                                                             *)
HeldWhenSettled ==
  \A l \in Locks :
    promise[l] # 0 /\ excuse[l] \subseteq {"unlimited"} => l \in listed

Plain(l) == excuse[l] \subseteq {"unlimited"}

(* The inductive form of HeldWhenSettled.  A plain lock has no callback    *)
(* due while it is promised; its expiry covers what is promised; and its   *)
(* timer, as it runs and as the commands on their way will set it, ends no *)
(* earlier than the expiry, and never while the lock is held without       *)
(* limit.                                                                  *)
Covered(l) ==
  /\ promise[l] # 0 => l \in listed /\ daemon # l
  /\ promise[l] \notin {0, Forever} => now + promise[l] <= expired[l]
NoneSooner(l) ==
  /\ promise[l] = Forever =>
       /\ active[l] => Mine(l) # {}
       /\ \A n \in Mine(l) : queue[n].cmd # "period"
  /\ expired[l] > now =>
       /\ active[l] /\ Mine(l) = {} => now + left[l] >= expired[l]
       /\ \A n \in Mine(l) : queue[n].cmd = "period" => now + queue[n].period >= expired[l]
  /\ promise[l] # 0 /\ active[l] /\ Mine(l) # {} => left[l] > 0
HoldInv == \A l \in Locks : Plain(l) => Covered(l) /\ NoneSooner(l)

\* What the timer of l will do: the last command decides.
WillRun(l) ==
  \/ Mine(l) = {} /\ active[l]
  \/ \E n \in Mine(l) : queue[n].cmd = "period" /\ \A k \in Mine(l) : k <= n

\* An open lock whose calls had nothing that leaves it without a timer.
Timed(l) == closing[l] = "open" /\ excuse[l] \subseteq {"hasty", "delayed", "late"}

(* wake_lock_timeout "to release the wakelock after a delay": a lock that  *)
(* is held for a time has a timer that will release it, however hasty the  *)
(* callers are, if no command was refused, wake_lock did not stop the      *)
(* timer and the expiry is not at tick 0.  (A wake_lock_deinit that cannot *)
(* stop the timer deletes it all the same.)                                *)
TimedArmed ==
  \A l \in listed : Timed(l) => WillRun(l) \/ daemon = l

(* The inductive form of TimedArmed: the same holds while an expiry is     *)
(* stored, because a call that is not longer relies on the timer that this *)
(* expiry stands for.                                                      *)
ArmedInv ==
  \A l \in Locks :
    Timed(l) /\ (l \in listed \/ expired[l] # 0) => WillRun(l) \/ daemon = l

(* An expiry releases its lock even when the command queue is full: no     *)
(* caller can restart the timer between the expiry and the callback, so    *)
(* wake_unlock has nothing to stop and cannot fail.                        *)
ExpiryReleases ==
  [][(daemon \in Locks /\ daemon' = None) => daemon \notin listed']_vars
=============================================================================
