-------------------------- MODULE TimerTaskProofs --------------------------
(***************************************************************************)
(* Proofs about what leaves work to the timer task:                        *)
(*                                                                         *)
(*   Wakelock, for every set of locks, queue length and calls: an expiry   *)
(*   always releases its lock, a lock is held for as long as settled calls *)
(*   asked, and a lock held for a time has a timer that will release it;   *)
(*   Logger, for every size of the rings and of the queue of the timer     *)
(*   task: logging never comes to a halt for good, the AP reads the log in *)
(*   order, and nothing is dropped without need.                           *)
(***************************************************************************)
EXTENDS Wakelock, Logger, TLAPS

(* While a callback is due its timer does not run: only the timer task     *)
(* starts timers, and it is busy.                                          *)
CallbackOneShot == daemon \in Locks => ~active[daemon]

Inv == TypeOK /\ CallbackOneShot

(* Posting a command keeps the type and the bound of the queue.            *)
LEMMA PostTyped ==
  ASSUME queue \in Seq(Commands), Len(queue) <= QueueLen,
         NEW c \in Commands,
         \/ queue' = queue
         \/ ~Full /\ queue' = Append(queue, c)
  PROVE  queue' \in Seq(Commands) /\ Len(queue') <= QueueLen
  BY BoundAssumption DEF Full

(* What the callers can post is a command.                                 *)
LEMMA CmdTyped ==
  ASSUME NEW l \in Locks, NEW p \in Periods,
         NEW c \in {"stop", "delete", "other"}
  PROVE  Cmd(c, l, 0) \in Commands /\ Cmd("period", l, p) \in Commands
  BY DEF Cmd, Commands

(* The fields of a command.                                                *)
LEMMA CommandFields ==
  ASSUME NEW c \in Commands
  PROVE  c.lock \in Locks /\ c.period \in Nat
<1>1. \A p \in Periods \union {0} : p \in Nat
  BY BoundAssumption
<1> QED BY <1>1 DEF Commands

(* A sum of ticks is a TickType_t again.                                   *)
LEMMA TickTyped ==
  ASSUME now \in Nat, NEW p \in Periods
  PROVE  (Tick + p) % TickMod \in 0 .. TickMod - 1
<1>1. Tick \in 0 .. TickMod - 1
  BY BoundAssumption DEF Tick
<1> QED BY <1>1, BoundAssumption

(* What a call notes is an excuse.                                         *)
LEMMA NoteTyped ==
  ASSUME TypeOK, NEW l \in Locks, NEW S \in SUBSET Excuses, Note(l, S)
  PROVE  excuse' \in [Locks -> SUBSET Excuses]
<1> DEFINE E == excuse[l] \union S \union IF Settled(l) THEN {} ELSE {"hasty"}
<1>1. E \subseteq Excuses
  BY DEF TypeOK, Excuses
<1>2. excuse' = [excuse EXCEPT ![l] = E]
  BY DEF Note, TypeOK
<1> HIDE DEF E
<1> QED BY <1>1, <1>2 DEF TypeOK

(* All that the calls note.                                                *)
LEMMA ExcusesTyped ==
  ASSUME NEW p \in Periods
  PROVE  /\ {"unlimited"} \in SUBSET Excuses
         /\ Refused \in SUBSET Excuses
         /\ Refused \union {"unlimited"} \in SUBSET Excuses
         /\ Late(p) \in SUBSET Excuses
         /\ Late(p) \union Refused \in SUBSET Excuses
  BY DEF Refused, Late, Excuses

(* Forgiving, or not, what was promised and noted keeps the types of both. *)
LEMMA ForgiveTyped ==
  ASSUME TypeOK, NEW l \in Locks, Forgive(l) \/ UNCHANGED <<promise, excuse>>
  PROVE  /\ promise' \in [Locks -> Nat \union {Forever}]
         /\ excuse' \in [Locks -> SUBSET Excuses]
<1>1. CASE Forgive(l)
  <2>1. promise' \in [Locks -> Nat \union {Forever}]
    BY <1>1 DEF TypeOK, Forgive
  <2>2. excuse' \in [Locks -> SUBSET Excuses]
    BY <1>1 DEF TypeOK, Forgive
  <2> QED BY <2>1, <2>2
<1>2. CASE UNCHANGED <<promise, excuse>>
  BY <1>2 DEF TypeOK
<1> QED BY <1>1, <1>2

(* The body of wake_unlock keeps the types of what it changes.             *)
LEMMA ReleaseTyped ==
  ASSUME TypeOK, NEW l \in Locks, Release(l)
  PROVE  /\ queue' \in Seq(Commands) /\ Len(queue') <= QueueLen
         /\ listed' \subseteq Locks
         /\ expired' \in [Locks -> 0 .. TickMod - 1]
<1> USE DEF TypeOK, Release
<1>1. Cmd("stop", l, 0) \in Commands
  BY DEF Cmd, Commands
<1>2. queue' = queue \/ (~Full /\ queue' = Append(queue, Cmd("stop", l, 0)))
  OBVIOUS
<1>3. queue' \in Seq(Commands) /\ Len(queue') <= QueueLen
  BY <1>1, <1>2, PostTyped
<1>4. 0 \in 0 .. TickMod - 1
  BY BoundAssumption
<1>5. expired' = expired \/ expired' = [expired EXCEPT ![l] = 0]
  OBVIOUS
<1>6. expired' \in [Locks -> 0 .. TickMod - 1]
  BY <1>4, <1>5
<1> QED BY <1>3, <1>6

(* A call keeps the invariant.                                             *)
LEMMA CallStep ==
  ASSUME Inv, NEW l \in Locks, Call(l)
  PROVE  Inv'
<1> USE DEF Inv, TypeOK, CallbackOneShot
<1>1. CASE WakeLock(l)
  <2>1. queue' \in Seq(Commands) /\ Len(queue') <= QueueLen
    <3>1. Cmd("stop", l, 0) \in Commands
      BY DEF Cmd, Commands
    <3>2. queue' = queue \/ (~Full /\ queue' = Append(queue, Cmd("stop", l, 0)))
      BY <1>1 DEF WakeLock
    <3> QED BY <3>1, <3>2, PostTyped
  <2>2. excuse' \in [Locks -> SUBSET Excuses]
    <3>1. {"unlimited"} \in SUBSET Excuses
      BY DEF Excuses
    <3> QED BY <1>1, <3>1, NoteTyped DEF WakeLock
  <2> QED BY <1>1, <2>1, <2>2 DEF WakeLock
<1>2. CASE WakeLockFromISR(l)
  <2>1. queue' \in Seq(Commands) /\ Len(queue') <= QueueLen
    <3>1. Cmd("stop", l, 0) \in Commands
      BY DEF Cmd, Commands
    <3> QED BY <1>2, <3>1, PostTyped DEF WakeLockFromISR, Post
  <2>2. excuse' \in [Locks -> SUBSET Excuses]
    <3>1. Refused \union {"unlimited"} \in SUBSET Excuses
      BY DEF Refused, Excuses
    <3> QED BY <1>2, <3>1, NoteTyped DEF WakeLockFromISR
  <2> QED BY <1>2, <2>1, <2>2 DEF WakeLockFromISR
<1>3. ASSUME NEW p \in Periods, WakeLockTimeout(l, p) PROVE Inv'
  <2>1. queue' \in Seq(Commands) /\ Len(queue') <= QueueLen
    BY <1>3, CmdTyped, PostTyped DEF WakeLockTimeout
  <2>2. expired' \in [Locks -> 0 .. TickMod - 1]
    BY <1>3, TickTyped, SMTT(30) DEF WakeLockTimeout
  <2>3. promise' \in [Locks -> Nat \union {Forever}]
    BY <1>3, BoundAssumption DEF WakeLockTimeout, Wanted
  <2>4. excuse' \in [Locks -> SUBSET Excuses]
    BY <1>3, ExcusesTyped, NoteTyped DEF WakeLockTimeout
  <2> QED BY <1>3, <2>1, <2>2, <2>3, <2>4 DEF WakeLockTimeout
<1>4. ASSUME NEW p \in Periods, WakeLockTimeoutFromISR(l, p) PROVE Inv'
  <2>1. queue' \in Seq(Commands) /\ Len(queue') <= QueueLen
    BY <1>4, CmdTyped, PostTyped DEF WakeLockTimeoutFromISR, Post
  <2>2. expired' \in [Locks -> 0 .. TickMod - 1]
    <3>1. (Tick + p) % TickMod \in 0 .. TickMod - 1
      BY TickTyped
    <3>2. expired' = expired \/ expired' = [expired EXCEPT ![l] = (Tick + p) % TickMod]
      BY <1>4 DEF WakeLockTimeoutFromISR
    <3> QED BY <3>1, <3>2
  <2>3. promise' \in [Locks -> Nat \union {Forever}]
    BY <1>4, BoundAssumption DEF WakeLockTimeoutFromISR, Wanted
  <2>4. excuse' \in [Locks -> SUBSET Excuses]
    BY <1>4, ExcusesTyped, NoteTyped DEF WakeLockTimeoutFromISR
  <2> QED BY <1>4, <2>1, <2>2, <2>3, <2>4 DEF WakeLockTimeoutFromISR
<1>5. CASE WakeUnlock(l)
  <2>1. /\ promise' \in [Locks -> Nat \union {Forever}]
        /\ excuse' \in [Locks -> SUBSET Excuses]
    BY <1>5, ForgiveTyped DEF WakeUnlock, Unlock
  <2> QED BY <1>5, <2>1, ReleaseTyped DEF WakeUnlock, Unlock
<1>6. CASE WakeUnlockFromISR(l)
  <2>1. queue' \in Seq(Commands) /\ Len(queue') <= QueueLen
    <3>1. Cmd("stop", l, 0) \in Commands
      BY DEF Cmd, Commands
    <3> QED BY <1>6, <3>1, PostTyped DEF WakeUnlockFromISR, Post
  <2>2. expired' \in [Locks -> 0 .. TickMod - 1]
    BY <1>6, BoundAssumption DEF WakeUnlockFromISR
  <2>3. /\ promise' \in [Locks -> Nat \union {Forever}]
        /\ excuse' \in [Locks -> SUBSET Excuses]
    BY <1>6, ForgiveTyped DEF WakeUnlockFromISR
  <2> QED BY <1>6, <2>1, <2>2, <2>3 DEF WakeUnlockFromISR
<1>7. CASE DeinitUnlock(l)
  <2>1. /\ promise' \in [Locks -> Nat \union {Forever}]
        /\ excuse' \in [Locks -> SUBSET Excuses]
    BY <1>7, ForgiveTyped DEF DeinitUnlock, Unlock
  <2> QED BY <1>7, <2>1, ReleaseTyped DEF DeinitUnlock, Unlock
<1>8. CASE DeinitDelete(l)
  <2>1. queue' \in Seq(Commands) /\ Len(queue') <= QueueLen
    <3>1. Cmd("delete", l, 0) \in Commands
      BY DEF Cmd, Commands
    <3> QED BY <1>8, <3>1, PostTyped DEF DeinitDelete, Post
  <2> QED BY <1>8, <2>1 DEF DeinitDelete
<1>9. CASE DeinitForget(l)
  BY <1>9 DEF DeinitForget
<1> QED
  BY <1>1, <1>2, <1>3, <1>4, <1>5, <1>6, <1>7, <1>8, <1>9 DEF Call

(* Types and the one-shot timers, in every reachable state.                *)
THEOREM TypesAndTimers == Spec => []Inv
<1>1. Init => Inv
  BY BoundAssumption, MarkAssumption DEF Init, Inv, TypeOK, CallbackOneShot
<1>2. Inv /\ [Next]_vars => Inv'
  <2> SUFFICES ASSUME Inv, [Next]_vars PROVE Inv'
    OBVIOUS
  <2> USE DEF Inv, TypeOK, CallbackOneShot
  <2>1. ASSUME NEW l \in Locks, TimerExpires(l) PROVE Inv'
    BY <2>1, MarkAssumption DEF TimerExpires
  <2>2. CASE TimerCallback
    BY <2>2, ReleaseTyped, MarkAssumption DEF TimerCallback
  <2>3. CASE TimerCommand
    <3> DEFINE c == Head(queue)
    <3>1. c \in Commands /\ queue' \in Seq(Commands) /\ Len(queue') <= QueueLen
      BY <2>3, BoundAssumption DEF TimerCommand
    <3> HIDE DEF c
    <3>2. c.lock \in Locks /\ c.period \in Nat
      BY <3>1, CommandFields
    <3>3. active' \in [Locks -> BOOLEAN] /\ left' \in [Locks -> Nat]
      BY <2>3, <3>2 DEF TimerCommand, c
    <3> QED BY <2>3, <3>1, <3>3, MarkAssumption DEF TimerCommand
  <2>4. CASE OtherCommand
    <3>1. queue' \in Seq(Commands) /\ Len(queue') <= QueueLen
      <4> PICK l \in Locks : ~Full /\ queue' = Append(queue, Cmd("other", l, 0))
        BY <2>4 DEF OtherCommand
      <4>1. Cmd("other", l, 0) \in Commands
        BY DEF Cmd, Commands
      <4> QED BY <4>1, PostTyped
    <3> QED BY <2>4, <3>1 DEF OtherCommand
  <2>5. CASE TickInterrupt
    <3>1. left' \in [Locks -> Nat] /\ promise' \in [Locks -> Nat \union {Forever}]
      BY <2>5 DEF TickInterrupt, Less
    <3>2. excuse' \in [Locks -> SUBSET Excuses]
      BY <2>5 DEF TickInterrupt, Excuses
    <3>3. now' \in 0 .. MaxTick
      BY <2>5, BoundAssumption DEF TickInterrupt
    <3>4. UNCHANGED <<listed, expired, present, active, queue, daemon, closing>>
      BY <2>5 DEF TickInterrupt
    <3> QED BY <3>1, <3>2, <3>3, <3>4
  <2>6. CASE TimerLooks
    BY <2>6, MarkAssumption DEF TimerLooks
  <2>7. CASE UNCHANGED vars
    BY <2>7 DEF vars
  <2> QED
    BY <2>1, <2>2, <2>3, <2>4, <2>5, <2>6, <2>7, CallStep DEF Next
<1> QED BY <1>1, <1>2, PTL DEF Spec

(* Every variable keeps its type.                                          *)
THEOREM TypeCorrect == Spec => []TypeOK
<1>1. Inv => TypeOK
  BY DEF Inv
<1> QED BY <1>1, TypesAndTimers, PTL

(* An expiry releases its lock, whatever the queue of the timer task holds.*)
THEOREM ExpiryReleasesHolds == Spec => ExpiryReleases
<1>1. Inv /\ [Next]_vars =>
        [(daemon \in Locks /\ daemon' = None) => daemon \notin listed']_vars
  <2> SUFFICES ASSUME Inv, Next, daemon \in Locks, daemon' = None
               PROVE  daemon \notin listed'
    OBVIOUS
  <2>1. CASE TimerCallback
    BY <2>1 DEF TimerCallback, Release, Inv, CallbackOneShot
  <2>2. CASE ~TimerCallback
    BY <2>2, MarkAssumption DEF Next, Call, WakeLock, WakeLockFromISR, WakeLockTimeout,
       WakeLockTimeoutFromISR, WakeUnlock, WakeUnlockFromISR, DeinitUnlock,
       DeinitDelete, DeinitForget, TimerExpires, TimerLooks, TimerCommand, OtherCommand,
       TickInterrupt
  <2> QED BY <2>1, <2>2
<1> QED BY <1>1, TypesAndTimers, PTL DEF Spec, ExpiryReleases

----------------------------------------------------------------------------
(* The hold of a lock and the timer that will release it.                  *)

HoldAt(l) == Plain(l) => Covered(l) /\ NoneSooner(l)
ArmedAt(l) ==
  Timed(l) /\ (l \in listed \/ expired[l] # 0) => WillRun(l) \/ daemon = l

\* The step leaves k, and the commands that are about k, as they are.
Same(k) ==
  /\ now' = now
  /\ k \in listed' <=> k \in listed
  /\ daemon' = k <=> daemon = k
  /\ expired'[k] = expired[k] /\ active'[k] = active[k] /\ left'[k] = left[k]
  /\ promise'[k] = promise[k] /\ excuse'[k] = excuse[k] /\ closing'[k] = closing[k]
  /\ Mine(k)' = Mine(k)
  /\ \A n \in Mine(k) : queue'[n] = queue[n]

(* Such a step keeps what is claimed of k.                                 *)
LEMMA SameKeeps ==
  ASSUME NEW k \in Locks, HoldAt(k), ArmedAt(k), Same(k)
  PROVE  HoldAt(k)' /\ ArmedAt(k)'
<1>1. Plain(k)' = Plain(k) /\ Timed(k)' = Timed(k)
  BY DEF Same, Plain, Timed
<1>2. HoldAt(k)'
  BY <1>1 DEF HoldAt, Same, Covered, NoneSooner
<1>3. ArmedAt(k)'
  BY <1>1 DEF ArmedAt, Same, WillRun
<1> QED BY <1>2, <1>3

(* A command goes behind those that are waiting, and to one lock only.     *)
LEMMA Posted ==
  ASSUME queue \in Seq(Commands), NEW c \in Commands, NEW k \in Locks,
         queue' = Append(queue, c)
  PROVE  /\ Mine(k)' = IF c.cmd # "other" /\ c.lock = k
                       THEN Mine(k) \union {Len(queue) + 1} ELSE Mine(k)
         /\ \A n \in Mine(k) : queue'[n] = queue[n] /\ n \in Nat /\ n <= Len(queue)
         /\ queue'[Len(queue) + 1] = c
<1>1. /\ Len(queue') = Len(queue) + 1 /\ Len(queue) \in Nat
      /\ \A n \in 1 .. Len(queue) : queue'[n] = queue[n]
      /\ queue'[Len(queue) + 1] = c
      /\ DOMAIN queue = 1 .. Len(queue) /\ DOMAIN queue' = 1 .. Len(queue) + 1
  OBVIOUS
<1>2. Mine(k) = {n \in 1 .. Len(queue) : queue[n].cmd # "other" /\ queue[n].lock = k}
  BY <1>1 DEF Mine
<1>3. Mine(k)' = {n \in 1 .. Len(queue) + 1 : queue'[n].cmd # "other" /\ queue'[n].lock = k}
  BY <1>1 DEF Mine
<1>4. \A n \in 1 .. Len(queue) + 1 : n \in 1 .. Len(queue) \/ n = Len(queue) + 1
  BY <1>1
<1> HIDE DEF Commands
<1>5. \A n : n \in Mine(k)' <=> n \in Mine(k) \/ (c.cmd # "other" /\ c.lock = k /\ n = Len(queue) + 1)
  BY <1>1, <1>2, <1>3, <1>4
<1> QED BY <1>1, <1>2, <1>5

(* When the timer task takes a command the others move up.                 *)
LEMMA Taken ==
  ASSUME queue \in Seq(Commands), queue # <<>>, queue' = Tail(queue), NEW k \in Locks
  PROVE  /\ \A n \in Mine(k)' : n \in Nat \ {0} /\ n + 1 \in Mine(k) /\ queue'[n] = queue[n + 1]
         /\ \A n \in Mine(k) : n \in Nat /\ (n = 1 \/ n - 1 \in Mine(k)')
         /\ 1 \in Mine(k) <=> Head(queue).cmd # "other" /\ Head(queue).lock = k
<1>1. /\ Len(queue) \in Nat \ {0} /\ DOMAIN queue = 1 .. Len(queue)
      /\ DOMAIN queue' = 1 .. Len(queue) - 1
      /\ \A n \in 1 .. Len(queue) - 1 : queue'[n] = queue[n + 1]
      /\ Head(queue) = queue[1]
  OBVIOUS
<1>2. \A n : n \in Mine(k) <=> n \in 1 .. Len(queue) /\ queue[n].cmd # "other" /\ queue[n].lock = k
  BY <1>1 DEF Mine
<1>3. \A n : n \in Mine(k)' <=>
             n \in 1 .. Len(queue) - 1 /\ queue'[n].cmd # "other" /\ queue'[n].lock = k
  BY <1>1 DEF Mine
<1>4. ASSUME NEW n \in Mine(k)'
      PROVE  n \in Nat \ {0} /\ n + 1 \in Mine(k) /\ queue'[n] = queue[n + 1]
  BY <1>1, <1>2, <1>3
<1>5. ASSUME NEW n \in Mine(k)
      PROVE  n \in Nat /\ (n = 1 \/ n - 1 \in Mine(k)')
  <2>1. n \in Nat /\ (n = 1 \/ (n - 1 \in 1 .. Len(queue) - 1 /\ n - 1 + 1 = n))
    BY <1>1, <1>2
  <2> QED BY <1>1, <1>2, <1>3, <2>1
<1>6. 1 \in Mine(k) <=> Head(queue).cmd # "other" /\ Head(queue).lock = k
  BY <1>1, <1>2
<1> QED BY <1>4, <1>5, <1>6

(* A call leaves the other locks alone.                                    *)
LEMMA OtherLocks ==
  ASSUME TypeOK, NEW l \in Locks, NEW k \in Locks, k # l, NEW c \in Commands,
         c.cmd # "other" => c.lock = l,
         queue' = queue \/ queue' = Append(queue, c)
  PROVE  Mine(k)' = Mine(k) /\ \A n \in Mine(k) : queue'[n] = queue[n]
<1>1. CASE queue' = queue
  BY <1>1 DEF Mine
<1>2. CASE queue' = Append(queue, c)
  BY <1>2, Posted DEF TypeOK
<1> QED BY <1>1, <1>2

(* So a call on one lock leaves every other lock as it is.                 *)
LEMMA CallOthers ==
  ASSUME TypeOK, NEW l \in Locks, NEW k \in Locks, k # l, Call(l)
  PROVE  Same(k)
<1>1. \A c \in {"stop", "delete", "other"} : Cmd(c, l, 0) \in Commands /\ Cmd(c, l, 0).lock = l
  BY DEF Cmd, Commands
<1>2. \A p \in Periods : Cmd("period", l, p) \in Commands /\ Cmd("period", l, p).lock = l
  BY DEF Cmd, Commands
<1>3. \/ queue' = queue
      \/ \E c \in Commands : c.lock = l /\ queue' = Append(queue, c)
  <2>1. \/ queue' = queue
        \/ \E c \in {"stop", "delete", "other"} : queue' = Append(queue, Cmd(c, l, 0))
        \/ \E p \in Periods : queue' = Append(queue, Cmd("period", l, p))
    BY DEF Call, WakeLock, WakeLockFromISR, WakeLockTimeout, WakeLockTimeoutFromISR,
       WakeUnlock, WakeUnlockFromISR, DeinitUnlock, DeinitDelete, DeinitForget,
       Unlock, Release, Post
  <2> QED BY <1>1, <1>2, <2>1
<1>4. Mine(k)' = Mine(k) /\ \A n \in Mine(k) : queue'[n] = queue[n]
  <2>1. CASE queue' = queue
    BY <2>1 DEF Mine
  <2> QED BY <1>3, <2>1, OtherLocks
<1>5. excuse'[k] = excuse[k] /\ promise'[k] = promise[k]
  BY DEF Call, WakeLock, WakeLockFromISR, WakeLockTimeout, WakeLockTimeoutFromISR,
     WakeUnlock, WakeUnlockFromISR, DeinitUnlock, DeinitDelete, DeinitForget,
     Unlock, Forgive, Note, TypeOK
<1>6. /\ now' = now /\ daemon' = daemon /\ active' = active /\ left' = left
      /\ (k \in listed' <=> k \in listed)
      /\ expired'[k] = expired[k] /\ closing'[k] = closing[k]
  BY DEF Call, WakeLock, WakeLockFromISR, WakeLockTimeout, WakeLockTimeoutFromISR,
     WakeUnlock, WakeUnlockFromISR, DeinitUnlock, DeinitDelete, DeinitForget,
     Unlock, Release, TypeOK
<1> QED BY <1>4, <1>5, <1>6 DEF Same

(* A call that is noted leaves a lock plain only if it was, and settled.   *)
LEMMA Noted ==
  ASSUME TypeOK, NEW l \in Locks, NEW S, Note(l, S)
  PROVE  /\ Plain(l)' => Plain(l) /\ S \subseteq {"unlimited"} /\ Settled(l)
         /\ closing' = closing /\ Timed(l)' =>
              Timed(l) /\ S \subseteq {"hasty", "delayed", "late"}
<1>1. excuse'[l] = excuse[l] \union S \union IF Settled(l) THEN {} ELSE {"hasty"}
  BY DEF Note, TypeOK
<1>2. Plain(l)' => Plain(l) /\ S \subseteq {"unlimited"} /\ Settled(l)
  <2>1. "hasty" \notin {"unlimited"}
    OBVIOUS
  <2> QED BY <1>1, <2>1 DEF Plain
<1>3. closing' = closing /\ Timed(l)' => Timed(l) /\ S \subseteq {"hasty", "delayed", "late"}
  BY <1>1 DEF Timed
<1> QED BY <1>2, <1>3

(* A settled lock that its own call is about to change.                    *)
LEMMA SettledFacts ==
  ASSUME TypeOK, NEW l \in Locks, Settled(l)
  PROVE  Mine(l) = {} /\ daemon # l /\ (active[l] => left[l] > 0) /\ left[l] \in Nat
  BY DEF Settled, Due, TypeOK

(* wake_lock: no command that starts the timer is on its way.              *)
LEMMA LockHold ==
  ASSUME TypeOK, NEW l \in Locks, HoldAt(l), ArmedAt(l),
         WakeLock(l) \/ WakeLockFromISR(l)
  PROVE  HoldAt(l)' /\ ArmedAt(l)'
<1>1. CASE UNCHANGED <<now, listed, expired, active, left, queue, daemon, closing, promise, excuse>>
  <2>1. Same(l)
    BY <1>1 DEF Same, Mine
  <2> QED BY <2>1, SameKeeps
<1>2. ASSUME NEW S \in {{"unlimited"}, Refused \union {"unlimited"}}, Note(l, S),
             listed' = listed \union {l}, promise'[l] = Forever,
             \/ queue' = queue /\ (~active[l] \/ (Refused \subseteq S /\ Full))
             \/ queue' = Append(queue, Cmd("stop", l, 0)),
             UNCHANGED <<now, expired, active, left, daemon, closing>>
      PROVE  HoldAt(l)' /\ ArmedAt(l)'
  <2>1. "unlimited" \in S
    OBVIOUS
  <2>2. ~Timed(l)'
    BY <1>2, <2>1, Noted
  <2>3. ASSUME Plain(l)'
        PROVE  Covered(l)' /\ NoneSooner(l)'
    <3>1. /\ Settled(l) /\ S \subseteq {"unlimited"}
          /\ Mine(l) = {} /\ daemon # l /\ (active[l] => left[l] > 0)
      BY <1>2, <2>3, Noted, SettledFacts
    <3>2. Covered(l)'
      BY <1>2, <3>1 DEF Covered
    <3>3. CASE queue' = queue /\ ~active[l]
      <4>1. Mine(l)' = {}
        BY <3>1, <3>3 DEF Mine
      <4>2. ~active'[l]
        BY <1>2, <3>3
      <4> QED BY <3>2, <4>1, <4>2 DEF NoneSooner
    <3>4. CASE queue' = Append(queue, Cmd("stop", l, 0))
      <4>1. Cmd("stop", l, 0) \in Commands /\ Cmd("stop", l, 0).cmd = "stop"
            /\ Cmd("stop", l, 0).lock = l
        BY DEF Cmd, Commands
      <4>2. Mine(l)' = {Len(queue) + 1} /\ queue'[Len(queue) + 1].cmd = "stop"
        BY <3>1, <3>4, <4>1, Posted DEF TypeOK
      <4>3. active'[l] => left'[l] > 0
        BY <1>2, <3>1
      <4>4. Mine(l)' # {} /\ \A n \in Mine(l)' : queue'[n].cmd # "period"
        BY <4>2
      <4> QED BY <3>2, <4>3, <4>4 DEF NoneSooner
    <3>5. ~(Refused \subseteq S /\ Full)
      BY <3>1 DEF Refused
    <3> QED BY <1>2, <3>2, <3>3, <3>4, <3>5
  <2> QED BY <2>2, <2>3 DEF HoldAt, ArmedAt
<1>3. ASSUME WakeLock(l), ~(active[l] /\ Full)
      PROVE  HoldAt(l)' /\ ArmedAt(l)'
  <2>1. /\ Note(l, {"unlimited"}) /\ listed' = listed \union {l}
        /\ queue' = IF active[l] THEN Append(queue, Cmd("stop", l, 0)) ELSE queue
        /\ promise' = [promise EXCEPT ![l] = Forever]
        /\ UNCHANGED <<now, expired, active, left, daemon, closing>>
    BY <1>3 DEF WakeLock
  <2>2. promise'[l] = Forever
    BY <2>1 DEF TypeOK
  <2>3. \/ queue' = queue /\ ~active[l]
        \/ queue' = Append(queue, Cmd("stop", l, 0))
    BY <2>1
  <2>4. {"unlimited"} \in {{"unlimited"}, Refused \union {"unlimited"}}
    OBVIOUS
  <2>5. UNCHANGED <<now, expired, active, left, daemon, closing>>
    BY <2>1
  <2>6. Note(l, {"unlimited"}) /\ listed' = listed \union {l}
    BY <2>1
  <2>7. \/ queue' = queue /\ (~active[l] \/ (Refused \subseteq {"unlimited"} /\ Full))
        \/ queue' = Append(queue, Cmd("stop", l, 0))
    BY <2>3
  <2> QED BY <1>2, <2>2, <2>4, <2>5, <2>6, <2>7, Zenon
<1>4. CASE WakeLockFromISR(l)
  <2>1. Full => Refused \subseteq Refused \union {"unlimited"} /\ queue' = queue
    BY <1>4 DEF WakeLockFromISR, Post
  <2>2. ~Full => queue' = Append(queue, Cmd("stop", l, 0))
    BY <1>4 DEF WakeLockFromISR, Post
  <2> QED BY <1>2, <1>4, <2>1, <2>2 DEF WakeLockFromISR, TypeOK
<1> QED BY <1>1, <1>3, <1>4 DEF WakeLock

(* wake_lock_timeout: either the stored expiry, and so the timer behind    *)
(* it, is late enough, or a command that sets the timer is on its way.     *)
LEMMA TimeoutHold ==
  ASSUME TypeOK, NEW l \in Locks, NEW p \in Periods, HoldAt(l), ArmedAt(l),
         WakeLockTimeout(l, p) \/ WakeLockTimeoutFromISR(l, p)
  PROVE  HoldAt(l)' /\ ArmedAt(l)'
<1> DEFINE new == (Tick + p) % TickMod
<1>0. /\ p \in Nat \ {0} /\ now \in Nat /\ expired[l] \in Nat /\ left[l] \in Nat
      /\ promise[l] \in Nat \union {Forever} /\ new \in Nat
      /\ queue \in Seq(Commands) /\ Len(queue) \in Nat
  BY BoundAssumption, TickTyped DEF TypeOK
<1>1. UNCHANGED <<now, active, left, daemon, closing>>
  BY DEF WakeLockTimeout, WakeLockTimeoutFromISR
<1>2. "late" \notin Late(p) => new = now + p
  <2>1. "late" \notin Late(p) => now + p < TickMod
    BY <1>0, BoundAssumption DEF Late
  <2>2. \A n \in Nat : n < TickMod => n % TickMod = n
    BY BoundAssumption
  <2>3. "late" \notin Late(p) => Tick = now
    BY <1>0, <2>1, <2>2, BoundAssumption DEF Tick
  <2>4. "late" \notin Late(p) => now + p \in Nat /\ (now + p) % TickMod = now + p
    BY <1>0, <2>1, <2>2
  <2> QED BY <2>3, <2>4
<1>3. "zero" \notin Late(p) => new # 0
  BY DEF Late
<1>4. {"refused"} \notin {{"unlimited"}, {"hasty", "delayed", "late"}}
  OBVIOUS
<1>5. CASE Full /\ new > expired[l]
  <2>1. PICK S : "refused" \in S /\ Note(l, S)
    BY <1>5 DEF WakeLockTimeout, WakeLockTimeoutFromISR, Refused
  <2>2. ~Plain(l)' /\ ~Timed(l)'
    BY <1>1, <2>1, Noted
  <2> QED BY <2>2 DEF HoldAt, ArmedAt
<1>6. CASE ~Full /\ new > expired[l]
  <2>1. PICK S : Note(l, S) /\ Late(p) \subseteq S
    BY <1>6 DEF WakeLockTimeout, WakeLockTimeoutFromISR
  <2>2. /\ listed' = listed \union {l} /\ expired'[l] = new
        /\ queue' = Append(queue, Cmd("period", l, p))
        /\ promise'[l] = Wanted(l, p)
    BY <1>6 DEF WakeLockTimeout, WakeLockTimeoutFromISR, Post, TypeOK
  <2>3. Cmd("period", l, p) \in Commands /\ Cmd("period", l, p).cmd = "period"
        /\ Cmd("period", l, p).lock = l /\ Cmd("period", l, p).period = p
    BY DEF Cmd, Commands
  <2>4. /\ Mine(l)' = Mine(l) \union {Len(queue) + 1}
        /\ \A n \in Mine(l) : n \in Nat /\ n <= Len(queue)
        /\ queue'[Len(queue) + 1] = Cmd("period", l, p)
    BY <1>0, <2>2, <2>3, Posted
  <2>5. ArmedAt(l)'
    <3>1. WillRun(l)'
      <4>1. \A k \in Mine(l)' : k <= Len(queue) + 1
        BY <1>0, <2>4
      <4> QED BY <2>3, <2>4, <4>1 DEF WillRun
    <3> QED BY <3>1 DEF ArmedAt
  <2>6. ASSUME Plain(l)'
        PROVE  Covered(l)' /\ NoneSooner(l)'
    <3>1. /\ Plain(l) /\ Settled(l) /\ S \subseteq {"unlimited"}
          /\ Mine(l) = {} /\ daemon # l /\ (active[l] => left[l] > 0)
      BY <2>1, <2>6, Noted, SettledFacts
    <3>2. new = now + p
      <4>1. "late" \notin {"unlimited"}
        OBVIOUS
      <4> QED BY <1>2, <2>1, <3>1, <4>1
    <3>3. promise'[l] = p
      <4>1. promise[l] \notin {0, Forever} => now + promise[l] <= expired[l]
        BY <3>1 DEF HoldAt, Covered
      <4> HIDE DEF new
      <4> QED BY <1>0, <1>6, <2>2, <3>2, <4>1 DEF Wanted
    <3> HIDE DEF new
    <3>4. Mine(l)' = {Len(queue) + 1} /\ queue'[Len(queue) + 1].period = p
      BY <2>3, <2>4, <3>1
    <3>5. p # Forever
      BY <1>0, MarkAssumption
    <3>6. Covered(l)'
      BY <1>0, <1>1, <2>2, <3>1, <3>2, <3>3 DEF Covered
    <3>7. NoneSooner(l)'
      BY <1>0, <1>1, <2>2, <3>1, <3>2, <3>3, <3>4, <3>5 DEF NoneSooner
    <3> QED BY <3>6, <3>7
  <2> QED BY <2>5, <2>6 DEF HoldAt
<1>7. CASE ~(new > expired[l])
  <2>1. /\ Note(l, Late(p)) /\ UNCHANGED <<expired, queue>>
        /\ listed' = listed \union {l} /\ promise'[l] = Wanted(l, p)
    BY <1>7 DEF WakeLockTimeout, WakeLockTimeoutFromISR, TypeOK
  <2>2. Mine(l)' = Mine(l)
    BY <2>1 DEF Mine
  <2>3. ArmedAt(l)'
    <3> SUFFICES ASSUME Timed(l)' PROVE WillRun(l)' \/ daemon' = l
      BY DEF ArmedAt
    <3>1. Timed(l) /\ new # 0
      <4>1. "zero" \notin {"hasty", "delayed", "late"}
        OBVIOUS
      <4> QED BY <1>1, <1>3, <2>1, <4>1, Noted
    <3> HIDE DEF new
    <3>2. expired[l] # 0
      BY <1>0, <1>7, <3>1
    <3> QED BY <1>1, <2>1, <2>2, <3>1, <3>2 DEF ArmedAt, WillRun
  <2>4. ASSUME Plain(l)'
        PROVE  Covered(l)' /\ NoneSooner(l)'
    <3>1. /\ Plain(l) /\ Settled(l) /\ Late(p) \subseteq {"unlimited"}
          /\ Mine(l) = {} /\ daemon # l /\ (active[l] => left[l] > 0)
      BY <2>1, <2>4, Noted, SettledFacts
    <3>2. new = now + p
      <4>1. "late" \notin {"unlimited"}
        OBVIOUS
      <4> QED BY <1>2, <3>1, <4>1
    <3> HIDE DEF new
    <3>3. Covered(l) /\ NoneSooner(l)
      BY <3>1 DEF HoldAt
    <3>4. promise'[l] \in Nat /\ promise'[l] # Forever /\ now + promise'[l] <= expired[l]
      BY <1>0, <1>7, <2>1, <3>2, <3>3, MarkAssumption DEF Wanted, Covered
    <3>5. Covered(l)'
      BY <1>1, <2>1, <3>1, <3>4 DEF Covered
    <3>6. NoneSooner(l)'
      BY <1>1, <2>1, <2>2, <3>1, <3>3, <3>4 DEF NoneSooner
    <3> QED BY <3>5, <3>6
  <2> QED BY <2>3, <2>4 DEF HoldAt
<1> QED BY <1>5, <1>6, <1>7

(* Of a lock that is given back nothing is claimed.                        *)
LEMMA GivenBack ==
  ASSUME TypeOK, NEW l \in Locks, now' = now, promise'[l] = 0, expired'[l] = 0,
         l \notin listed'
  PROVE  HoldAt(l)' /\ ArmedAt(l)'
<1>1. now' \in Nat /\ 0 # Forever
  BY BoundAssumption, MarkAssumption DEF TypeOK
<1>2. Covered(l)' /\ NoneSooner(l)'
  BY <1>1 DEF Covered, NoneSooner
<1>3. ArmedAt(l)'
  BY DEF ArmedAt
<1> QED BY <1>2, <1>3 DEF HoldAt

(* An unlock gives back the lock or, when the timer cannot be stopped,     *)
(* changes nothing.                                                        *)
LEMMA UnlockHold ==
  ASSUME TypeOK, NEW l \in Locks, HoldAt(l), ArmedAt(l),
         WakeUnlock(l) \/ WakeUnlockFromISR(l) \/ DeinitUnlock(l)
  PROVE  HoldAt(l)' /\ ArmedAt(l)'
<1>0. UNCHANGED <<now, active, left, daemon>>
  BY DEF WakeUnlock, WakeUnlockFromISR, DeinitUnlock
<1>1. CASE Forgive(l) /\ listed' = listed \ {l} /\ expired' = [expired EXCEPT ![l] = 0]
  <2>1. promise'[l] = 0 /\ expired'[l] = 0 /\ l \notin listed'
    BY <1>1 DEF Forgive, TypeOK
  <2> QED BY <1>0, <2>1, GivenBack
<1>2. CASE UNCHANGED <<queue, listed, expired, promise, excuse>>
  <2>1. HoldAt(l)'
    BY <1>0, <1>2 DEF HoldAt, Plain, Covered, NoneSooner, Mine
  <2>2. Timed(l)' => Timed(l)
    BY <1>2 DEF Timed, WakeUnlock, WakeUnlockFromISR, DeinitUnlock, TypeOK
  <2>3. ArmedAt(l)'
    BY <1>0, <1>2, <2>2 DEF ArmedAt, WillRun, Mine
  <2> QED BY <2>1, <2>3
<1>3. Unlock(l) =>
        \/ Forgive(l) /\ listed' = listed \ {l} /\ expired' = [expired EXCEPT ![l] = 0]
        \/ UNCHANGED <<queue, listed, expired, promise, excuse>>
  BY DEF Unlock, Release
<1> QED BY <1>1, <1>2, <1>3 DEF WakeUnlock, WakeUnlockFromISR, DeinitUnlock

(* The rest of wake_lock_deinit: nothing is claimed of the timer of a      *)
(* closed lock, and a delete does not start it.                            *)
LEMMA DeinitHold ==
  ASSUME TypeOK, NEW l \in Locks, HoldAt(l), DeinitDelete(l) \/ DeinitForget(l)
  PROVE  HoldAt(l)' /\ ArmedAt(l)'
<1>0. UNCHANGED <<now, listed, expired, active, left, daemon, promise, excuse>>
  BY DEF DeinitDelete, DeinitForget
<1>1. ArmedAt(l)'
  BY DEF ArmedAt, Timed, DeinitDelete, DeinitForget, TypeOK
<1>2. CASE queue' = queue
  BY <1>0, <1>1, <1>2 DEF HoldAt, Plain, Covered, NoneSooner, Mine
<1>3. CASE queue' = Append(queue, Cmd("delete", l, 0))
  <2>1. Cmd("delete", l, 0) \in Commands /\ Cmd("delete", l, 0).cmd = "delete"
        /\ Cmd("delete", l, 0).lock = l
    BY DEF Cmd, Commands
  <2>2. /\ Mine(l)' = Mine(l) \union {Len(queue) + 1}
        /\ \A n \in Mine(l) : queue'[n] = queue[n]
        /\ queue'[Len(queue) + 1].cmd = "delete"
    BY <1>3, <2>1, Posted DEF TypeOK
  <2>3. SUFFICES ASSUME Plain(l), Covered(l), NoneSooner(l)
                 PROVE  Covered(l)' /\ NoneSooner(l)'
    BY <1>0, <1>1 DEF HoldAt, Plain
  <2>4. Covered(l)'
    BY <1>0, <2>3 DEF Covered
  <2>5. promise[l] # 0 /\ active[l] => left[l] > 0
    <3>1. /\ now \in Nat /\ expired[l] \in Nat /\ left[l] \in Nat
          /\ promise[l] \in Nat \union {Forever}
      BY BoundAssumption DEF TypeOK
    <3> QED BY <2>3, <3>1 DEF Covered, NoneSooner
  <2>6. Mine(l)' # {}
    BY <2>2
  <2>7. ASSUME NEW n \in Mine(l)', queue'[n].cmd = "period"
        PROVE  n \in Mine(l) /\ queue'[n] = queue[n]
    BY <2>2, <2>7
  <2>8. NoneSooner(l)'
    BY <1>0, <2>3, <2>5, <2>6, <2>7 DEF NoneSooner
  <2> QED BY <1>1, <2>4, <2>8 DEF HoldAt
<1> QED BY <1>2, <1>3 DEF DeinitDelete, DeinitForget, Post

(* No timer runs out while its lock is promised and plain.                 *)
LEMMA ExpiryLate ==
  ASSUME TypeOK, NEW l \in Locks, Covered(l), NoneSooner(l), Due(l)
  PROVE  promise[l] = 0
<1>1. /\ now \in Nat /\ expired[l] \in Nat /\ left[l] = 0 /\ active[l]
      /\ promise[l] \in Nat \union {Forever}
  BY BoundAssumption DEF TypeOK, Due
<1> QED BY <1>1 DEF Covered, NoneSooner

(* The expiry of a timer and its callback.                                 *)
LEMMA ExpiryHold ==
  ASSUME Inv, NEW k \in Locks, HoldAt(k), ArmedAt(k),
         TimerCallback \/ \E l \in Locks : TimerExpires(l)
  PROVE  HoldAt(k)' /\ ArmedAt(k)'
<1>1. ASSUME NEW l \in Locks, TimerExpires(l), l # k
      PROVE  HoldAt(k)' /\ ArmedAt(k)'
  <2>1. Same(k)
    BY <1>1, MarkAssumption DEF TimerExpires, Same, Mine, Inv, TypeOK
  <2> QED BY <2>1, SameKeeps
<1>2. CASE TimerExpires(k)
  <2>1. /\ UNCHANGED <<now, listed, expired, left, queue, promise, excuse>>
        /\ daemon' = k /\ ~active'[k] /\ Due(k)
    BY <1>2 DEF TimerExpires, Inv, TypeOK
  <2>2. Plain(k) => promise[k] = 0
    BY <2>1, ExpiryLate DEF HoldAt, Inv
  <2>3. HoldAt(k)'
    BY <2>1, <2>2, MarkAssumption DEF HoldAt, Plain, Covered, NoneSooner, Mine
  <2> QED BY <2>1, <2>3 DEF ArmedAt
<1>3. CASE TimerCallback
  <2>1. UNCHANGED <<now, queue, active, left, closing, promise, excuse>>
    BY <1>3 DEF TimerCallback, Release, Inv, CallbackOneShot
  <2>2. /\ daemon' = None /\ listed' = listed \ {daemon} /\ daemon \in Locks
        /\ expired' = [expired EXCEPT ![daemon] = 0]
    BY <1>3 DEF TimerCallback, Release, Inv, CallbackOneShot, TypeOK
  <2>3. CASE k # daemon
    <3>1. Same(k)
      BY <2>1, <2>2, <2>3, MarkAssumption DEF Same, Mine, Inv, TypeOK
    <3> QED BY <3>1, SameKeeps
  <2>4. CASE k = daemon
    <3>1. expired'[k] = 0 /\ k \notin listed' /\ now' \in Nat
      BY <2>1, <2>2, <2>4, BoundAssumption DEF Inv, TypeOK
    <3>2. Plain(k) => promise'[k] = 0
      BY <2>1, <2>4 DEF HoldAt, Covered
    <3>3. HoldAt(k)'
      BY <2>1, <3>1, <3>2, MarkAssumption DEF HoldAt, Plain, Covered, NoneSooner
    <3> QED BY <3>1, <3>3 DEF ArmedAt
  <2> QED BY <2>3, <2>4
<1> QED BY <1>1, <1>2, <1>3

(* The timer task takes a command.                                         *)
LEMMA CommandHold ==
  ASSUME TypeOK, NEW k \in Locks, HoldAt(k), ArmedAt(k), TimerCommand
  PROVE  HoldAt(k)' /\ ArmedAt(k)'
<1> DEFINE c == Head(queue)
<1>0. /\ queue \in Seq(Commands) /\ queue # <<>> /\ queue' = Tail(queue)
      /\ UNCHANGED <<now, listed, expired, daemon, closing, promise, excuse>>
  BY DEF TypeOK, TimerCommand
<1>1. c \in Commands /\ c = queue[1] /\ daemon # k
  BY <1>0, MarkAssumption DEF TimerCommand
<1>2. /\ \A n \in Mine(k)' : n \in Nat \ {0} /\ n + 1 \in Mine(k) /\ queue'[n] = queue[n + 1]
      /\ \A n \in Mine(k) : n \in Nat /\ (n = 1 \/ n - 1 \in Mine(k)')
      /\ 1 \in Mine(k) <=> c.cmd # "other" /\ c.lock = k
  BY <1>0, Taken
<1>3. /\ c.cmd \in {"stop", "period", "delete", "other"}
      /\ c.lock \in Locks /\ c.period \in Nat
  <2> HIDE DEF c
  <2> QED BY <1>1, CommandFields DEF Commands
<1>4. /\ 1 \notin Mine(k) => active'[k] = active[k] /\ left'[k] = left[k]
      /\ 1 \in Mine(k) /\ c.cmd = "period" => active'[k] /\ left'[k] = c.period
      /\ 1 \in Mine(k) /\ c.cmd # "period" => ~active'[k] /\ left'[k] = left[k]
  <2>1. /\ c.cmd = "period" => /\ active' = [active EXCEPT ![c.lock] = TRUE]
                               /\ left' = [left EXCEPT ![c.lock] = c.period]
        /\ c.cmd \in {"stop", "delete"} => /\ active' = [active EXCEPT ![c.lock] = FALSE]
                                           /\ left' = left
        /\ c.cmd = "other" => active' = active /\ left' = left
    BY DEF TimerCommand
  <2> HIDE DEF c
  <2> QED BY <1>2, <1>3, <2>1 DEF TypeOK
<1> HIDE DEF c
<1>5. ArmedAt(k)'
  <2> SUFFICES ASSUME Timed(k), k \in listed \/ expired[k] # 0
               PROVE  WillRun(k)'
    BY <1>0 DEF ArmedAt, Timed
  <2>1. CASE Mine(k) = {} /\ active[k]
    BY <1>2, <1>4, <2>1 DEF WillRun
  <2>2. ASSUME NEW n \in Mine(k), queue[n].cmd = "period", \A m \in Mine(k) : m <= n
        PROVE  WillRun(k)'
    <3>1. CASE n = 1
      <4>1. Mine(k)' = {}
        BY <1>2, <2>2, <3>1
      <4> QED BY <1>1, <1>4, <2>2, <3>1, <4>1 DEF WillRun
    <3>2. CASE n # 1
      <4>1. n - 1 \in Mine(k)' /\ n \in Nat /\ n - 1 + 1 = n
        BY <1>2, <2>2, <3>2
      <4>2. queue'[n - 1].cmd = "period"
        BY <1>2, <2>2, <4>1
      <4>3. \A m \in Mine(k)' : m <= n - 1
        BY <1>2, <2>2, <4>1
      <4> QED BY <4>1, <4>2, <4>3 DEF WillRun
    <3> QED BY <3>1, <3>2
  <2> QED BY <1>1, <2>1, <2>2 DEF ArmedAt, WillRun
<1>6. ASSUME Plain(k)'
      PROVE  Covered(k)' /\ NoneSooner(k)'
  <2>1. Plain(k) /\ Covered(k) /\ NoneSooner(k)
    BY <1>0, <1>6 DEF HoldAt, Plain
  <2>2. Covered(k)'
    BY <1>0, <2>1 DEF Covered
  <2>3. /\ now \in Nat /\ expired[k] \in Nat /\ left[k] \in Nat
        /\ promise[k] \in Nat \union {Forever}
    BY BoundAssumption DEF TypeOK
  <2>4. CASE 1 \notin Mine(k)
    <3>1. Mine(k) = {} <=> Mine(k)' = {}
      BY <1>2, <2>4
    <3> QED BY <1>0, <1>2, <1>4, <2>1, <2>2, <2>4, <3>1 DEF NoneSooner
  <2>5. CASE 1 \in Mine(k) /\ c.cmd # "period"
    BY <1>0, <1>2, <1>4, <2>1, <2>2, <2>5 DEF NoneSooner
  <2>6. CASE 1 \in Mine(k) /\ c.cmd = "period"
    <3>1. promise[k] # Forever
      BY <1>1, <2>1, <2>6 DEF NoneSooner
    <3>2. expired[k] > now => now + left'[k] >= expired[k]
      BY <1>1, <1>4, <2>1, <2>6 DEF NoneSooner
    <3>3. promise[k] # 0 => left'[k] > 0
      BY <1>3, <1>4, <2>1, <2>3, <2>6, <3>1, <3>2 DEF Covered
    <3> QED BY <1>0, <1>2, <2>1, <2>2, <3>1, <3>2, <3>3 DEF NoneSooner
  <2> QED BY <2>4, <2>5, <2>6
<1> QED BY <1>5, <1>6 DEF HoldAt

(* Time passes: of a plain lock with commands on their way nothing is      *)
(* promised, or it is no longer plain.                                     *)
LEMMA TickHold ==
  ASSUME TypeOK, NEW k \in Locks, HoldAt(k), ArmedAt(k), TickInterrupt
  PROVE  HoldAt(k)' /\ ArmedAt(k)'
<1>1. /\ now' = now + 1
      /\ UNCHANGED <<listed, expired, present, active, queue, daemon, closing>>
      /\ left'[k] = IF active[k] THEN Less(left[k]) ELSE left[k]
      /\ promise'[k] = IF promise[k] = Forever THEN Forever ELSE Less(promise[k])
      /\ excuse'[k] = IF Mine(k) # {} /\ promise[k] # 0 THEN excuse[k] \union {"delayed"}
                      ELSE excuse[k]
  BY DEF TickInterrupt
<1>2. Mine(k)' = Mine(k)
  BY <1>1 DEF Mine
<1>3. ArmedAt(k)'
  <2>1. Timed(k)' => Timed(k)
    BY <1>1 DEF Timed
  <2> QED BY <1>1, <1>2, <2>1 DEF ArmedAt, WillRun
<1>4. ASSUME Plain(k)'
      PROVE  Covered(k)' /\ NoneSooner(k)'
  <2>1. Plain(k) /\ (Mine(k) = {} \/ promise[k] = 0)
    <3>1. "delayed" \notin {"unlimited"}
      OBVIOUS
    <3> QED BY <1>1, <1>4, <3>1 DEF Plain
  <2>2. Covered(k) /\ NoneSooner(k)
    BY <2>1 DEF HoldAt
  <2>3. /\ now \in Nat /\ expired[k] \in Nat /\ left[k] \in Nat
        /\ promise[k] \in Nat \union {Forever} /\ Forever \notin Nat
    BY BoundAssumption, MarkAssumption DEF TypeOK
  <2>4. /\ promise[k] = 0 => promise'[k] = 0
        /\ promise[k] \in Nat \ {0} => promise'[k] = promise[k] - 1
        /\ promise[k] = Forever <=> promise'[k] = Forever
    BY <1>1, <2>3 DEF Less
  <2>5. Covered(k)'
    BY <1>1, <2>2, <2>3, <2>4 DEF Covered
  <2>6. expired[k] > now + 1 =>
          /\ active[k] /\ Mine(k) = {} => now + 1 + left'[k] >= expired[k]
          /\ \A n \in Mine(k) : queue[n].cmd = "period" => now + 1 + queue[n].period >= expired[k]
    <3>1. \A n \in Mine(k) : queue[n].period \in Nat
      BY CommandFields DEF TypeOK, Mine
    <3> QED BY <1>1, <2>2, <2>3, <3>1 DEF NoneSooner, Less
  <2>7. NoneSooner(k)'
    BY <1>1, <1>2, <2>1, <2>2, <2>3, <2>4, <2>6 DEF NoneSooner
  <2> QED BY <2>5, <2>7
<1> QED BY <1>3, <1>4 DEF HoldAt

(* HoldInv and ArmedInv are kept by every step.                            *)
THEOREM HoldInductive == Spec => [](HoldInv /\ ArmedInv)
<1> DEFINE J == \A k \in Locks : HoldAt(k) /\ ArmedAt(k)
<1>1. J <=> HoldInv /\ ArmedInv
  BY DEF HoldAt, ArmedAt, HoldInv, ArmedInv
<1>2. Init => J
  BY MarkAssumption DEF Init, HoldAt, ArmedAt, Covered, NoneSooner
<1>3. Inv /\ J /\ [Next]_vars => J'
  <2> SUFFICES ASSUME Inv, [Next]_vars, NEW k \in Locks, HoldAt(k), ArmedAt(k)
               PROVE  HoldAt(k)' /\ ArmedAt(k)'
    OBVIOUS
  <2>0. TypeOK
    BY DEF Inv
  <2>1. ASSUME NEW l \in Locks, Call(l), l # k
        PROVE  HoldAt(k)' /\ ArmedAt(k)'
    BY <2>0, <2>1, CallOthers, SameKeeps
  <2>2. CASE Call(k)
    BY <2>0, <2>2, LockHold, TimeoutHold, UnlockHold, DeinitHold DEF Call
  <2>3. ASSUME NEW l \in Locks, TimerExpires(l)
        PROVE  HoldAt(k)' /\ ArmedAt(k)'
    BY <2>3, ExpiryHold
  <2>4. CASE TimerCallback
    BY <2>4, ExpiryHold
  <2>5. CASE TimerCommand
    BY <2>0, <2>5, CommandHold
  <2>6. CASE OtherCommand
    <3> PICK l \in Locks : queue' = Append(queue, Cmd("other", l, 0))
      BY <2>6 DEF OtherCommand
    <3>1. Cmd("other", l, 0) \in Commands /\ Cmd("other", l, 0).cmd = "other"
      BY DEF Cmd, Commands
    <3>2. Mine(k)' = Mine(k) /\ \A n \in Mine(k) : queue'[n] = queue[n]
      BY <2>0, <3>1, Posted DEF TypeOK
    <3>3. Same(k)
      BY <2>6, <3>2 DEF OtherCommand, Same
    <3> QED BY <3>3, SameKeeps
  <2>7. CASE TickInterrupt
    BY <2>0, <2>7, TickHold
  <2>8. CASE TimerLooks
    <3>1. Same(k)
      BY <2>8, MarkAssumption DEF TimerLooks, Same, Mine
    <3> QED BY <3>1, SameKeeps
  <2>9. CASE UNCHANGED vars
    <3>1. Same(k)
      BY <2>9 DEF vars, Same, Mine
    <3> QED BY <3>1, SameKeeps
  <2> QED BY <2>1, <2>2, <2>3, <2>4, <2>5, <2>6, <2>7, <2>8, <2>9 DEF Next
<1> HIDE DEF J
<1> QED BY <1>1, <1>2, <1>3, TypesAndTimers, PTL DEF Spec

(* A plain lock is held for as long as it is promised.                     *)
THEOREM HeldWhenSettledHolds == Spec => []HeldWhenSettled
<1>1. HoldInv => HeldWhenSettled
  BY DEF HoldInv, HeldWhenSettled, Plain, Covered
<1> QED BY <1>1, HoldInductive, PTL

(* A lock that is held for a time has a timer that will release it.        *)
THEOREM TimedArmedHolds == Spec => []TimedArmed
<1>1. TypeOK /\ ArmedInv => TimedArmed
  BY DEF ArmedInv, TimedArmed, TypeOK
<1> QED BY <1>1, HoldInductive, TypeCorrect, PTL
---------------------------------------------------------------------------
(* The logger *)

(* The flag and the queue: logger_update has pended itself again before it *)
(* raises the flag, and callers may raise it further in between.           *)
Pended ==
  /\ logFlag \in Nat /\ logPended \in Nat
  /\ logFlag > 0 => logPended > 0
  /\ logUpdate = "again" => logPended > 0

(* A call of the timer task that the queue takes is in the queue.          *)
LEMMA PendsOne ==
  ASSUME logPended \in Nat, LogPends
  PROVE  logPended' \in Nat /\ logPended' > 0
  BY DEF LogPends

(* logger_puts raises the flag only for an update that it has pended.      *)
LEMMA PutsPends ==
  ASSUME Pended, NEW n \in LogLengths, LogPuts(n)
  PROVE  Pended'
<1>1. logUpdate' = logUpdate
  BY DEF LogPuts
<1>2. \/ LogPends /\ logFlag' = logFlag + 1
      \/ logFlag' = logFlag /\ logPended' = logPended
  BY DEF LogPuts
<1>3. CASE LogPends /\ logFlag' = logFlag + 1
  BY <1>1, <1>3, PendsOne DEF Pended
<1>4. CASE logFlag' = logFlag /\ logPended' = logPended
  BY <1>1, <1>4 DEF Pended
<1> QED BY <1>2, <1>3, <1>4

(* logger_update clears the flag when it leaves the queue.                 *)
LEMMA TimerTaskPends ==
  ASSUME Pended, LogTimerTask
  PROVE  Pended'
<1>1. CASE LogUpdateStart
  BY <1>1 DEF LogUpdateStart, LogAt, Pended
<1>2. CASE LogUpdateOff
  BY <1>2 DEF LogUpdateOff, LogAt, Pended
<1>3. CASE LogUpdateLater
  <2>1. CASE LogAt("check", "again") /\ LogPends
    BY <1>3, <2>1, PendsOne DEF LogUpdateLater, LogAt, Pended
  <2>2. CASE LogAt("check", "idle") /\ UNCHANGED logPended
    BY <1>3, <2>2 DEF LogUpdateLater, LogAt, Pended
  <2> QED BY <1>3, <2>1, <2>2 DEF LogUpdateLater
<1>4. CASE LogUpdateFlag
  BY <1>4 DEF LogUpdateFlag, LogAt, Pended
<1>5. CASE LogUpdateGoOn
  BY <1>5 DEF LogUpdateGoOn, LogAt, Pended
<1>6. CASE LogUpdateMove
  <2>1. logUpdate' = "idle" /\ UNCHANGED <<logFlag, logPended>>
    BY <1>6 DEF LogUpdateMove, LogAt
  <2> QED BY <2>1 DEF Pended
<1>7. CASE LogNotify
  BY <1>7 DEF LogNotify, Pended
<1> QED
  BY <1>1, <1>2, <1>3, <1>4, <1>5, <1>6, <1>7 DEF LogTimerTask

(* The AP does not touch the queue.                                        *)
LEMMA TheApPends ==
  ASSUME Pended, LogTheAp
  PROVE  Pended'
<1>1. UNCHANGED logQueue
  BY DEF LogTheAp, LogRegister, LogUpdateEnable, LogUpdateWakeupAp, LogApReads,
         LogApForgets
<1> QED BY <1>1 DEF logQueue, Pended

(* While the flag keeps callers from pending another update there is one   *)
(* in the queue of the timer task, which will clear it.                    *)
THEOREM LogWillMoveHolds == LogSpec => []LogWillMove
<1>1. LogInit => Pended
  BY DEF LogInit, Pended
<1>2. Pended /\ [LogNext]_logVars => Pended'
  <2>1. CASE UNCHANGED logVars
    BY <2>1 DEF logVars, logQueue, Pended
  <2>2. CASE LogNext
    BY <2>2, PutsPends, TimerTaskPends, TheApPends DEF LogNext
  <2> QED BY <2>1, <2>2
<1>3. Pended => LogWillMove
  BY DEF Pended, LogWillMove
<1> QED BY <1>1, <1>2, <1>3, PTL DEF LogSpec

----------------------------------------------------------------------------
(* What is read is the log in order.                                       *)

(* The remainder of a sum or difference of positions.                      *)
LEMMA Turn ==
  ASSUME NEW n \in Nat \ {0}, NEW i \in Int, -n <= i, i < 2 * n
  PROVE  LogPlace(i, n) = IF i < 0 THEN i + n ELSE IF i < n THEN i ELSE i - n
  BY DEF LogPlace

\* Bytes that wait in DRAM.
LogWaits == IF LogSane THEN LogPlace(logDw - logDr, LogDramLen) ELSE 0

(* What waits in SRAM and in DRAM, as a number of bytes and by places.     *)
LEMMA SramRing ==
  ASSUME LogTypeOK
  PROVE  /\ LogBuffered \in 0 .. LogBufLen - 1
         /\ LogBuffered \in Nat /\ LogGone \in Int
         /\ LogBuffered = LogPlace(logW - logR, LogBufLen)
         /\ LogInSram = [k \in 1 .. LogBuffered |-> logBuf[LogPlace(logR + k - 1, LogBufLen)]]
<1>1. /\ LogBuffered \in 0 .. LogBufLen - 1
      /\ LogBuffered = LogPlace(logW - logR, LogBufLen)
  BY LogAssumption, Turn DEF LogTypeOK, LogBuffered
<1>2. LogBuffered \in Nat /\ LogGone \in Int
  <2>1. logCount \in Nat
    BY DEF LogTypeOK
  <2> QED BY <1>1, <2>1, LogAssumption DEF LogGone
<1> QED BY <1>1, <1>2 DEF LogInSram, LogRing

LEMMA DramRing ==
  ASSUME LogTypeOK
  PROVE  /\ LogWaits \in 0 .. LogDramLen - 1
         /\ LogSane => LogDramFree = LogDramLen - 1 - LogWaits
         /\ LogInDram = [k \in 1 .. LogWaits |-> logDram[LogPlace(logDr + k - 1, LogDramLen)]]
<1>1. LogWaits \in 0 .. LogDramLen - 1 /\ (LogSane => LogDramFree = LogDramLen - 1 - LogWaits)
  BY LogAssumption, Turn DEF LogTypeOK, LogSane, LogWaits, LogDramFree
<1>2. CASE LogSane
  BY <1>1, <1>2 DEF LogInDram, LogRing, LogWaits
<1>3. CASE ~LogSane
  <2>1. LogWaits = 0 /\ LogInDram = <<>>
    BY <1>3 DEF LogWaits, LogInDram
  <2>2. [k \in 1 .. 0 |-> logDram[LogPlace(logDr + k - 1, LogDramLen)]] = <<>>
    OBVIOUS
  <2> QED BY <1>1, <2>1, <2>2
<1> QED BY <1>2, <1>3

(* A text numbers its bytes, and those it does not overwrite grow older.   *)
LEMMA PutsHeld ==
  ASSUME LogTypeOK, LogHeld, NEW n \in LogLengths, LogPuts(n)
  PROVE  LogTypeOK' /\ LogHeld'
<1>0. /\ n \in Nat /\ n < LogBufLen /\ LogBufLen \in Nat \ {0}
      /\ logCount' = logCount + n /\ logW' = LogPlace(logW + n, LogBufLen)
      /\ logBuf' = [i \in DOMAIN logBuf |->
             IF LogPlace(i - logW, LogBufLen) < n
             THEN logCount + LogPlace(i - logW, LogBufLen) + 1 ELSE logBuf[i]]
      /\ logR' = LogRoom(n, logW') /\ UNCHANGED logAp
  BY LogAssumption DEF LogPuts
<1>1. logW' = (IF logW + n < LogBufLen THEN logW + n ELSE logW + n - LogBufLen)
      /\ logW' \in 0 .. LogBufLen - 1
  BY <1>0, Turn DEF LogTypeOK
<1>2. logR' \in 0 .. LogBufLen - 1
  <2>1. LogPlace(logW' + 1, LogBufLen) \in 0 .. LogBufLen - 1
    BY <1>0, <1>1, Turn
  <2>2. logR' = LogPlace(logW' + 1, LogBufLen) \/ logR' = logR
    BY <1>0 DEF LogRoom
  <2> QED BY <2>1, <2>2 DEF LogTypeOK
<1>3. LogTypeOK'
  BY <1>0, <1>1, <1>2 DEF LogTypeOK, logAp
<1>4. ASSUME NEW i \in 0 .. LogBufLen - 1, LogAge(i)' < logCount'
      PROVE  logBuf'[i] = logCount' - LogAge(i)'
  <2> DEFINE k == LogPlace(i - logW, LogBufLen)
  <2>1. k = IF i < logW THEN i - logW + LogBufLen ELSE i - logW
    BY <1>0, Turn DEF LogTypeOK
  <2>2. LogAge(i) = IF logW - 1 - i < 0 THEN logW - 1 - i + LogBufLen ELSE logW - 1 - i
    BY <1>0, Turn DEF LogTypeOK, LogAge
  <2>3. LogAge(i)' = IF logW' - 1 - i < 0 THEN logW' - 1 - i + LogBufLen ELSE logW' - 1 - i
    <3>1. LogAge(i)' = LogPlace(logW' - 1 - i, LogBufLen)
      BY DEF LogAge
    <3> QED BY <1>0, <1>1, <3>1, Turn
  <2>4. logBuf'[i] = IF k < n THEN logCount + k + 1 ELSE logBuf[i]
    BY <1>0 DEF LogTypeOK
  <2> HIDE DEF k
  <2>5. CASE k < n
    <3>1. LogAge(i)' = n - 1 - k
      BY <1>0, <1>1, <2>1, <2>3, <2>5 DEF LogTypeOK
    <3> QED BY <1>0, <2>1, <2>4, <2>5, <3>1 DEF LogTypeOK
  <2>6. CASE ~(k < n)
    <3>1. LogAge(i)' = LogAge(i) + n /\ LogAge(i) \in Nat
      BY <1>0, <1>1, <2>1, <2>2, <2>3, <2>6 DEF LogTypeOK
    <3>2. LogAge(i) < logCount
      BY <1>0, <1>4, <3>1 DEF LogTypeOK
    <3> QED BY <1>0, <2>4, <2>6, <3>1, <3>2 DEF LogHeld, LogTypeOK
  <2> QED BY <2>5, <2>6
<1> QED BY <1>3, <1>4 DEF LogHeld

(* What LogRoom drops: nothing, or as much as the text needs, or all that  *)
(* waits when the text ends exactly where the reader is.                   *)
LEMMA PutsRoom ==
  ASSUME LogTypeOK, NEW n \in LogLengths, LogPuts(n)
  PROVE  /\ LogBuffered' \in Nat /\ LogBuffered' <= LogBuffered + n
         /\ \/ LogBuffered' = (IF logR' # logR THEN LogBufLen - 1 ELSE LogBuffered + n)
            \/ logW < logR /\ logW' = logR
            \/ n = 0
<1>0. /\ n \in Nat /\ n < LogBufLen /\ LogBufLen \in Nat \ {0}
      /\ logW' = LogPlace(logW + n, LogBufLen) /\ logR' = LogRoom(n, logW')
  BY LogAssumption DEF LogPuts
<1>1. logW' = (IF logW + n < LogBufLen THEN logW + n ELSE logW + n - LogBufLen)
  BY <1>0, Turn DEF LogTypeOK
<1>2. LogPlace(logW' + 1, LogBufLen) = IF logW' + 1 < LogBufLen THEN logW' + 1 ELSE 0
  BY <1>0, <1>1, Turn DEF LogTypeOK
<1>3. LogBuffered' = IF logW' >= logR' THEN logW' - logR' ELSE LogBufLen - (logR' - logW')
  BY DEF LogBuffered
<1>4. LogBuffered = IF logW >= logR THEN logW - logR ELSE LogBufLen - (logR - logW)
  BY DEF LogBuffered
<1>5. logW \in 0 .. LogBufLen - 1 /\ logR \in 0 .. LogBufLen - 1
  BY DEF LogTypeOK
<1> DEFINE overrun == IF logW + n >= LogBufLen THEN logW < logR \/ logW' >= logR
                      ELSE logW < logR /\ logW' > logR
<1>6. CASE overrun
  <2>1. logR' = LogPlace(logW' + 1, LogBufLen)
    BY <1>0, <1>6 DEF LogRoom
  <2> QED BY <1>0, <1>1, <1>2, <1>3, <1>4, <1>5, <1>6, <2>1
<1>7. CASE ~overrun
  <2>1. logR' = logR
    BY <1>0, <1>7 DEF LogRoom
  <2> QED BY <1>0, <1>1, <1>3, <1>4, <1>5, <1>7, <2>1
<1> QED BY <1>6, <1>7

LEMMA PutsLine ==
  ASSUME LogInv, NEW n \in LogLengths, LogPuts(n)
  PROVE  LogInv' /\ LogInDram' = LogInDram
<1>1. LogTypeOK' /\ LogHeld' /\ LogTypeOK
  BY PutsHeld DEF LogInv
<1>2. LogInDram' = LogInDram /\ logSeen' = logSeen
  BY DEF LogPuts, logAp, LogInDram, LogSane, LogRing
<1>3. LogGone' >= LogGone /\ LogGone' \in Int
  <2>1. /\ LogBuffered' \in Nat /\ LogBuffered' <= LogBuffered + n
        /\ LogBuffered \in Nat /\ logCount \in Nat
    BY <1>1, PutsRoom, SramRing DEF LogTypeOK
  <2>2. logCount' = logCount + n /\ n \in Nat
    BY LogAssumption DEF LogPuts
  <2>3. \A b, c : b = LogBuffered' /\ c = logCount' => LogGone' = c - b
    BY DEF LogGone
  <2>4. LogGone = logCount - LogBuffered
    BY DEF LogGone
  <2>5. PICK b \in Nat : b = LogBuffered'
    BY <2>1
  <2>6. LogGone' = (logCount + n) - b
    BY <2>2, <2>3, <2>5, Zenon
  <2>7. b <= LogBuffered + n
    BY <2>1, <2>5, Zenon
  <2>8. (logCount + n) - b >= LogGone /\ (logCount + n) - b \in Int
    <3> HIDE <2>5
    <3> QED BY <2>1, <2>2, <2>4, <2>7
  <2> QED BY <2>6, <2>8, Zenon
<1>4. LogGone \in Int
  BY <1>1, SramRing
<1>5. logSeen \in Nat
  BY <1>1 DEF LogTypeOK
<1>6. LogInLine'
  <2>1. PICK g \in Int : g = LogGone' /\ g >= LogGone
    BY <1>3
  <2> QED BY <1>2, <1>4, <1>5, <2>1 DEF LogInv, LogInLine
<1> QED BY <1>1, <1>2, <1>6 DEF LogInv

\* A move: what it skips and copies.
LogMoves(skip, n) ==
  /\ LogHalfFull /\ LogSane /\ LogDramFree # 0
  /\ skip \in LogSkips /\ n \in {0, LogMovable - skip} /\ n >= 0
  /\ logDram' = [i \in DOMAIN logDram |->
        IF i - logDw \in 0 .. (n - 1) THEN logBuf[logR + skip + i - logDw] ELSE logDram[i]]
  /\ logDw' = LogPlace(logDw + n, LogDramLen)
  /\ logR' = LogPlace(logR + LogTaken(skip, n), LogBufLen)
  /\ UNCHANGED <<logBuf, logW, logCount, logDr, logSeen>>

(* A move fits: it takes no more than waits in SRAM, and reaches over the  *)
(* end of neither ring.                                                    *)
LEMMA MoveFits ==
  ASSUME LogTypeOK, NEW skip, NEW n, LogMoves(skip, n)
  PROVE  /\ skip \in Nat /\ n \in Nat /\ skip + n <= LogBuffered
         /\ n > 0 => logR + skip + n <= LogBufLen
         /\ logDw + n <= LogDramLen /\ LogWaits + n < LogDramLen
<1>1. /\ logW \in 0 .. LogBufLen - 1 /\ logR \in 0 .. LogBufLen - 1
      /\ logDw \in 0 .. LogDramLen - 1 /\ logDr \in 0 .. LogDramLen - 1
      /\ LogBufLen \in Nat /\ LogBufLen > 1 /\ LogDramLen \in Nat \ {0}
  BY LogAssumption DEF LogTypeOK, LogMoves, LogSane
<1>2. skip \in Nat /\ skip <= LogBuffered /\ LogBuffered > 0
  <2>1. skip \in 0 .. (LogBufLen \div 2)
    BY LogAssumption DEF LogMoves
  <2>2. LogBuffered >= LogBufLen \div 2
    BY DEF LogMoves, LogHalfFull
  <2>3. LogBufLen \div 2 \in Nat \ {0}
    BY <1>1
  <2>4. LogBuffered \in Nat
    BY SramRing
  <2> QED BY <2>1, <2>2, <2>3, <2>4
<1>3. LogDramFree = LogDramLen - 1 - LogWaits /\ LogWaits \in 0 .. LogDramLen - 1
  BY DramRing DEF LogMoves
<1>4. LogBuffered = IF logW >= logR THEN logW - logR ELSE LogBufLen - (logR - logW)
  BY DEF LogBuffered
<1>5. LogBuffered \in Nat
  BY SramRing
<1> DEFINE source == IF logW > logR THEN logW - logR ELSE LogBufLen - logR
<1>6. source <= LogBuffered /\ source \in Nat /\ logR + source <= LogBufLen
  BY <1>1, <1>2, <1>4
<1>7. /\ LogMovable \in Int /\ LogMovable <= source
      /\ LogMovable <= LogDramLen - logDw /\ LogMovable <= LogDramFree
  <2>1. LogMovable = IF (IF source > LogDramLen - logDw THEN LogDramLen - logDw ELSE source) > LogDramFree
                     THEN LogDramFree
                     ELSE IF source > LogDramLen - logDw THEN LogDramLen - logDw ELSE source
    BY DEF LogMovable
  <2> HIDE DEF source
  <2> QED BY <1>1, <1>3, <1>6, <2>1
<1> HIDE DEF source
<1>8. n \in {0, LogMovable - skip} /\ n >= 0
  BY DEF LogMoves
<1>9. n \in Nat
  BY <1>2, <1>7, <1>8
<1> QED BY <1>1, <1>2, <1>3, <1>5, <1>6, <1>7, <1>8, <1>9

(* Then it takes from one ring what it puts, but for what it skips, into   *)
(* the other.                                                              *)
LEMMA MoveCounts ==
  ASSUME LogTypeOK, NEW skip, NEW n, LogMoves(skip, n)
  PROVE  /\ LogTypeOK'
         /\ LogBuffered' = LogBuffered - (skip + n)
         /\ LogInDram' = [k \in 1 .. LogWaits + n |->
                             logDram'[LogPlace(logDr + k - 1, LogDramLen)]]
<1>1. /\ logW \in 0 .. LogBufLen - 1 /\ logR \in 0 .. LogBufLen - 1
      /\ logDw \in 0 .. LogDramLen - 1 /\ logDr \in 0 .. LogDramLen - 1
      /\ LogBufLen \in Nat \ {0} /\ LogDramLen \in Nat \ {0}
      /\ LogBuffered \in 0 .. LogBufLen - 1 /\ LogWaits \in 0 .. LogDramLen - 1
  BY LogAssumption, SramRing, DramRing DEF LogTypeOK, LogMoves, LogSane
<1>2. /\ skip \in Nat /\ n \in Nat /\ skip + n <= LogBuffered
      /\ logDw + n <= LogDramLen /\ LogWaits + n < LogDramLen
  BY MoveFits
<1>3. LogBuffered = IF logW >= logR THEN logW - logR ELSE LogBufLen - (logR - logW)
  BY DEF LogBuffered
<1>4. LogWaits = IF logDw < logDr THEN logDw - logDr + LogDramLen ELSE logDw - logDr
  BY <1>1, Turn DEF LogWaits, LogMoves
<1> DEFINE r == LogPlace(logR + (skip + n), LogBufLen)
           w == LogPlace(logDw + n, LogDramLen)
<1>5. logR' = r /\ logDw' = w /\ UNCHANGED <<logBuf, logW, logCount, logDr, logSeen>>
  BY DEF LogMoves, LogTaken
<1>6. r = IF logR + (skip + n) < LogBufLen THEN logR + (skip + n) ELSE logR + (skip + n) - LogBufLen
  BY <1>1, <1>2, Turn
<1>7. w = IF logDw + n < LogDramLen THEN logDw + n ELSE 0
  BY <1>1, <1>2, Turn
<1> HIDE DEF r, w
<1>8. r \in 0 .. LogBufLen - 1 /\ w \in 0 .. LogDramLen - 1
  BY <1>1, <1>2, <1>6, <1>7
<1>9. LogTypeOK'
  <2>1. DOMAIN logDram' = DOMAIN logDram
    BY DEF LogMoves
  <2>2. w \in 0 .. LogDramLen
    BY <1>1, <1>8
  <2> QED BY <1>5, <1>8, <2>1, <2>2, Zenon DEF LogTypeOK
<1>10. LogBuffered' = LogBuffered - (skip + n)
  <2>1. \A a, b : a = logW' /\ b = logR' =>
          LogBuffered' = IF a >= b THEN a - b ELSE LogBufLen - (b - a)
    BY DEF LogBuffered
  <2>2. LogBuffered' = IF logW >= r THEN logW - r ELSE LogBufLen - (r - logW)
    BY <1>5, <2>1, Zenon
  <2>3. (IF logW >= r THEN logW - r ELSE LogBufLen - (r - logW)) = LogBuffered - (skip + n)
    BY <1>1, <1>2, <1>3, <1>6
  <2> QED BY <2>2, <2>3, Zenon
<1>11. LogInDram' = [k \in 1 .. LogWaits + n |-> logDram'[LogPlace(logDr + k - 1, LogDramLen)]]
  <2>1. LogPlace(w - logDr, LogDramLen) = LogWaits + n
    BY <1>1, <1>2, <1>4, <1>7, <1>8, Turn
  <2>2. LogSane'
    <3>1. w < LogDramLen /\ logDr < LogDramLen
      BY <1>1, <1>8
    <3> QED BY <1>5, <3>1, Zenon DEF LogSane
  <2>3. LogInDram' = LogRing(logDram', LogDramLen, logDr', logDw')
    BY <2>2 DEF LogInDram
  <2>4. LogInDram' = LogRing(logDram', LogDramLen, logDr, w)
    BY <1>5, <2>3, Zenon
  <2>5. LogInDram' = [k \in 1 .. LogPlace(w - logDr, LogDramLen) |->
                         logDram'[LogPlace(logDr + k - 1, LogDramLen)]]
    BY <2>4, Zenon DEF LogRing
  <2> QED BY <2>1, <2>5, Zenon
<1> QED BY <1>9, <1>10, <1>11

(* What waits in DRAM stays, and what follows are the next bytes of the    *)
(* log that were not skipped.                                              *)
LEMMA MoveBytes ==
  ASSUME LogInv, NEW skip, NEW n, LogMoves(skip, n)
  PROVE  /\ DOMAIN LogInDram = 1 .. LogWaits /\ DOMAIN LogInDram' = 1 .. LogWaits + n
         /\ \A k \in 1 .. LogWaits : LogInDram'[k] = LogInDram[k]
         /\ \A k \in LogWaits + 1 .. LogWaits + n :
               LogInDram'[k] = LogGone + skip + (k - LogWaits)
<1>1. /\ logW \in 0 .. LogBufLen - 1 /\ logR \in 0 .. LogBufLen - 1
      /\ logDw \in 0 .. LogDramLen - 1 /\ logDr \in 0 .. LogDramLen - 1
      /\ LogBufLen \in Nat \ {0} /\ LogDramLen \in Nat \ {0}
      /\ LogBuffered \in 0 .. LogBufLen - 1 /\ LogWaits \in 0 .. LogDramLen - 1
      /\ logCount \in Nat /\ logSeen \in Nat
      /\ DOMAIN logDram = 0 .. LogDramLen - 1
  BY LogAssumption, SramRing, DramRing DEF LogInv, LogTypeOK, LogMoves, LogSane
<1>2. /\ skip \in Nat /\ n \in Nat /\ skip + n <= LogBuffered
      /\ n > 0 => logR + skip + n <= LogBufLen
      /\ logDw + n <= LogDramLen /\ LogWaits + n < LogDramLen
  BY MoveFits DEF LogInv
<1>3. LogInDram = [k \in 1 .. LogWaits |-> logDram[LogPlace(logDr + k - 1, LogDramLen)]]
  BY DramRing DEF LogInv
<1>4. LogInDram' = [k \in 1 .. LogWaits + n |-> logDram'[LogPlace(logDr + k - 1, LogDramLen)]]
  BY MoveCounts DEF LogInv
<1>5. logDram' = [i \in 0 .. LogDramLen - 1 |->
         IF i - logDw \in 0 .. (n - 1) THEN logBuf[logR + skip + i - logDw] ELSE logDram[i]]
  BY <1>1 DEF LogMoves
<1>6. LogWaits = IF logDw < logDr THEN logDw - logDr + LogDramLen ELSE logDw - logDr
  BY <1>1, Turn DEF LogWaits, LogMoves
<1>7. \A k \in 1 .. LogDramLen : LogPlace(logDr + k - 1, LogDramLen) =
        IF logDr + k - 1 < LogDramLen THEN logDr + k - 1 ELSE logDr + k - 1 - LogDramLen
  BY <1>1, Turn
<1>8. ASSUME NEW k \in 1 .. LogWaits
      PROVE  LogInDram'[k] = LogInDram[k]
  <2> DEFINE p == LogPlace(logDr + k - 1, LogDramLen)
  <2>1. p = IF logDr + k - 1 < LogDramLen THEN logDr + k - 1 ELSE logDr + k - 1 - LogDramLen
    BY <1>1, <1>7
  <2>2. k \in 1 .. LogWaits + n
    BY <1>1, <1>2
  <2>3. LogInDram'[k] = logDram'[p] /\ LogInDram[k] = logDram[p]
    BY <1>3, <1>4, <2>2
  <2> HIDE DEF p
  <2>4. p \in 0 .. LogDramLen - 1 /\ p - logDw \notin 0 .. (n - 1)
    BY <1>1, <1>2, <1>6, <2>1
  <2>5. logDram'[p] = logDram[p]
    BY <1>5, <2>4
  <2> QED BY <2>3, <2>5
<1>9. ASSUME NEW k \in LogWaits + 1 .. LogWaits + n
      PROVE  LogInDram'[k] = LogGone + skip + (k - LogWaits)
  <2> DEFINE p == LogPlace(logDr + k - 1, LogDramLen)
             i == logR + skip + p - logDw
  <2>1. p = IF logDr + k - 1 < LogDramLen THEN logDr + k - 1 ELSE logDr + k - 1 - LogDramLen
    BY <1>1, <1>2, <1>7
  <2>2. k \in 1 .. LogWaits + n /\ k \in Nat
    BY <1>1, <1>2
  <2>3. LogInDram'[k] = logDram'[p]
    BY <1>4, <2>2
  <2>4. p - logDw = k - LogWaits - 1 /\ p \in 0 .. LogDramLen - 1
    BY <1>1, <1>2, <1>6, <2>1, <2>2
  <2> HIDE DEF p
  <2>5. p - logDw \in 0 .. (n - 1) /\ p \in Int
    BY <1>1, <1>2, <2>2, <2>4
  <2>6. logDram'[p] = logBuf[i]
    BY <1>5, <2>4, <2>5
  <2>7. i = logR + skip + (k - LogWaits - 1) /\ i \in 0 .. LogBufLen - 1
    BY <1>1, <1>2, <2>2, <2>4, <2>5
  <2> HIDE DEF i
  <2>8. LogAge(i) = LogBuffered - skip - (k - LogWaits)
    <3>1. LogBuffered = IF logW >= logR THEN logW - logR ELSE LogBufLen - (logR - logW)
      BY DEF LogBuffered
    <3>2. LogAge(i) = IF logW - 1 - i < 0 THEN logW - 1 - i + LogBufLen ELSE logW - 1 - i
      BY <1>1, <2>7, Turn DEF LogAge
    <3> QED BY <1>1, <1>2, <2>2, <2>7, <3>1, <3>2
  <2>9. LogBuffered <= logCount /\ LogGone = logCount - LogBuffered
    <3>1. LogGone = logCount - LogBuffered
      BY DEF LogGone
    <3> QED BY <1>1, <3>1 DEF LogInv, LogInLine
  <2>10. logBuf[i] = logCount - LogAge(i)
    <3>1. LogAge(i) < logCount
      BY <1>1, <1>2, <2>2, <2>8, <2>9
    <3> QED BY <2>7, <3>1 DEF LogInv, LogHeld
  <2> QED BY <1>1, <1>2, <2>2, <2>3, <2>6, <2>8, <2>9, <2>10
<1> QED BY <1>3, <1>4, <1>8, <1>9

(* A step that touches neither ring keeps the invariant.                   *)
LEMMA RingsKept ==
  ASSUME LogInv, UNCHANGED <<logSram, logAp>>
  PROVE  LogInv' /\ LogInDram' = LogInDram
<1>1. UNCHANGED <<logBuf, logW, logR, logCount, logDram, logDw, logDr, logSeen>>
  BY DEF logSram, logAp
<1>2. LogInDram' = LogInDram
  BY <1>1 DEF LogInDram, LogSane, LogRing
<1>3. LogTypeOK' /\ LogHeld'
  BY <1>1 DEF LogInv, LogTypeOK, LogHeld, LogAge
<1>4. LogInLine'
  <2>1. LogGone' = LogGone /\ logSeen' = logSeen
    BY <1>1 DEF LogGone, LogBuffered
  <2> QED BY <1>2, <2>1 DEF LogInv, LogInLine
<1> QED BY <1>2, <1>3, <1>4 DEF LogInv

(* The types of what is in line.                                           *)
LEMMA LineTypes ==
  ASSUME LogInv
  PROVE  /\ logSeen \in Nat /\ LogGone \in Int /\ logCount \in Nat /\ LogBuffered \in Nat
         /\ LogGone = logCount - LogBuffered /\ LogWaits \in Nat
         /\ DOMAIN LogInDram = 1 .. LogWaits
         /\ \A k \in DOMAIN LogInDram : LogInDram[k] \in Nat
<1>1. LogTypeOK /\ LogInLine
  BY DEF LogInv
<1>2. LogWaits \in Nat /\ DOMAIN LogInDram = 1 .. LogWaits
  BY <1>1, DramRing, LogAssumption
<1>3. LogBuffered \in Nat /\ LogGone \in Int
  BY <1>1, SramRing
<1>4. LogGone = logCount - LogBuffered
  BY DEF LogGone
<1> QED BY <1>1, <1>2, <1>3, <1>4 DEF LogTypeOK, LogInLine

(* What is moved is behind what waits, and ahead of what stays.            *)
LEMMA MoveLine ==
  ASSUME LogInv, NEW skip, NEW n, LogMoves(skip, n)
  PROVE  LogInv'
<1>1. LogTypeOK' /\ LogBuffered' = LogBuffered - (skip + n)
  BY MoveCounts DEF LogInv
<1>2. LogHeld'
  <2>1. UNCHANGED <<logBuf, logW, logCount>>
    BY DEF LogMoves
  <2> QED BY <2>1 DEF LogInv, LogHeld, LogAge
<1>3. logSeen' = logSeen /\ logCount' = logCount
  BY DEF LogMoves
<1>4. skip \in Nat /\ n \in Nat
  BY MoveFits DEF LogInv
<1> DEFINE gone == LogGone + skip + n
<1>5. LogGone' = gone /\ gone \in Int
  <2>1. \A c, b : c = logCount' /\ b = LogBuffered' => LogGone' = c - b
    BY DEF LogGone
  <2>2. LogGone' = logCount - (LogBuffered - (skip + n))
    BY <1>1, <1>3, <2>1, Zenon
  <2>3. logCount - (LogBuffered - (skip + n)) = gone /\ gone \in Int
    BY <1>4, LineTypes
  <2> QED BY <2>2, <2>3, Zenon
<1> DEFINE old == LogInDram
<1>6. /\ logSeen \in Nat /\ LogGone \in Int /\ LogWaits \in Nat /\ logSeen <= LogGone
      /\ \A k \in 1 .. LogWaits :
            /\ old[k] \in Nat /\ logSeen < old[k] /\ old[k] <= LogGone
            /\ \A j \in 1 .. LogWaits : j < k => old[j] < old[k]
  BY LineTypes DEF LogInv, LogInLine
<1>7. PICK new : new = LogInDram'
  OBVIOUS
<1>8. /\ DOMAIN new = 1 .. LogWaits + n
      /\ \A k \in 1 .. LogWaits : new[k] = old[k]
      /\ \A k \in LogWaits + 1 .. LogWaits + n : new[k] = LogGone + skip + (k - LogWaits)
  BY <1>7, MoveBytes
<1> HIDE DEF old, gone
<1>9. logSeen <= gone
  BY <1>4, <1>6 DEF gone
<1>10. ASSUME NEW k \in 1 .. LogWaits + n
       PROVE  /\ new[k] \in Nat /\ logSeen < new[k] /\ new[k] <= gone
              /\ k > LogWaits => new[k] > LogGone
  <2>1. k \in 1 .. LogWaits \/ k \in LogWaits + 1 .. LogWaits + n
    BY <1>4, <1>6
  <2> QED BY <1>4, <1>6, <1>8, <2>1 DEF gone
<1>11. ASSUME NEW k \in 1 .. LogWaits + n, NEW j \in 1 .. LogWaits + n, j < k
       PROVE  new[j] < new[k]
  <2>1. CASE k \in 1 .. LogWaits
    <3>1. j \in 1 .. LogWaits
      BY <1>4, <1>6, <1>11, <2>1
    <3> QED BY <1>6, <1>8, <1>11, <2>1, <3>1
  <2>2. CASE k \in LogWaits + 1 .. LogWaits + n /\ j \in 1 .. LogWaits
    BY <1>4, <1>6, <1>8, <2>2
  <2>3. CASE k \in LogWaits + 1 .. LogWaits + n /\ j \in LogWaits + 1 .. LogWaits + n
    BY <1>4, <1>6, <1>8, <1>11, <2>3
  <2> QED BY <1>4, <1>6, <2>1, <2>2, <2>3
<1>12. LogInLine'
  BY <1>3, <1>5, <1>7, <1>8, <1>9, <1>10, <1>11, Zenon DEF LogInLine
<1> QED BY <1>1, <1>2, <1>12 DEF LogInv

(* The critical section of logger_update moves bytes or leaves the rings.  *)
LEMMA UpdateMoves ==
  ASSUME LogUpdateMove
  PROVE  UNCHANGED <<logSram, logAp>> \/ \E skip, n : LogMoves(skip, n)
<1>1. UNCHANGED <<logBuf, logW, logCount, logDr, logSeen>>
  BY DEF LogUpdateMove
<1>2. CASE ~LogHalfFull \/ ~LogSane \/ LogDramFree = 0
  <2>1. UNCHANGED <<logDram, logDw, logR>>
    BY <1>2 DEF LogUpdateMove
  <2> QED BY <1>1, <2>1 DEF logSram, logAp
<1>3. CASE LogHalfFull /\ LogSane /\ LogDramFree # 0
  <2>1. \E skip \in LogSkips : \E n \in {0, LogMovable - skip} :
          /\ n >= 0
          /\ logDram' = [i \in DOMAIN logDram |->
                IF i - logDw \in 0 .. (n - 1)
                THEN logBuf[logR + skip + i - logDw] ELSE logDram[i]]
          /\ logDw' = LogPlace(logDw + n, LogDramLen)
          /\ logR' = LogPlace(logR + LogTaken(skip, n), LogBufLen)
    BY <1>3 DEF LogUpdateMove
  <2> QED BY <1>1, <1>3, <2>1, Zenon DEF LogMoves
<1> QED BY <1>2, <1>3

(* An empty ring in DRAM, however it became empty, is in line.             *)
LEMMA EmptyLine ==
  ASSUME LogInv, LogInDram' = <<>>, UNCHANGED logSram,
         NEW seen \in Nat, logSeen' = seen, seen <= LogGone,
         NEW dw \in 0 .. LogDramLen, NEW dr \in 0 .. LogDramLen - 1,
         logDw' = dw, logDr' = dr, logDram' = logDram
  PROVE  LogInv'
<1>1. UNCHANGED <<logBuf, logW, logR, logCount>>
  BY DEF logSram
<1>2. LogTypeOK' /\ LogHeld'
  <2>1. LogTypeOK'
    BY <1>1, Zenon DEF LogInv, LogTypeOK
  <2>2. LogHeld'
    BY <1>1 DEF LogInv, LogHeld, LogAge
  <2> QED BY <2>1, <2>2
<1>3. LogGone' = LogGone
  BY <1>1 DEF LogGone, LogBuffered
<1>4. DOMAIN LogInDram' = {}
  OBVIOUS
<1>5. LogInLine'
  BY <1>3, <1>4, Zenon DEF LogInLine
<1> QED BY <1>2, <1>5 DEF LogInv

(* The AP takes all that waits, sets up a new ring, or loses the old one.  *)
LEMMA TheApLine ==
  ASSUME LogInv, LogTheAp
  PROVE  LogInv'
<1>0. /\ LogDramLen \in Nat \ {0} /\ 0 \in 0 .. LogDramLen /\ 0 \in 0 .. LogDramLen - 1
      /\ logDr \in 0 .. LogDramLen - 1 /\ logDw \in 0 .. LogDramLen
  BY LogAssumption DEF LogInv, LogTypeOK
<1>1. \A p \in 0 .. LogDramLen - 1 :
        logDw' = p /\ logDr' = p => LogInDram' = <<>>
  <2> SUFFICES ASSUME NEW p \in 0 .. LogDramLen - 1, logDw' = p, logDr' = p
               PROVE  LogInDram' = <<>>
    OBVIOUS
  <2>1. p - p = 0 /\ LogPlace(0, LogDramLen) = 0
    BY <1>0, Turn
  <2>2. CASE LogSane'
    <3>1. LogInDram' = LogRing(logDram', LogDramLen, p, p)
      BY <2>2 DEF LogInDram
    <3>2. \E f : LogInDram' = [k \in 1 .. LogPlace(p - p, LogDramLen) |-> f[k]]
      <4>1. LogInDram' = [k \in 1 .. LogPlace(p - p, LogDramLen) |->
                             logDram'[LogPlace(p + k - 1, LogDramLen)]]
        BY <3>1, Zenon DEF LogRing
      <4>2. [k \in 1 .. LogPlace(p - p, LogDramLen) |->
                 logDram'[LogPlace(p + k - 1, LogDramLen)]]
            = [k \in 1 .. LogPlace(p - p, LogDramLen) |-> LogInDram'[k]]
        BY <4>1
      <4> QED BY <4>1, <4>2, Zenon
    <3> QED BY <2>1, <3>2
  <2>3. CASE ~LogSane'
    BY <2>3 DEF LogInDram
  <2> QED BY <2>2, <2>3
<1>2. CASE LogRegister
  <2>1. UNCHANGED <<logSram, logDram, logSeen>> /\ logDw' = 0 /\ logDr' = 0
    BY <1>2 DEF LogRegister
  <2>2. LogInDram' = <<>>
    BY <1>0, <1>1, <2>1
  <2>3. logSeen \in Nat /\ logSeen <= LogGone
    BY DEF LogInv, LogTypeOK, LogInLine
  <2> QED BY <1>0, <2>1, <2>2, <2>3, EmptyLine, Zenon
<1>3. CASE LogApReads
  <2>1. /\ UNCHANGED <<logSram, logDram, logDw>> /\ logDr' = logDw /\ LogInDram # <<>>
        /\ logSeen' = LogInDram[Len(LogInDram)]
    BY <1>3 DEF LogApReads
  <2>2. logDw \in 0 .. LogDramLen - 1
    <3>1. LogSane
      BY <2>1 DEF LogInDram
    <3> QED BY <1>0, <3>1 DEF LogSane
  <2>3. LogInDram' = <<>>
    BY <1>1, <2>1, <2>2, Zenon
  <2>4. LogInDram[Len(LogInDram)] \in Nat /\ LogInDram[Len(LogInDram)] <= LogGone
    <3>1. LogInDram = [k \in 1 .. LogWaits |-> logDram[LogPlace(logDr + k - 1, LogDramLen)]]
          /\ LogWaits \in Nat
      BY DramRing, LogAssumption DEF LogInv
    <3>2. Len(LogInDram) = LogWaits /\ DOMAIN LogInDram = 1 .. LogWaits /\ LogWaits # 0
      BY <2>1, <3>1
    <3>3. LogWaits \in DOMAIN LogInDram
      BY <3>1, <3>2
    <3> QED BY <3>2, <3>3 DEF LogInv, LogInLine
  <2> QED BY <1>0, <2>1, <2>2, <2>3, <2>4, EmptyLine, Zenon
<1>4. CASE LogApForgets
  <2>1. UNCHANGED <<logSram, logDram, logSeen, logDr>> /\ logDw' = LogDramLen
    BY <1>4 DEF LogApForgets
  <2>2. ~LogSane'
    <3>1. ~(LogDramLen < LogDramLen)
      BY <1>0
    <3> QED BY <2>1, <3>1, Zenon DEF LogSane
  <2>3. LogInDram' = <<>>
    BY <2>2 DEF LogInDram
  <2>4. logSeen \in Nat /\ logSeen <= LogGone /\ LogDramLen \in 0 .. LogDramLen
    BY <1>0 DEF LogInv, LogTypeOK, LogInLine
  <2> QED BY <1>0, <2>1, <2>3, <2>4, EmptyLine, Zenon
<1>5. CASE LogUpdateEnable \/ LogUpdateWakeupAp
  <2>1. UNCHANGED <<logSram, logAp>>
    BY <1>5 DEF LogUpdateEnable, LogUpdateWakeupAp
  <2> QED BY <2>1, RingsKept
<1> QED BY <1>2, <1>3, <1>4, <1>5 DEF LogTheAp

(* Both rings are in order in every reachable state.                       *)
THEOREM LogInductive == LogSpec => []LogInv
<1>1. LogInit => LogInv
  <2> SUFFICES ASSUME LogInit PROVE LogInv
    OBVIOUS
  <2>1. LogTypeOK
    BY LogAssumption DEF LogInit, LogTypeOK
  <2>2. LogHeld
    <3>1. \A i \in 0 .. LogBufLen - 1 : ~(LogAge(i) < logCount)
      <4> TAKE i \in 0 .. LogBufLen - 1
      <4>1. LogAge(i) = IF 0 - 1 - i < 0 THEN 0 - 1 - i + LogBufLen ELSE 0 - 1 - i
        BY LogAssumption, Turn DEF LogInit, LogAge
      <4> QED BY <4>1, LogAssumption DEF LogInit
    <3> QED BY <3>1 DEF LogHeld
  <2>3. LogGone = 0 /\ LogInDram = <<>>
    <3>1. LogBuffered = 0
      BY DEF LogInit, LogBuffered
    <3>2. LogWaits = 0
      <4>1. LogPlace(0 - 0, LogDramLen) = 0
        BY LogAssumption, Turn
      <4> QED BY <4>1 DEF LogInit, LogWaits
    <3>3. LogInDram = [k \in 1 .. LogWaits |-> logDram[LogPlace(logDr + k - 1, LogDramLen)]]
      BY <2>1, DramRing
    <3> QED BY <3>1, <3>2, <3>3 DEF LogInit, LogGone
  <2>4. LogInLine
    BY <2>3 DEF LogInit, LogInLine
  <2> QED BY <2>1, <2>2, <2>4 DEF LogInv
<1>2. LogInv /\ [LogNext]_logVars => LogInv'
  <2> SUFFICES ASSUME LogInv, [LogNext]_logVars PROVE LogInv'
    OBVIOUS
  <2>1. ASSUME NEW n \in LogLengths, LogPuts(n) PROVE LogInv'
    BY <2>1, PutsLine
  <2>2. CASE LogUpdateMove
    BY <2>2, UpdateMoves, MoveLine, RingsKept
  <2>3. CASE LogTimerTask /\ ~LogUpdateMove
    <3>1. UNCHANGED <<logSram, logAp>>
      BY <2>3 DEF LogTimerTask, LogUpdateStart, LogUpdateOff, LogUpdateLater,
         LogUpdateFlag, LogUpdateGoOn, LogNotify
    <3> QED BY <3>1, RingsKept
  <2>4. CASE LogTheAp
    BY <2>4, TheApLine
  <2>5. CASE UNCHANGED logVars
    BY <2>5, RingsKept DEF logVars
  <2> QED BY <2>1, <2>2, <2>3, <2>4, <2>5 DEF LogNext
<1> QED BY <1>1, <1>2, PTL DEF LogSpec

(* The places of two sequences that are joined.                            *)
LEMMA Places ==
  ASSUME NEW s \in Seq(Int), NEW t \in Seq(Int)
  PROVE  /\ Len(s \o t) = Len(s) + Len(t) /\ Len(s) \in Nat /\ Len(t) \in Nat
         /\ \A k \in 1 .. Len(s) : (s \o t)[k] = s[k]
         /\ \A k \in 1 .. Len(t) : (s \o t)[Len(s) + k] = t[k]
  OBVIOUS

(* What is joined in order is in order.                                    *)
LEMMA Joined ==
  ASSUME NEW x \in Int, NEW g \in Int, x <= g,
         NEW A \in Seq(Int), NEW B \in Seq(Int),
         \A k \in 1 .. Len(A) : x < A[k] /\ A[k] <= g,
         \A k \in 1 .. Len(A) : \A j \in 1 .. Len(A) : j < k => A[j] < A[k],
         \A k \in 1 .. Len(B) : B[k] = g + k
  PROVE  LET log == <<x>> \o A \o B
         IN  \A i \in 2 .. Len(log) : log[i - 1] < log[i]
<1> DEFINE C == <<x>> \o A
           log == C \o B
<1>1. /\ C \in Seq(Int) /\ Len(C) = Len(A) + 1 /\ Len(A) \in Nat /\ Len(B) \in Nat
      /\ C[1] = x /\ \A k \in 2 .. Len(A) + 1 : C[k] = A[k - 1]
  OBVIOUS
<1> HIDE DEF C
<1> DEFINE a == Len(C)
           b == Len(B)
<1>2. /\ Len(log) = a + b /\ a \in Nat \ {0} /\ b \in Nat
      /\ \A k \in 1 .. a : log[k] = C[k]
      /\ \A k \in 1 .. b : log[a + k] = B[k]
      /\ \A k \in 1 .. b : B[k] = g + k
  <2>1. /\ Len(log) = a + b /\ Len(C) \in Nat /\ b \in Nat
        /\ \A k \in 1 .. a : log[k] = C[k]
        /\ \A k \in 1 .. b : log[a + k] = B[k]
    BY <1>1, Places, Zenon
  <2>2. a \in Nat \ {0}
    BY <1>1
  <2> QED BY <2>1, <2>2
<1>3. /\ \A k \in 1 .. a : C[k] \in Int /\ C[k] <= g
      /\ \A k \in 2 .. a : C[k - 1] < C[k]
  <2>1. \A k \in 1 .. Len(A) : A[k] \in Int
    OBVIOUS
  <2>2. ASSUME NEW k \in 1 .. a
        PROVE  C[k] \in Int /\ C[k] <= g
    <3>1. k = 1 \/ (C[k] = A[k - 1] /\ k - 1 \in 1 .. Len(A))
      BY <1>1
    <3> QED BY <1>1, <2>1, <3>1
  <2>3. ASSUME NEW k \in 2 .. a
        PROVE  C[k - 1] < C[k]
    <3>1. C[k] = A[k - 1] /\ k - 1 \in 1 .. Len(A)
      BY <1>1
    <3>2. k = 2 \/ (C[k - 1] = A[k - 2] /\ k - 2 \in 1 .. Len(A) /\ k - 2 < k - 1)
      <4>1. k # 2 => k - 1 \in 2 .. Len(A) + 1 /\ (k - 1) - 1 = k - 2
        BY <1>1
      <4>2. k # 2 => C[k - 1] = A[k - 2]
        BY <1>1, <4>1
      <4> QED BY <1>1, <4>2
    <3>3. k = 2 => C[k - 1] = x
      BY <1>1
    <3> QED BY <3>1, <3>2, <3>3
  <2> QED BY <2>2, <2>3
<1> HIDE DEF log, a, b
<1>4. ASSUME NEW i \in 2 .. Len(log)
      PROVE  log[i - 1] < log[i]
  <2>1. CASE i <= a
    <3>1. i \in 2 .. a /\ i \in 1 .. a /\ i - 1 \in 1 .. a
      BY <1>2, <2>1
    <3> QED BY <1>2, <1>3, <3>1
  <2>2. CASE i > a
    <3>1. PICK k \in 1 .. b : i = a + k
      <4>1. i - a \in 1 .. b /\ i = a + (i - a)
        BY <1>2, <2>2
      <4> QED BY <4>1
    <3>2. log[i] = g + k
      BY <1>2, <3>1
    <3>3. CASE k = 1
      <4>1. i - 1 = a /\ a \in 1 .. a
        BY <1>2, <3>1, <3>3
      <4>2. log[i - 1] = C[a] /\ C[a] \in Int /\ C[a] <= g
        BY <1>2, <1>3, <4>1
      <4> QED BY <3>2, <3>3, <4>2
    <3>4. CASE k # 1
      <4>1. i - 1 = a + (k - 1) /\ k - 1 \in 1 .. b
        BY <1>2, <3>1, <3>4
      <4>2. log[i - 1] = g + (k - 1)
        BY <1>2, <4>1
      <4> QED BY <3>2, <4>2
    <3> QED BY <3>3, <3>4
  <2> QED BY <1>2, <2>1, <2>2
<1> QED BY <1>4 DEF C, log

(* What waits in SRAM is the end of the log.                               *)
LEMMA SramBytes ==
  ASSUME LogInv
  PROVE  /\ LogInSram \in Seq(Int) /\ Len(LogInSram) = LogBuffered
         /\ \A k \in 1 .. LogBuffered : LogInSram[k] = LogGone + k
<1>1. /\ logW \in 0 .. LogBufLen - 1 /\ logR \in 0 .. LogBufLen - 1
      /\ LogBufLen \in Nat \ {0} /\ logCount \in Nat /\ logSeen \in Nat
      /\ LogBuffered \in 0 .. LogBufLen - 1 /\ LogBuffered \in Nat
      /\ LogGone = logCount - LogBuffered /\ logSeen <= LogGone
  <2>1. LogGone = logCount - LogBuffered
    BY DEF LogGone
  <2> QED BY <2>1, LogAssumption, SramRing DEF LogInv, LogTypeOK, LogInLine
<1>2. LogInSram = [k \in 1 .. LogBuffered |-> logBuf[LogPlace(logR + k - 1, LogBufLen)]]
  BY SramRing DEF LogInv
<1>3. LogBuffered = IF logW >= logR THEN logW - logR ELSE LogBufLen - (logR - logW)
  BY DEF LogBuffered
<1>4. ASSUME NEW k \in 1 .. LogBuffered
      PROVE  LogInSram[k] = LogGone + k
  <2> DEFINE i == LogPlace(logR + k - 1, LogBufLen)
  <2>1. i = IF logR + k - 1 < LogBufLen THEN logR + k - 1 ELSE logR + k - 1 - LogBufLen
    BY <1>1, Turn
  <2>2. LogInSram[k] = logBuf[i]
    BY <1>2
  <2> HIDE DEF i
  <2>3. i \in 0 .. LogBufLen - 1
    BY <1>1, <2>1
  <2>4. LogAge(i) = IF logW - 1 - i < 0 THEN logW - 1 - i + LogBufLen ELSE logW - 1 - i
    BY <1>1, <2>3, Turn DEF LogAge
  <2>5. LogAge(i) = LogBuffered - k
    BY <1>1, <1>3, <2>1, <2>4
  <2>6. LogBuffered - k < logCount
    BY <1>1
  <2>7. logBuf[i] = logCount - (LogBuffered - k)
    BY <2>3, <2>5, <2>6 DEF LogInv, LogHeld
  <2> QED BY <1>1, <2>2, <2>7
<1>5. LogInSram \in Seq(Int) /\ Len(LogInSram) = LogBuffered
  <2>1. LogInSram = [k \in 1 .. LogBuffered |-> LogInSram[k]]
    BY <1>2
  <2>2. \A k \in 1 .. LogBuffered : LogInSram[k] \in Int
    BY <1>1, <1>4
  <2> HIDE <1>2
  <2> QED BY <1>1, <2>1, <2>2
<1> QED BY <1>4, <1>5

(* What waits in DRAM is a sequence.                                       *)
LEMMA DramBytes ==
  ASSUME LogInv
  PROVE  LogInDram \in Seq(Int) /\ Len(LogInDram) = LogWaits
<1>1. LogWaits \in Nat /\ \A k \in 1 .. LogWaits : LogInDram[k] \in Int
  BY LineTypes
<1>2. LogInDram = [k \in 1 .. LogWaits |-> LogInDram[k]]
  BY DramRing DEF LogInv
<1> QED BY <1>1, <1>2

(* The AP reads the log in order, and what it has not read yet waits in    *)
(* order, the end of it without a gap.                                     *)
THEOREM LogInOrderHolds == LogSpec => []LogInOrder
<1>1. LogInv => LogInOrder
  <2> SUFFICES ASSUME LogInv PROVE LogInOrder
    OBVIOUS
  <2>1. /\ logSeen \in Int /\ LogGone \in Int /\ logSeen <= LogGone
        /\ LogInDram \in Seq(Int) /\ LogInSram \in Seq(Int)
        /\ Len(LogInDram) = LogWaits /\ DOMAIN LogInDram = 1 .. LogWaits
        /\ Len(LogInSram) = LogBuffered
    BY LineTypes, SramBytes, DramBytes DEF LogInv, LogInLine
  <2>2. /\ \A k \in 1 .. Len(LogInDram) : logSeen < LogInDram[k] /\ LogInDram[k] <= LogGone
        /\ \A k \in 1 .. Len(LogInDram) : \A j \in 1 .. Len(LogInDram) :
              j < k => LogInDram[j] < LogInDram[k]
    BY <2>1 DEF LogInv, LogInLine
  <2>3. \A k \in 1 .. Len(LogInSram) : LogInSram[k] = LogGone + k
    BY <2>1, SramBytes
  <2>4. \A i \in 2 .. Len(<<logSeen>> \o LogInDram \o LogInSram) :
          (<<logSeen>> \o LogInDram \o LogInSram)[i - 1]
            < (<<logSeen>> \o LogInDram \o LogInSram)[i]
    BY <2>1, <2>2, <2>3, Joined
  <2>5. \A i \in DOMAIN LogInSram : LogInSram[i] = logCount - Len(LogInSram) + i
    <3>1. DOMAIN LogInSram = 1 .. LogBuffered /\ LogGone = logCount - LogBuffered
          /\ logCount \in Nat /\ LogBuffered \in Nat
      BY <2>1, LineTypes
    <3> QED BY <2>1, <2>3, <3>1
  <2> QED BY <2>4, <2>5 DEF LogInOrder
<1> QED BY <1>1, LogInductive, PTL

(* A sequence is a prefix of one that goes on.                             *)
LEMMA Longer ==
  ASSUME NEW s \in Seq(Int), NEW t \in Seq(Int), Len(s) <= Len(t),
         \A k \in 1 .. Len(s) : t[k] = s[k]
  PROVE  IsPrefix(s, t)
<1>1. /\ SubSeq(s, 1, Len(s)) \in Seq(Int) /\ SubSeq(t, 1, Len(s)) \in Seq(Int)
      /\ Len(SubSeq(s, 1, Len(s))) = Len(s) /\ Len(SubSeq(t, 1, Len(s))) = Len(s)
      /\ \A k \in 1 .. Len(s) : SubSeq(s, 1, Len(s))[k] = s[k] /\ SubSeq(t, 1, Len(s))[k] = t[k]
  OBVIOUS
<1>2. SubSeq(s, 1, Len(s)) = SubSeq(t, 1, Len(s))
  BY <1>1
<1> QED BY <1>2 DEF IsPrefix

(* Nothing is dropped without need: a text drops bytes in SRAM only for    *)
(* its own place, and bytes in DRAM wait for the AP.                       *)
THEOREM LogKeepsHolds == LogSpec => LogKeeps
<1> DEFINE Kept ==
      /\ logCount' # logCount =>
            \/ LogBuffered' = IF logR' # logR THEN LogBufLen - 1
                              ELSE LogBuffered + logCount' - logCount
            \/ logW < logR /\ logW' = logR
      /\ UNCHANGED <<logSeen, logInited>> /\ LogSane' => IsPrefix(LogInDram, LogInDram')
<1>1. LogInv /\ LogInv' /\ [LogNext]_logVars => [Kept]_logVars
  <2> SUFFICES ASSUME LogInv, LogInv', LogNext PROVE Kept
    OBVIOUS
  <2>0. LogInDram \in Seq(Int) /\ IsPrefix(LogInDram, LogInDram)
    BY DramBytes, Longer
  <2>1. ASSUME NEW n \in LogLengths, LogPuts(n) PROVE Kept
    <3>1. /\ \/ LogBuffered' = (IF logR' # logR THEN LogBufLen - 1 ELSE LogBuffered + n)
             \/ logW < logR /\ logW' = logR
             \/ n = 0
          /\ logCount' = logCount + n /\ n \in Nat /\ logCount \in Nat /\ LogBuffered \in Nat
      BY <2>1, PutsRoom, LineTypes, LogAssumption DEF LogInv, LogPuts
    <3>2. IsPrefix(LogInDram, LogInDram')
      BY <2>0, <2>1, PutsLine
    <3>3. LogBuffered + (logCount + n) - logCount = LogBuffered + n
          /\ (n = 0 => logCount + n = logCount)
      BY <3>1
    <3>4. LogBuffered + logCount' - logCount = LogBuffered + n
          /\ (n = 0 => logCount' = logCount)
      BY <3>1, <3>3
    <3> QED BY <3>1, <3>2, <3>4, Zenon
  <2>2. ASSUME UNCHANGED <<logSram, logAp>> PROVE Kept
    <3>1. logCount' = logCount
      BY <2>2 DEF logSram
    <3> QED BY <2>0, <2>2, <3>1, RingsKept
  <2>3. ASSUME NEW skip, NEW n, LogMoves(skip, n) PROVE Kept
    <3>1. logCount' = logCount
      BY <2>3 DEF LogMoves
    <3>2. PICK new : new = LogInDram'
      OBVIOUS
    <3>3. /\ DOMAIN new = 1 .. LogWaits + n
          /\ \A k \in 1 .. LogWaits : new[k] = LogInDram[k]
          /\ new = [k \in 1 .. LogWaits + n |-> new[k]]
      <4>1. \E f : new = [k \in 1 .. LogWaits + n |-> f[LogPlace(logDr + k - 1, LogDramLen)]]
        BY <2>3, <3>2, MoveCounts DEF LogInv
      <4> QED BY <2>3, <3>2, <4>1, MoveBytes
    <3>4. LogWaits \in Nat /\ n \in Nat /\ Len(LogInDram) = LogWaits
      BY <2>3, LineTypes, MoveFits, DramBytes DEF LogInv
    <3>5. \A k \in 1 .. LogWaits + n : new[k] \in Int
      <4>1. \A k \in DOMAIN LogInDram' : LogInDram'[k] \in Nat
        BY Zenon DEF LogInv, LogInLine
      <4> QED BY <3>2, <3>3, <4>1
    <3>6. new \in Seq(Int) /\ Len(new) = LogWaits + n
      BY <3>3, <3>4, <3>5
    <3>7. IsPrefix(LogInDram, new)
      <4>1. Len(LogInDram) <= Len(new) /\ \A k \in 1 .. Len(LogInDram) : new[k] = LogInDram[k]
        <5>1. Len(LogInDram) <= Len(new)
          BY <3>4, <3>6
        <5>2. \A k \in 1 .. LogWaits : new[k] = LogInDram[k]
          BY <3>3
        <5> QED BY <3>4, <5>1, <5>2
      <4> QED BY <2>0, <3>6, <4>1, Longer
    <3> QED BY <3>1, <3>2, <3>7
  <2>4. CASE LogUpdateMove
    BY <2>2, <2>3, <2>4, UpdateMoves
  <2>5. CASE LogTimerTask /\ ~LogUpdateMove
    <3>1. UNCHANGED <<logSram, logAp>>
      BY <2>5 DEF LogTimerTask, LogUpdateStart, LogUpdateOff, LogUpdateLater,
         LogUpdateFlag, LogUpdateGoOn, LogNotify
    <3> QED BY <2>2, <3>1
  <2>6. CASE LogUpdateEnable \/ LogUpdateWakeupAp
    <3>1. UNCHANGED <<logSram, logAp>>
      BY <2>6 DEF LogUpdateEnable, LogUpdateWakeupAp
    <3> QED BY <2>2, <3>1
  <2>7. CASE LogRegister
    <3>1. logCount' = logCount /\ logInited' # logInited
      BY <2>7 DEF LogRegister, logSram
    <3> QED BY <3>1
  <2>8. CASE LogApReads
    <3>1. logCount' = logCount /\ LogInDram # <<>> /\ logSeen' = LogInDram[Len(LogInDram)]
      BY <2>8 DEF LogApReads, logSram
    <3>2. logSeen' # logSeen
      <4>1. Len(LogInDram) \in DOMAIN LogInDram
        BY <2>0, <3>1
      <4>2. logSeen < LogInDram[Len(LogInDram)] /\ LogInDram[Len(LogInDram)] \in Nat
            /\ logSeen \in Nat
        BY <4>1 DEF LogInv, LogInLine, LogTypeOK
      <4> QED BY <3>1, <4>2
    <3> QED BY <3>1, <3>2
  <2>9. CASE LogApForgets
    <3>1. logCount' = logCount /\ logDw' = LogDramLen
      BY <2>9 DEF LogApForgets, logSram
    <3>2. ~(LogDramLen < LogDramLen)
      BY LogAssumption
    <3> QED BY <3>1, <3>2 DEF LogSane
  <2> QED BY <2>1, <2>4, <2>5, <2>6, <2>7, <2>8, <2>9 DEF LogNext, LogTheAp
<1> QED BY <1>1, LogInductive, PTL DEF LogSpec, LogKeeps
=============================================================================
