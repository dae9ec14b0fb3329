---------------------------- MODULE AudioProofs ----------------------------
(***************************************************************************)
(* Proofs about AudioLock for every finite set of tasks and every use of   *)
(* the lock: mutual exclusion, the meaning of lock_count, and that a       *)
(* signal is kept for a sleeping waiter.  And about AudioPipe for any      *)
(* owners, users, periods and amount of recorded data: what PipeServes     *)
(* says of the streams and of the hardware.  And about AudioDma for any    *)
(* size of region, alignment, queue, and any sizes of messages: DmaWhole.  *)
(***************************************************************************)
EXTENDS AudioLock, AudioPipe, AudioDma, FiniteSetTheorems, SequenceTheorems, TLAPS

(* Only a task that is still asleep is owed a signal.                      *)
OnlySleepers == \A t \in Tasks : signalled[t] => pc[t] = "sleep"

Inv == TypeOK /\ Exclusive /\ SignalKept /\ OnlySleepers

LEMMA InitInv == Init => Inv
  BY TaskAssumption DEF Init, Inv, TypeOK, Exclusive, SignalKept, OnlySleepers, Points

LEMMA NextInv == Inv /\ [Next]_vars => Inv'
<1> SUFFICES ASSUME Inv, [Next]_vars PROVE Inv'
  OBVIOUS
<1> USE DEF Inv, TypeOK, Exclusive, SignalKept, OnlySleepers, Points, Go
<1>1. CASE UNCHANGED vars
  BY <1>1 DEF vars
<1>2. CASE Next
  <2> PICK t \in Tasks :
        \/ Run(t) \/ TryLock(t) \/ Signal(t)
        \/ \E isTimed \in BOOLEAN : CallLock(t, isTimed) \/ CallWait(t, isTimed)
    BY <1>2 DEF Next
  <2>1. CASE Take(t)
    BY <2>1, TaskAssumption DEF Take
  <2>2. CASE TakeTimesOut(t)
    BY <2>2 DEF TakeTimesOut
  <2>3. CASE CountDown(t)
    BY <2>3 DEF CountDown
  <2>4. CASE Unlock(t)
    BY <2>4 DEF Unlock
  <2>5. CASE CheckCount(t)
    BY <2>5 DEF CheckCount
  <2>6. CASE Yield(t)
    BY <2>6 DEF Yield
  <2>7. CASE Receive(t)
    BY <2>7 DEF Receive
  <2>8. CASE ReceiveTimesOut(t)
    BY <2>8 DEF ReceiveTimesOut
  <2>9. CASE Relock(t)
    BY <2>9 DEF Relock
  <2>10. CASE TryLock(t)
    BY <2>10, TaskAssumption DEF TryLock
  <2>11. CASE Signal(t)
    BY <2>11 DEF Signal
  <2>12. ASSUME NEW isTimed \in BOOLEAN, CallLock(t, isTimed) PROVE Inv'
    BY <2>12 DEF CallLock
  <2>13. ASSUME NEW isTimed \in BOOLEAN, CallWait(t, isTimed) PROVE Inv'
    BY <2>13 DEF CallWait
  <2> QED
    BY <2>1, <2>2, <2>3, <2>4, <2>5, <2>6, <2>7, <2>8, <2>9, <2>10, <2>11,
       <2>12, <2>13 DEF Run
<1> QED
  BY <1>1, <1>2

----------------------------------------------------------------------------
(* lock_count is kept apart: it needs the cardinality of Counted.          *)

LEMMA CountedFinite == IsFiniteSet(Counted) /\ Cardinality(Counted) \in Nat
<1>1. IsFiniteSet(Counted)
  BY TaskAssumption, FS_Subset DEF Counted
<1> QED
  BY <1>1, FS_CardinalityType

(* A task that starts to take the mutex is one more, counted once.         *)
LEMMA OneMore ==
  ASSUME TypeOK, CountIsWaiters, NEW t \in Tasks, t \notin Counted,
         lock_count' = lock_count + 1, pc' = [pc EXCEPT ![t] = "take"]
  PROVE  CountIsWaiters'
<1>1. Counted' = Counted \union {t}
  BY DEF Counted, TypeOK
<1>2. Cardinality(Counted') = Cardinality(Counted) + 1
  BY <1>1, CountedFinite, FS_AddElement
<1> QED
  BY <1>2 DEF CountIsWaiters

(* A task that is done, or gave up, is one less.                           *)
LEMMA OneLess ==
  ASSUME TypeOK, CountIsWaiters, NEW t \in Counted, NEW p \in {"in", "out"},
         lock_count' = lock_count - 1, pc' = [pc EXCEPT ![t] = p]
  PROVE  CountIsWaiters'
<1>1. Counted' = Counted \ {t}
  BY DEF Counted, TypeOK
<1>2. Cardinality(Counted') = Cardinality(Counted) - 1
  BY <1>1, CountedFinite, FS_RemoveElement
<1> QED
  BY <1>2 DEF CountIsWaiters

(* A step of a task that stays counted, or stays not counted.              *)
LEMMA NoneMoved ==
  ASSUME CountIsWaiters, lock_count' = lock_count, Counted' = Counted
  PROVE  CountIsWaiters'
  BY DEF CountIsWaiters

LEMMA InitCount == Init => CountIsWaiters
<1> SUFFICES ASSUME Init PROVE CountIsWaiters
  OBVIOUS
<1>1. Counted = {}
  BY DEF Init, Counted
<1> QED
  BY <1>1, FS_EmptySet DEF Init, CountIsWaiters

LEMMA NextCount == TypeOK /\ CountIsWaiters /\ [Next]_vars => CountIsWaiters'
<1> SUFFICES ASSUME TypeOK, CountIsWaiters, [Next]_vars PROVE CountIsWaiters'
  OBVIOUS
<1>1. CASE UNCHANGED vars
  BY <1>1, NoneMoved DEF vars, Counted
<1>2. CASE Next
  <2> PICK t \in Tasks :
        \/ Run(t) \/ TryLock(t) \/ Signal(t)
        \/ \E isTimed \in BOOLEAN : CallLock(t, isTimed) \/ CallWait(t, isTimed)
    BY <1>2 DEF Next
  <2>1. CASE Relock(t) \/ \E isTimed \in BOOLEAN : CallLock(t, isTimed)
    <3>1. t \notin Counted /\ lock_count' = lock_count + 1
                           /\ pc' = [pc EXCEPT ![t] = "take"]
      BY <2>1 DEF Relock, CallLock, Counted, Go
    <3> QED
      BY <3>1, OneMore
  <2>2. CASE CountDown(t)
    <3>1. t \in Counted /\ lock_count' = lock_count - 1
      BY <2>2 DEF CountDown, Counted
    <3>2. PICK p \in {"in", "out"} : pc' = [pc EXCEPT ![t] = p]
      BY <2>2 DEF CountDown, Go
    <3> QED
      BY <3>1, <3>2, OneLess
  <2>3. CASE Take(t) \/ TakeTimesOut(t)
    <3>1. lock_count' = lock_count /\ Counted' = Counted
      BY <2>3 DEF Take, TakeTimesOut, Counted, Go, TypeOK
    <3> QED
      BY <3>1, NoneMoved
  <2>4. CASE \/ Unlock(t) \/ CheckCount(t) \/ Yield(t) \/ Receive(t)
             \/ ReceiveTimesOut(t) \/ TryLock(t) \/ Signal(t)
             \/ \E isTimed \in BOOLEAN : CallWait(t, isTimed)
    <3>1. lock_count' = lock_count /\ Counted' = Counted
      BY <2>4 DEF Unlock, CheckCount, Yield, Receive, ReceiveTimesOut,
                  TryLock, Signal, CallWait, Counted, Go, TypeOK
    <3> QED
      BY <3>1, NoneMoved
  <2> QED
    BY <2>1, <2>2, <2>3, <2>4 DEF Run
<1> QED
  BY <1>1, <1>2

----------------------------------------------------------------------------
(* Every reachable state has the type that TypeOK says.                    *)
THEOREM TypeCorrect == Spec => []TypeOK
<1>1. Inv => TypeOK
  BY DEF Inv
<1> QED
  BY InitInv, NextInv, <1>1, PTL DEF Spec

(* The mutex excludes: whoever a lock, a trylock or a wait returned to has *)
(* it.                                                                     *)
THEOREM ExclusiveHolds == Spec => []Exclusive
<1>1. Inv => Exclusive
  BY DEF Inv
<1> QED
  BY InitInv, NextInv, <1>1, PTL DEF Spec

(* A signal given to a sleeping waiter waits for it in the queue.          *)
THEOREM SignalKeptHolds == Spec => []SignalKept
<1>1. Inv => SignalKept
  BY DEF Inv
<1> QED
  BY InitInv, NextInv, <1>1, PTL DEF Spec

(* lock_count is exact, so it is never negative and alock_unlock yields    *)
(* whenever a counted task waits for the mutex.                            *)
THEOREM CountIsWaitersHolds == Spec => []CountIsWaiters
<1>1. CountIsWaiters /\ []TypeOK /\ [][Next]_vars => []CountIsWaiters
  BY NextCount, PTL
<1> QED
  BY InitCount, TypeCorrect, <1>1, PTL DEF Spec
---------------------------------------------------------------------------
(* The invariant of the pipes: types, and, while no task has used a pipe   *)
(* that is freed, PipeGood, whose parts say what the event that holds the  *)
(* lock has, who may work with a pipe, what its owner's step says of it    *)
(* and of the hardware, and what each user has.                            *)

PipeDos == {"idle", "opened", "refused", "close", "delete", "attach", "detach", "read",
            "event", "fetch", "share"}
PipeSteps == [do : PipeDos, pipe : PipeOwners \cup {PipeNowhere}, left : Int, data : Seq(Nat)]
PipeAtOK == pipeAt \in [PipeTasks -> PipeSteps]
PipeRings == [on : BOOLEAN, ring : Seq(Nat), len : Nat]
PipeTypeOK ==
    /\ pipeOf \in [PipeOwners -> [open : BOOLEAN, size : Nat, opened : Nat, born : Nat]]
    /\ pipeUser \in [PipeOwners -> [PipeUsers -> PipeRings]]
    /\ pipeLock \in [PipeOwners -> {PipeFree, PipeIrq}]
    /\ pipeHw \in [PipeOwners -> {"closed", "open", "running"}]
    /\ pipeCame \in [PipeOwners -> Nat] /\ pipeRead \in [PipeOwners -> Nat]
    /\ PipeAtOK
    /\ pipeTaken \in [PipeOwners -> [PipeUsers -> Nat]]
    /\ pipeDropped \in [PipeOwners -> [PipeUsers -> SUBSET Nat]]

\* The event that holds the lock of a pipe has the units that come next.
PipeEventOwns ==
    LET at == pipeAt[PipeIrq] IN
    /\ \A o \in PipeOwners : pipeLock[o] = PipeIrq <=> at.do \in {"fetch", "share"} /\ at.pipe = o
    /\ at.do = "share" => at.data = [k \in 1 .. Len(at.data) |-> pipeRead[at.pipe] + k]

\* Who works with a pipe has one, that is not being deleted.
PipeWorks(t) ==
    pipeAt[t].do \in {"attach", "detach", "read", "event", "fetch", "share"} =>
        LET o == pipeAt[t].pipe IN
        /\ o \in PipeOwners
        /\ pipeAt[t].do # "read" => pipeOf[o].open /\ pipeAt[o].do # "delete"
        /\ pipeAt[t].do \in {"event", "fetch", "share"} => t = PipeIrq

\* What the owner is about says whether there is a pipe, and its hardware.
PipeOwns(o) ==
    /\ pipeAt[o].do \in {"opened", "refused"} => ~pipeOf[o].open
    /\ pipeAt[o].do = "opened" => pipeHw[o] = "open"
    /\ pipeAt[o].do = "refused" => pipeHw[o] = "closed"
    /\ pipeAt[o].do \in {"close", "delete"} => pipeOf[o].open
    /\ pipeAt[o].do = "delete" => pipeHw[o] = "closed" /\ pipeOf[o].size = 0
    /\ pipeAt[o].do \notin {"opened", "refused", "delete"} /\ o \notin pipeLeaked =>
          (pipeHw[o] = "closed" <=> ~pipeOf[o].open)
    /\ ~pipeOf[o].open \/ pipeAt[o].do = "delete" => PipeOnes(o) = {}

\* What a user has, and has missed, was read from the hardware.
PipeHas(o, u) ==
    pipeUser[o][u].on =>
        /\ pipeTaken[o][u] <= pipeRead[o]
        /\ \A k \in pipeDropped[o][u] : k <= pipeRead[o]

PipeStream(o, u) ==
    pipeUser[o][u].on =>
        PipeSorted(pipeUser[o][u].ring) /\ ToSet(pipeUser[o][u].ring) = PipeUnread(o, u)
PipeGood ==
    /\ PipeEventOwns
    /\ \A t \in PipeTasks : PipeWorks(t)
    /\ \A o \in PipeOwners : PipeOwns(o)
    /\ \A o \in PipeOwners : pipeHw[o] = "running" <=> PipeOnes(o) # {}
    /\ \A o \in PipeOwners, u \in PipeUsers : PipeHas(o, u) /\ PipeStream(o, u)
PipeInv == PipeTypeOK /\ (pipeGone \/ PipeGood)

\* What a task does next is well formed when it is begun, changed and over.
LEMMA PipeBegins ==
  ASSUME NEW d \in PipeDos, NEW p \in PipeOwners, NEW l \in Int
  PROVE  /\ [PipeAway EXCEPT !.pipe = p, !.do = d] \in PipeSteps
         /\ [PipeAway EXCEPT !.do = d, !.pipe = p] \in PipeSteps
         /\ [PipeAway EXCEPT !.do = d, !.pipe = p, !.left = l] \in PipeSteps
<1>1. PipeAway \in PipeSteps
  <2>1. <<>> \in Seq(Nat)
    OBVIOUS
  <2> QED BY <2>1 DEF PipeAway, PipeSteps, PipeDos
<1>2. \A a \in PipeSteps : /\ [a EXCEPT !.do = d] \in PipeSteps
                           /\ [a EXCEPT !.pipe = p] \in PipeSteps
                           /\ [a EXCEPT !.left = l] \in PipeSteps
  BY DEF PipeSteps
<1>3. /\ [PipeAway EXCEPT !.pipe = p, !.do = d] = [[PipeAway EXCEPT !.pipe = p] EXCEPT !.do = d]
      /\ [PipeAway EXCEPT !.do = d, !.pipe = p] = [[PipeAway EXCEPT !.do = d] EXCEPT !.pipe = p]
      /\ [PipeAway EXCEPT !.do = d, !.pipe = p, !.left = l]
            = [[[PipeAway EXCEPT !.do = d] EXCEPT !.pipe = p] EXCEPT !.left = l]
  OBVIOUS
<1> HIDE DEF PipeAway, PipeSteps
<1> QED BY <1>1, <1>2, <1>3

LEMMA PipeShares ==
  ASSUME NEW a \in PipeSteps, NEW q \in Seq(Nat)
  PROVE  [a EXCEPT !.do = "share", !.left = a.left - 1, !.data = q] \in PipeSteps
<1>1. a.left - 1 \in Int
  BY DEF PipeSteps
<1> QED BY <1>1 DEF PipeSteps, PipeDos

LEMMA PipeAtSet ==
  ASSUME PipeAtOK, NEW t \in PipeTasks, NEW e \in PipeSteps, pipeAt' = [pipeAt EXCEPT ![t] = e]
  PROVE  PipeAtOK'
BY DEF PipeAtOK

LEMMA PipeAtDone ==
  ASSUME PipeAtOK, NEW t \in PipeTasks, PipeDone(t)
  PROVE  PipeAtOK'
<1>1. PipeAway \in PipeSteps
  <2>1. <<>> \in Seq(Nat)
    OBVIOUS
  <2> QED BY <2>1 DEF PipeAway, PipeSteps, PipeDos
<1> QED BY <1>1, PipeAtSet DEF PipeDone

LEMMA PipeAtGoes ==
  ASSUME PipeAtOK, NEW t \in PipeTasks, NEW d \in PipeDos, pipeAt' = [pipeAt EXCEPT ![t].do = d]
  PROVE  PipeAtOK'
<1>1. pipeAt[t] \in PipeSteps
  BY DEF PipeAtOK
<1>2. [pipeAt[t] EXCEPT !.do = d] \in PipeSteps
  BY <1>1 DEF PipeSteps
<1>3. pipeAt' = [pipeAt EXCEPT ![t] = [pipeAt[t] EXCEPT !.do = d]]
  OBVIOUS
<1> QED BY <1>2, <1>3, PipeAtSet

(* What the tasks do is well formed,                                       *)
LEMMA PipeAtKept ==
  ASSUME PipeInv, PipeNext
  PROVE  PipeAtOK'
<1> USE PipeAssumption DEF PipeInv, PipeTypeOK, PipeTurn, PipeGoes, PipeDone, pipeLocks, pipeGhost,
        PipeAtOK, PipeDos, PipeTasks
<1>1. ASSUME NEW o \in PipeOwners, PipeComes(o)
      PROVE  PipeAtOK'
  BY <1>1 DEF PipeComes
<1>2. ASSUME NEW o \in PipeOwners, NEW size \in PipeSizes, PipeUpdateReadSize(o, size)
      PROVE  PipeAtOK'
  BY <1>2 DEF PipeUpdateReadSize
<1>3. ASSUME NEW o \in PipeOwners, PipeOpen(o)
      PROVE  PipeAtOK'
  <2>1. \E d \in PipeDos : pipeAt' = [pipeAt EXCEPT ![o] = [PipeAway EXCEPT !.pipe = o, !.do = d]]
    BY <1>3 DEF PipeOpen
  <2>2. \A d \in PipeDos : [PipeAway EXCEPT !.pipe = o, !.do = d] \in PipeSteps
    <3>1. 0 \in Int
      OBVIOUS
    <3> HIDE DEF PipeDos
    <3> QED BY <3>1, PipeBegins
  <2>3. o \in PipeTasks /\ PipeAtOK
    OBVIOUS
  <2> HIDE DEF PipeAtOK
  <2> QED BY <2>1, <2>2, <2>3, PipeAtSet
<1>4. ASSUME NEW o \in PipeOwners, PipeNotOpened(o)
      PROVE  PipeAtOK'
  <2>1. o \in PipeTasks /\ PipeDone(o) /\ PipeAtOK
    BY <1>4 DEF PipeNotOpened
  <2> QED BY <2>1, PipeAtDone
<1>5. ASSUME NEW o \in PipeOwners, PipeClose(o)
      PROVE  PipeAtOK'
  <2>1. o \in PipeTasks /\ pipeAt' = [pipeAt EXCEPT ![o].do = "close"] /\ PipeAtOK /\ "close" \in PipeDos
    BY <1>5 DEF PipeClose
  <2> QED BY <2>1, PipeAtGoes
<1>6. ASSUME NEW o \in PipeOwners, PipeClosePipe(o)
      PROVE  PipeAtOK'
  <2>1. o \in PipeTasks /\ pipeAt' = [pipeAt EXCEPT ![o].do = "delete"] /\ PipeAtOK /\ "delete" \in PipeDos
    BY <1>6 DEF PipeClosePipe
  <2> QED BY <2>1, PipeAtGoes
<1>7. ASSUME NEW o \in PipeOwners, PipeDelete(o)
      PROVE  PipeAtOK'
  <2>1. o \in PipeTasks /\ PipeDone(o) /\ PipeAtOK
    BY <1>7 DEF PipeDelete
  <2> QED BY <2>1, PipeAtDone
<1>8. ASSUME NEW o \in PipeOwners, PipeEvent(o)
      PROVE  PipeAtOK'
  <2> DEFINE l == (pipeCame[o] - pipeRead[o]) \div pipeOf[o].size
  <2>1. l \in Int
    BY <1>8 DEF PipeEvent
  <2>2. pipeAt' = [pipeAt EXCEPT ![PipeIrq] = [PipeAway EXCEPT !.do = "event", !.pipe = o, !.left = l]]
    BY <1>8 DEF PipeEvent
  <2> HIDE DEF l
  <2>3. [PipeAway EXCEPT !.do = "event", !.pipe = o, !.left = l] \in PipeSteps
    <3>1. "event" \in PipeDos
      OBVIOUS
    <3> HIDE DEF PipeDos
    <3> QED BY <2>1, <3>1, PipeBegins
  <2>4. PipeIrq \in PipeTasks /\ PipeAtOK
    OBVIOUS
  <2> HIDE DEF PipeAtOK
  <2> QED BY <2>2, <2>3, <2>4, PipeAtSet
<1>9. ASSUME NEW o \in PipeOwners, NEW size \in PipeSizes, PipeOpened(o, size)
      PROVE  PipeAtOK'
  <2>1. o \in PipeTasks /\ PipeDone(o) /\ PipeAtOK
    BY <1>9 DEF PipeOpened
  <2> QED BY <2>1, PipeAtDone
<1>10. ASSUME NEW o \in PipeOwners, NEW u \in PipeUsers, PipeFindsToAttach(u, o)
      PROVE  PipeAtOK'
  <2>1. pipeAt' = [pipeAt EXCEPT ![u] = [PipeAway EXCEPT !.do = "attach", !.pipe = o]]
    BY <1>10 DEF PipeFindsToAttach, PipeFinds
  <2>2. [PipeAway EXCEPT !.do = "attach", !.pipe = o] \in PipeSteps
    <3>1. 0 \in Int /\ "attach" \in PipeDos
      OBVIOUS
    <3> HIDE DEF PipeDos
    <3> QED BY <3>1, PipeBegins
  <2>3. u \in PipeTasks /\ PipeAtOK
    OBVIOUS
  <2> HIDE DEF PipeAtOK
  <2> QED BY <2>1, <2>2, <2>3, PipeAtSet
<1>11. ASSUME NEW o \in PipeOwners, NEW u \in PipeUsers, PipeFindsToDetach(u, o)
      PROVE  PipeAtOK'
  <2>1. pipeAt' = [pipeAt EXCEPT ![u] = [PipeAway EXCEPT !.do = "detach", !.pipe = o]]
    BY <1>11 DEF PipeFindsToDetach, PipeFinds
  <2>2. [PipeAway EXCEPT !.do = "detach", !.pipe = o] \in PipeSteps
    <3>1. 0 \in Int /\ "detach" \in PipeDos
      OBVIOUS
    <3> HIDE DEF PipeDos
    <3> QED BY <3>1, PipeBegins
  <2>3. u \in PipeTasks /\ PipeAtOK
    OBVIOUS
  <2> HIDE DEF PipeAtOK
  <2> QED BY <2>1, <2>2, <2>3, PipeAtSet
<1>12. ASSUME NEW o \in PipeOwners, NEW u \in PipeUsers, PipeReads(u, o)
      PROVE  PipeAtOK'
  <2>1. \/ pipeAt' = [pipeAt EXCEPT ![u] = [PipeAway EXCEPT !.do = "read", !.pipe = o]]
        \/ pipeAt' = pipeAt
    BY <1>12 DEF PipeReads
  <2>2. [PipeAway EXCEPT !.do = "read", !.pipe = o] \in PipeSteps
    <3>1. 0 \in Int /\ "read" \in PipeDos
      OBVIOUS
    <3> HIDE DEF PipeDos
    <3> QED BY <3>1, PipeBegins
  <2>3. u \in PipeTasks /\ PipeAtOK /\ (pipeAt' = pipeAt => PipeAtOK')
    OBVIOUS
  <2> HIDE DEF PipeAtOK
  <2> QED BY <2>1, <2>2, <2>3, PipeAtSet
<1>13. ASSUME NEW u \in PipeUsers, PipeAttach(u)
      PROVE  PipeAtOK'
  <2>1. u \in PipeTasks /\ PipeDone(u) /\ PipeAtOK
    BY <1>13 DEF PipeAttach
  <2> QED BY <2>1, PipeAtDone
<1>14. ASSUME NEW u \in PipeUsers, PipeDetach(u)
      PROVE  PipeAtOK'
  <2>1. u \in PipeTasks /\ PipeDone(u) /\ PipeAtOK
    BY <1>14 DEF PipeDetach
  <2> QED BY <2>1, PipeAtDone
<1>15. ASSUME NEW u \in PipeUsers, NEW n \in PipeSizes, PipeCopies(u, n)
      PROVE  PipeAtOK'
  <2>1. u \in PipeTasks /\ PipeDone(u) /\ PipeAtOK
    BY <1>15 DEF PipeCopies
  <2> QED BY <2>1, PipeAtDone
<1>16. CASE PipeEventLocks
  <2>1. PipeIrq \in PipeTasks /\ PipeAtOK /\ "fetch" \in PipeDos
    OBVIOUS
  <2>2. PipeDone(PipeIrq) \/ pipeAt' = [pipeAt EXCEPT ![PipeIrq].do = "fetch"]
    BY <1>16 DEF PipeEventLocks
  <2> HIDE DEF PipeAtOK, PipeDone, PipeDos
  <2> QED BY <2>1, <2>2, PipeAtDone, PipeAtGoes
<1>17. CASE PipeFetch
  <2> DEFINE p == pipeAt[PipeIrq].pipe
             q == [k \in 1 .. pipeOf[p].size |-> pipeRead[p] + k]
  <2>1. PipeIrq \in PipeTasks /\ PipeAtOK /\ pipeAt[PipeIrq] \in PipeSteps
    OBVIOUS
  <2>2. CASE PipeDone(PipeIrq)
    <3> HIDE DEF PipeAtOK, PipeDone
    <3> QED BY <2>1, <2>2, PipeAtDone
  <2>3. CASE pipeAt' = [pipeAt EXCEPT ![PipeIrq].do = "share", ![PipeIrq].left = @ - 1, ![PipeIrq].data = q]
    <3>1. p \in PipeOwners
      BY <1>17 DEF PipeFetch, PipeGood, PipeWorks
    <3>2. q \in Seq(Nat)
      <4>1. pipeOf[p].size \in Nat /\ pipeRead[p] \in Nat
        BY <3>1
      <4> HIDE DEF p, PipeInv, PipeTypeOK, PipeAtOK
      <4> QED BY <4>1
    <3> HIDE DEF p, q
    <3>3. pipeAt' = [pipeAt EXCEPT ![PipeIrq] = [pipeAt[PipeIrq] EXCEPT !.do = "share",
                                                 !.left = pipeAt[PipeIrq].left - 1, !.data = q]]
      BY <2>1, <2>3
    <3>4. [pipeAt[PipeIrq] EXCEPT !.do = "share", !.left = pipeAt[PipeIrq].left - 1, !.data = q] \in PipeSteps
      BY <2>1, <3>2, PipeShares
    <3> HIDE DEF PipeAtOK
    <3> QED BY <2>1, <3>3, <3>4, PipeAtSet
  <2> QED BY <1>17, <2>2, <2>3 DEF PipeFetch
<1>18. CASE PipeShare
  <2>1. PipeIrq \in PipeTasks /\ pipeAt' = [pipeAt EXCEPT ![PipeIrq].do = "fetch"] /\ PipeAtOK /\ "fetch" \in PipeDos
    BY <1>18 DEF PipeShare
  <2> QED BY <2>1, PipeAtGoes
<1> HIDE DEF PipeInv, PipeAtOK
<1> QED BY <1>1, <1>2, <1>3, <1>4, <1>5, <1>6, <1>7, <1>8, <1>9, <1>10, <1>11, <1>12, <1>13, <1>14,
        <1>15, <1>16, <1>17, <1>18 DEF PipeNext

(* and the pipes,                                                          *)
LEMMA PipeOfKept ==
  ASSUME PipeInv, PipeNext
  PROVE  pipeOf' \in [PipeOwners -> [open : BOOLEAN, size : Nat, opened : Nat, born : Nat]]
<1> USE PipeAssumption DEF PipeInv, PipeTypeOK, pipeLocks, pipeGhost
<1>1. ASSUME NEW o \in PipeOwners, PipeOpen(o) \/ PipeNotOpened(o) \/ PipeClose(o) \/ PipeEvent(o) \/ PipeComes(o)
      PROVE  pipeOf' \in [PipeOwners -> [open : BOOLEAN, size : Nat, opened : Nat, born : Nat]]
  BY <1>1 DEF PipeOpen, PipeNotOpened, PipeClose, PipeEvent, PipeComes
<1>2. ASSUME NEW o \in PipeOwners, NEW u \in PipeUsers, PipeFindsToAttach(u, o) \/ PipeFindsToDetach(u, o) \/ PipeReads(u, o)
      PROVE  pipeOf' \in [PipeOwners -> [open : BOOLEAN, size : Nat, opened : Nat, born : Nat]]
  BY <1>2 DEF PipeFindsToAttach, PipeFinds, PipeFindsToDetach, PipeReads
<1>3. ASSUME NEW u \in PipeUsers, PipeAttach(u) \/ PipeDetach(u)
      PROVE  pipeOf' \in [PipeOwners -> [open : BOOLEAN, size : Nat, opened : Nat, born : Nat]]
  BY <1>3 DEF PipeAttach, PipeDetach
<1>4. ASSUME NEW u \in PipeUsers, NEW n \in PipeSizes, PipeCopies(u, n)
      PROVE  pipeOf' \in [PipeOwners -> [open : BOOLEAN, size : Nat, opened : Nat, born : Nat]]
  BY <1>4 DEF PipeCopies
<1>5. CASE PipeEventLocks \/ PipeFetch \/ PipeShare
  BY <1>5 DEF PipeEventLocks, PipeFetch, PipeShare
<1>6. ASSUME NEW o \in PipeOwners, PipeClosePipe(o)
      PROVE  pipeOf' \in [PipeOwners -> [open : BOOLEAN, size : Nat, opened : Nat, born : Nat]]
  BY <1>6 DEF PipeClosePipe
<1>7. ASSUME NEW o \in PipeOwners, PipeDelete(o)
      PROVE  pipeOf' \in [PipeOwners -> [open : BOOLEAN, size : Nat, opened : Nat, born : Nat]]
  BY <1>7 DEF PipeDelete
<1>8. ASSUME NEW o \in PipeOwners, NEW size \in PipeSizes, PipeOpened(o, size)
      PROVE  pipeOf' \in [PipeOwners -> [open : BOOLEAN, size : Nat, opened : Nat, born : Nat]]
  BY <1>8 DEF PipeOpened
<1>9. ASSUME NEW o \in PipeOwners, NEW size \in PipeSizes, PipeUpdateReadSize(o, size)
      PROVE  pipeOf' \in [PipeOwners -> [open : BOOLEAN, size : Nat, opened : Nat, born : Nat]]
  BY <1>9 DEF PipeUpdateReadSize
<1> HIDE DEF PipeInv
<1> QED BY <1>1, <1>2, <1>3, <1>4, <1>5, <1>6, <1>7, <1>8, <1>9 DEF PipeNext

\* What the actions do, point by point.
PipeKeeps(f, g, S, x) == \A y \in S : y # x => f[y] = g[y]
PipeTells(t, d, p) ==
    pipeAt'[t].do = d /\ pipeAt'[t].pipe = p /\ PipeKeeps(pipeAt', pipeAt, PipeTasks, t)
PipeTurns(t, d) ==
    /\ pipeAt'[t].do = d /\ pipeAt'[t].pipe = pipeAt[t].pipe
    /\ pipeAt'[t].left = pipeAt[t].left /\ pipeAt'[t].data = pipeAt[t].data
    /\ PipeKeeps(pipeAt', pipeAt, PipeTasks, t)

LEMMA PipeAtPoint ==
  ASSUME PipeAtOK, NEW t \in PipeTasks, NEW e, pipeAt' = [pipeAt EXCEPT ![t] = e]
  PROVE  pipeAt'[t] = e /\ PipeKeeps(pipeAt', pipeAt, PipeTasks, t)
BY DEF PipeAtOK, PipeKeeps

LEMMA PipeAtTurn ==
  ASSUME PipeAtOK, NEW t \in PipeTasks, NEW d, pipeAt' = [pipeAt EXCEPT ![t].do = d]
  PROVE  PipeTurns(t, d)
<1>1. pipeAt[t] \in PipeSteps
  BY DEF PipeAtOK
<1>2. pipeAt'[t] = [pipeAt[t] EXCEPT !.do = d] /\ PipeKeeps(pipeAt', pipeAt, PipeTasks, t)
  BY DEF PipeAtOK, PipeKeeps
<1> QED BY <1>1, <1>2 DEF PipeSteps, PipeTurns

LEMMA PipeSaysAway ==
  ASSUME NEW t \in PipeTasks, NEW d, NEW p, NEW l, PipeAtOK,
         \/ pipeAt' = [pipeAt EXCEPT ![t] = [PipeAway EXCEPT !.pipe = p, !.do = d]]
         \/ pipeAt' = [pipeAt EXCEPT ![t] = [PipeAway EXCEPT !.do = d, !.pipe = p]]
         \/ pipeAt' = [pipeAt EXCEPT ![t] = [PipeAway EXCEPT !.do = d, !.pipe = p, !.left = l]]
  PROVE  PipeTells(t, d, p)
<1>1. CASE pipeAt' = [pipeAt EXCEPT ![t] = [PipeAway EXCEPT !.pipe = p, !.do = d]]
  <2>1. [PipeAway EXCEPT !.pipe = p, !.do = d].do = d /\ [PipeAway EXCEPT !.pipe = p, !.do = d].pipe = p
    BY DEF PipeAway
  <2> QED BY <1>1, <2>1, PipeAtPoint DEF PipeTells
<1>2. CASE pipeAt' = [pipeAt EXCEPT ![t] = [PipeAway EXCEPT !.do = d, !.pipe = p]]
  <2>1. [PipeAway EXCEPT !.do = d, !.pipe = p].do = d /\ [PipeAway EXCEPT !.do = d, !.pipe = p].pipe = p
    BY DEF PipeAway
  <2> QED BY <1>2, <2>1, PipeAtPoint DEF PipeTells
<1>3. CASE pipeAt' = [pipeAt EXCEPT ![t] = [PipeAway EXCEPT !.do = d, !.pipe = p, !.left = l]]
  <2>1. /\ [PipeAway EXCEPT !.do = d, !.pipe = p, !.left = l].do = d
        /\ [PipeAway EXCEPT !.do = d, !.pipe = p, !.left = l].pipe = p
    BY DEF PipeAway
  <2> QED BY <1>3, <2>1, PipeAtPoint DEF PipeTells
<1> QED BY <1>1, <1>2, <1>3

PipeOpenDid(o) ==
    /\ ~pipeGone /\ pipeAt[o].do = "idle" /\ ~pipeOf[o].open
    /\ PipeKeeps(pipeHw', pipeHw, PipeOwners, o)
    /\ \/ pipeHw'[o] = "open" /\ PipeTells(o, "opened", o)
       \/ pipeHw'[o] = pipeHw[o] /\ pipeHw[o] # "open" /\ PipeTells(o, "refused", o)
    /\ UNCHANGED <<pipeOf, pipeUser, pipeLock, pipeCame, pipeRead, pipeTaken, pipeDropped, pipeLeaked>>
LEMMA PipeOpenDoes ==
  ASSUME PipeInv, NEW o \in PipeOwners, PipeOpen(o)
  PROVE  PipeOpenDid(o)
<1>0. UNCHANGED <<pipeOf, pipeUser, pipeLock, pipeCame, pipeRead, pipeTaken, pipeDropped, pipeLeaked>>
  BY DEF PipeOpen, pipeLocks, pipeGhost
<1>1. PipeAtOK /\ o \in PipeTasks /\ pipeHw \in [PipeOwners -> {"closed", "open", "running"}]
  BY DEF PipeInv, PipeTypeOK, PipeTasks
<1>2. ~pipeGone /\ pipeAt[o].do = "idle" /\ ~pipeOf[o].open
  BY DEF PipeOpen, PipeTurn
<1>3. /\ PipeKeeps(pipeHw', pipeHw, PipeOwners, o)
      /\ pipeHw'[o] = "open" \/ pipeHw'[o] = pipeHw[o]
  BY <1>1 DEF PipeOpen, PipeKeeps
<1>4. PipeTells(o, IF pipeHw'[o] = "open" THEN "opened" ELSE "refused", o)
  <2>1. pipeAt' = [pipeAt EXCEPT ![o] = [PipeAway EXCEPT !.pipe = o,
                     !.do = IF pipeHw'[o] = "open" THEN "opened" ELSE "refused"]]
    BY DEF PipeOpen
  <2> QED BY <1>1, <2>1, PipeSaysAway
<1> QED BY <1>2, <1>3, <1>4, <1>0 DEF PipeOpenDid

PipeCloseDid(o) ==
    /\ ~pipeGone /\ pipeAt[o].do = "idle" /\ pipeOf[o].open /\ PipeTurns(o, "close")
    /\ UNCHANGED <<pipeOf, pipeUser, pipeLock, pipeHw, pipeCame, pipeRead, pipeTaken, pipeDropped, pipeLeaked>>
LEMMA PipeCloseDoes ==
  ASSUME PipeInv, NEW o \in PipeOwners, PipeClose(o)
  PROVE  PipeCloseDid(o)
<1>0. UNCHANGED <<pipeOf, pipeUser, pipeLock, pipeHw, pipeCame, pipeRead, pipeTaken, pipeDropped, pipeLeaked>>
  BY DEF PipeClose, pipeLocks, pipeGhost
<1>1. PipeAtOK /\ o \in PipeTasks
  BY DEF PipeInv, PipeTypeOK, PipeTasks
<1> QED BY <1>1, PipeAtTurn, <1>0 DEF PipeCloseDid, PipeClose, PipeTurn

PipeClosePipeDid(o) ==
    /\ ~pipeGone /\ pipeAt[o].do = "close" /\ pipeLock[o] = PipeFree
    /\ PipeTurns(o, "delete")
    /\ pipeHw'[o] = "closed" /\ PipeKeeps(pipeHw', pipeHw, PipeOwners, o)
    /\ pipeOf'[o].open = pipeOf[o].open /\ pipeOf'[o].size = 0
    /\ PipeKeeps(pipeOf', pipeOf, PipeOwners, o)
    /\ \A w \in PipeUsers : pipeUser'[o][w] = PipeNoUser
    /\ PipeKeeps(pipeUser', pipeUser, PipeOwners, o)
    /\ ~pipeGone' => \A t \in PipeTasks : pipeAt[t].do \in {"attach", "detach", "event"} => pipeAt[t].pipe # o
    /\ UNCHANGED <<pipeLock, pipeCame, pipeRead, pipeTaken, pipeDropped, pipeLeaked>>
LEMMA PipeClosePipeDoes ==
  ASSUME PipeInv, NEW o \in PipeOwners, PipeClosePipe(o)
  PROVE  PipeClosePipeDid(o)
<1>0. UNCHANGED <<pipeLock, pipeCame, pipeRead, pipeTaken, pipeDropped, pipeLeaked>>
  BY DEF PipeClosePipe, pipeLocks, pipeGhost
<1>1. PipeAtOK /\ o \in PipeTasks
  BY DEF PipeInv, PipeTypeOK, PipeTasks
<1>2. PipeTurns(o, "delete")
  BY <1>1, PipeAtTurn DEF PipeClosePipe, PipeGoes
<1>3. pipeOf' = [pipeOf EXCEPT ![o].size = 0] /\ pipeOf[o] \in [open : BOOLEAN, size : Nat, opened : Nat, born : Nat]
      /\ DOMAIN pipeOf = PipeOwners
  BY DEF PipeClosePipe, PipeInv, PipeTypeOK
<1>4. /\ pipeOf'[o].open = pipeOf[o].open /\ pipeOf'[o].size = 0
      /\ PipeKeeps(pipeOf', pipeOf, PipeOwners, o)
  BY <1>3 DEF PipeKeeps
<1>5. /\ \A w \in PipeUsers : pipeUser'[o][w] = PipeNoUser
      /\ PipeKeeps(pipeUser', pipeUser, PipeOwners, o)
      /\ pipeHw'[o] = "closed" /\ PipeKeeps(pipeHw', pipeHw, PipeOwners, o)
  BY DEF PipeClosePipe, PipeInv, PipeTypeOK, PipeKeeps
<1>6. /\ ~pipeGone /\ pipeAt[o].do = "close" /\ pipeLock[o] = PipeFree
      /\ ~pipeGone' => \A t \in PipeTasks : pipeAt[t].do \in {"attach", "detach", "event"} => pipeAt[t].pipe # o
  BY DEF PipeClosePipe, PipeTurn
<1> QED BY <1>2, <1>4, <1>5, <1>6, <1>0 DEF PipeClosePipeDid

LEMMA PipeDoneAt ==
  ASSUME PipeInv, NEW t \in PipeTasks, PipeDone(t)
  PROVE  PipeTells(t, "idle", PipeNowhere)
<1>1. PipeAtOK
  BY DEF PipeInv, PipeTypeOK
<1>2. PipeAway.do = "idle" /\ PipeAway.pipe = PipeNowhere
  BY DEF PipeAway
<1> QED BY <1>1, <1>2, PipeAtPoint DEF PipeDone, PipeTells

PipeOpenedDid(o, size) ==
    /\ ~pipeGone /\ pipeAt[o].do = "opened" /\ PipeTells(o, "idle", PipeNowhere)
    /\ pipeOf'[o].open /\ pipeOf'[o].size = size /\ PipeKeeps(pipeOf', pipeOf, PipeOwners, o)
    /\ pipeRead'[o] = pipeCame[o] /\ PipeKeeps(pipeRead', pipeRead, PipeOwners, o)
    /\ UNCHANGED <<pipeUser, pipeLock, pipeHw, pipeCame, pipeTaken, pipeDropped, pipeLeaked>>
LEMMA PipeOpenedDoes ==
  ASSUME PipeInv, NEW o \in PipeOwners, NEW size \in PipeSizes, PipeOpened(o, size)
  PROVE  PipeOpenedDid(o, size)
<1>0. UNCHANGED <<pipeUser, pipeLock, pipeHw, pipeCame, pipeTaken, pipeDropped, pipeLeaked>>
  BY DEF PipeOpened, pipeLocks, pipeGhost
<1>1. PipeTells(o, "idle", PipeNowhere)
  BY PipeDoneAt DEF PipeOpened, PipeTasks
<1> QED BY <1>1, <1>0 DEF PipeOpenedDid, PipeOpened, PipeInv, PipeTypeOK, PipeKeeps, PipeTurn

PipeUpdateDid(o, size) ==
    /\ ~pipeGone /\ pipeOf'[o].open = pipeOf[o].open /\ pipeOf'[o].size = size
    /\ pipeOf[o].size # 0 /\ PipeKeeps(pipeOf', pipeOf, PipeOwners, o)
    /\ ~pipeGone' => ~(pipeAt[PipeIrq].do = "share" /\ pipeAt[PipeIrq].pipe = o)
    /\ UNCHANGED <<pipeUser, pipeLock, pipeHw, pipeCame, pipeRead, pipeAt, pipeTaken, pipeDropped, pipeLeaked>>
LEMMA PipeUpdateDoes ==
  ASSUME PipeInv, NEW o \in PipeOwners, NEW size \in PipeSizes, PipeUpdateReadSize(o, size)
  PROVE  PipeUpdateDid(o, size)
<1>0. UNCHANGED <<pipeUser, pipeLock, pipeHw, pipeCame, pipeRead, pipeAt, pipeTaken, pipeDropped, pipeLeaked>>
  BY DEF PipeUpdateReadSize, pipeLocks, pipeGhost
<1>1. pipeOf' = [pipeOf EXCEPT ![o].size = size] /\ pipeOf[o] \in [open : BOOLEAN, size : Nat, opened : Nat, born : Nat]
      /\ DOMAIN pipeOf = PipeOwners
  BY DEF PipeUpdateReadSize, PipeInv, PipeTypeOK
<1>2. /\ pipeOf'[o].open = pipeOf[o].open /\ pipeOf'[o].size = size
      /\ PipeKeeps(pipeOf', pipeOf, PipeOwners, o)
  BY <1>1 DEF PipeKeeps
<1> QED BY <1>2, <1>0 DEF PipeUpdateDid, PipeUpdateReadSize

PipeFindsDid(u, o, d) ==
    /\ ~pipeGone /\ pipeAt[u].do = "idle" /\ pipeOf[o].open /\ pipeAt[o].do # "delete"
    /\ PipeTells(u, d, o)
    /\ UNCHANGED <<pipeOf, pipeUser, pipeLock, pipeHw, pipeCame, pipeRead, pipeTaken, pipeDropped, pipeLeaked>>
LEMMA PipeFindsDoes ==
  ASSUME PipeInv, NEW u \in PipeUsers, NEW o \in PipeOwners, NEW d, PipeFinds(u, o, d), ~pipeGone'
  PROVE  PipeFindsDid(u, o, d)
<1>0. UNCHANGED <<pipeOf, pipeUser, pipeLock, pipeHw, pipeCame, pipeRead, pipeTaken, pipeDropped, pipeLeaked>>
  BY DEF PipeFinds, pipeLocks, pipeGhost
<1>1. PipeAtOK /\ u \in PipeTasks
  BY DEF PipeInv, PipeTypeOK, PipeTasks
<1>2. PipeTells(u, d, o)
  BY <1>1, PipeSaysAway DEF PipeFinds
<1> QED BY <1>2, <1>0 DEF PipeFindsDid, PipeFinds, PipeTurn

PipeReadsDid(u, o) ==
    /\ ~pipeGone /\ pipeAt[u].do = "idle"
    /\ pipeAt' = pipeAt \/ PipeTells(u, "read", o)
    /\ UNCHANGED <<pipeOf, pipeUser, pipeLock, pipeHw, pipeCame, pipeRead, pipeTaken, pipeDropped, pipeLeaked>>
LEMMA PipeReadsDoes ==
  ASSUME PipeInv, NEW u \in PipeUsers, NEW o \in PipeOwners, PipeReads(u, o)
  PROVE  PipeReadsDid(u, o)
<1>0. UNCHANGED <<pipeOf, pipeUser, pipeLock, pipeHw, pipeCame, pipeRead, pipeTaken, pipeDropped, pipeLeaked>>
  BY DEF PipeReads, pipeLocks, pipeGhost
<1>1. PipeAtOK /\ u \in PipeTasks
  BY DEF PipeInv, PipeTypeOK, PipeTasks
<1>2. pipeAt' = pipeAt \/ PipeTells(u, "read", o)
  BY <1>1, PipeSaysAway DEF PipeReads
<1> QED BY <1>2, <1>0 DEF PipeReadsDid, PipeReads, PipeTurn

\* A user's entry is changed alone.
LEMMA PipeUserPoint ==
  ASSUME PipeInv, NEW o \in PipeOwners, NEW u \in PipeUsers, NEW e,
         pipeUser' = [pipeUser EXCEPT ![o][u] = e]
  PROVE  /\ pipeUser'[o][u] = e /\ PipeKeeps(pipeUser'[o], pipeUser[o], PipeUsers, u)
         /\ PipeKeeps(pipeUser', pipeUser, PipeOwners, o)
<1>1. /\ DOMAIN pipeUser = PipeOwners /\ pipeUser[o] \in [PipeUsers -> PipeRings]
  BY DEF PipeInv, PipeTypeOK
<1>2. pipeUser'[o] = [pipeUser[o] EXCEPT ![u] = e] /\ PipeKeeps(pipeUser', pipeUser, PipeOwners, o)
  BY <1>1 DEF PipeKeeps
<1> QED BY <1>1, <1>2 DEF PipeKeeps

LEMMA PipeTakenPoint ==
  ASSUME PipeInv, NEW o \in PipeOwners, NEW u \in PipeUsers, NEW e,
         pipeTaken' = [pipeTaken EXCEPT ![o][u] = e]
  PROVE  /\ pipeTaken'[o][u] = e /\ PipeKeeps(pipeTaken'[o], pipeTaken[o], PipeUsers, u)
         /\ PipeKeeps(pipeTaken', pipeTaken, PipeOwners, o)
<1>1. DOMAIN pipeTaken = PipeOwners /\ pipeTaken[o] \in [PipeUsers -> Nat]
  BY DEF PipeInv, PipeTypeOK
<1>2. pipeTaken'[o] = [pipeTaken[o] EXCEPT ![u] = e] /\ PipeKeeps(pipeTaken', pipeTaken, PipeOwners, o)
  BY <1>1 DEF PipeKeeps
<1> QED BY <1>1, <1>2 DEF PipeKeeps

LEMMA PipeDroppedPoint ==
  ASSUME PipeInv, NEW o \in PipeOwners, NEW u \in PipeUsers, NEW e,
         pipeDropped' = [pipeDropped EXCEPT ![o][u] = e]
  PROVE  /\ pipeDropped'[o][u] = e /\ PipeKeeps(pipeDropped'[o], pipeDropped[o], PipeUsers, u)
         /\ PipeKeeps(pipeDropped', pipeDropped, PipeOwners, o)
<1>1. DOMAIN pipeDropped = PipeOwners /\ pipeDropped[o] \in [PipeUsers -> SUBSET Nat]
  BY DEF PipeInv, PipeTypeOK
<1>2. pipeDropped'[o] = [pipeDropped[o] EXCEPT ![u] = e] /\ PipeKeeps(pipeDropped', pipeDropped, PipeOwners, o)
  BY <1>1 DEF PipeKeeps
<1> QED BY <1>1, <1>2 DEF PipeKeeps

PipeAttachDid(u, o) ==
    /\ ~pipeGone /\ o = pipeAt[u].pipe /\ pipeAt[u].do = "attach" /\ pipeLock[o] = PipeFree
    /\ PipeTells(u, "idle", PipeNowhere)
    /\ pipeHw'[o] = "running" /\ PipeKeeps(pipeHw', pipeHw, PipeOwners, o)
    /\ pipeUser'[o][u].on /\ pipeUser'[o][u].ring = <<>>
    /\ pipeUser'[o][u].len = PipeRoom * pipeOf[o].opened
    /\ PipeKeeps(pipeUser'[o], pipeUser[o], PipeUsers, u)
    /\ PipeKeeps(pipeUser', pipeUser, PipeOwners, o)
    /\ pipeTaken'[o][u] = pipeRead[o] /\ PipeKeeps(pipeTaken'[o], pipeTaken[o], PipeUsers, u)
    /\ PipeKeeps(pipeTaken', pipeTaken, PipeOwners, o)
    /\ pipeDropped'[o][u] = {} /\ PipeKeeps(pipeDropped'[o], pipeDropped[o], PipeUsers, u)
    /\ PipeKeeps(pipeDropped', pipeDropped, PipeOwners, o)
    /\ UNCHANGED <<pipeOf, pipeLock, pipeCame, pipeRead, pipeLeaked>>
LEMMA PipeAttachDoes ==
  ASSUME PipeInv, NEW u \in PipeUsers, PipeAttach(u)
  PROVE  \E o \in PipeOwners : PipeAttachDid(u, o)
<1>0. UNCHANGED <<pipeOf, pipeLock, pipeCame, pipeRead, pipeLeaked>>
  BY DEF PipeAttach, pipeLocks, pipeGhost
<1> DEFINE p == pipeAt[u].pipe
           e == [on |-> TRUE, ring |-> <<>>, len |-> PipeRoom * pipeOf[p].opened]
<1>1. ~pipeGone /\ pipeAt[u].do = "attach" /\ pipeLock[p] = PipeFree
  BY DEF PipeAttach, PipeTurn
<1>2. p \in PipeOwners
  BY <1>1 DEF PipeInv, PipeGood, PipeWorks, PipeTasks
<1>3. PipeTells(u, "idle", PipeNowhere)
  BY PipeDoneAt DEF PipeAttach, PipeTasks
<1>4. pipeHw'[p] = "running" /\ PipeKeeps(pipeHw', pipeHw, PipeOwners, p)
  BY <1>2 DEF PipeAttach, PipeInv, PipeTypeOK, PipeKeeps
<1>5. /\ pipeUser' = [pipeUser EXCEPT ![p][u] = e]
      /\ pipeTaken' = [pipeTaken EXCEPT ![p][u] = pipeRead[p]]
      /\ pipeDropped' = [pipeDropped EXCEPT ![p][u] = {}]
  BY DEF PipeAttach
<1>6. e.on /\ e.ring = <<>> /\ e.len = PipeRoom * pipeOf[p].opened
  OBVIOUS
<1> HIDE DEF p, e
<1>7. /\ pipeUser'[p][u] = e /\ PipeKeeps(pipeUser'[p], pipeUser[p], PipeUsers, u)
      /\ PipeKeeps(pipeUser', pipeUser, PipeOwners, p)
  BY <1>2, <1>5, PipeUserPoint
<1>8. /\ pipeTaken'[p][u] = pipeRead[p] /\ PipeKeeps(pipeTaken'[p], pipeTaken[p], PipeUsers, u)
      /\ PipeKeeps(pipeTaken', pipeTaken, PipeOwners, p)
  BY <1>2, <1>5, PipeTakenPoint
<1>9. /\ pipeDropped'[p][u] = {} /\ PipeKeeps(pipeDropped'[p], pipeDropped[p], PipeUsers, u)
      /\ PipeKeeps(pipeDropped', pipeDropped, PipeOwners, p)
  BY <1>2, <1>5, PipeDroppedPoint
<1>10. p = pipeAt[u].pipe
  BY DEF p
<1> QED BY <1>1, <1>2, <1>3, <1>4, <1>6, <1>7, <1>8, <1>9, <1>10, <1>0 DEF PipeAttachDid

PipeDetachDid(u, o) ==
    /\ ~pipeGone /\ o = pipeAt[u].pipe /\ pipeAt[u].do = "detach" /\ pipeLock[o] = PipeFree
    /\ PipeTells(u, "idle", PipeNowhere)
    /\ pipeHw'[o] = IF PipeOnes(o) = {u} THEN "open" ELSE pipeHw[o]
    /\ PipeKeeps(pipeHw', pipeHw, PipeOwners, o)
    /\ pipeUser'[o][u] = PipeNoUser
    /\ PipeKeeps(pipeUser'[o], pipeUser[o], PipeUsers, u)
    /\ PipeKeeps(pipeUser', pipeUser, PipeOwners, o)
    /\ UNCHANGED <<pipeOf, pipeLock, pipeCame, pipeRead, pipeTaken, pipeDropped, pipeLeaked>>
LEMMA PipeDetachDoes ==
  ASSUME PipeInv, NEW u \in PipeUsers, PipeDetach(u)
  PROVE  \E o \in PipeOwners : PipeDetachDid(u, o)
<1>0. UNCHANGED <<pipeOf, pipeLock, pipeCame, pipeRead, pipeTaken, pipeDropped, pipeLeaked>>
  BY DEF PipeDetach, pipeLocks, pipeGhost
<1> DEFINE p == pipeAt[u].pipe
<1>1. ~pipeGone /\ pipeAt[u].do = "detach" /\ pipeLock[p] = PipeFree
  BY DEF PipeDetach, PipeTurn
<1>2. p \in PipeOwners
  BY <1>1 DEF PipeInv, PipeGood, PipeWorks, PipeTasks
<1>3. PipeTells(u, "idle", PipeNowhere)
  BY PipeDoneAt DEF PipeDetach, PipeTasks
<1>4. /\ pipeHw'[p] = IF PipeOnes(p) = {u} THEN "open" ELSE pipeHw[p]
      /\ PipeKeeps(pipeHw', pipeHw, PipeOwners, p)
  BY <1>2 DEF PipeDetach, PipeInv, PipeTypeOK, PipeKeeps
<1>5. pipeUser' = [pipeUser EXCEPT ![p][u] = PipeNoUser]
  BY DEF PipeDetach
<1> HIDE DEF p
<1>7. /\ pipeUser'[p][u] = PipeNoUser /\ PipeKeeps(pipeUser'[p], pipeUser[p], PipeUsers, u)
      /\ PipeKeeps(pipeUser', pipeUser, PipeOwners, p)
  BY <1>2, <1>5, PipeUserPoint
<1>10. p = pipeAt[u].pipe
  BY DEF p
<1> QED BY <1>1, <1>2, <1>3, <1>4, <1>7, <1>10, <1>0 DEF PipeDetachDid

PipeCopiesDid(u, n) ==
    /\ ~pipeGone /\ pipeAt[u].do = "read" /\ PipeTells(u, "idle", PipeNowhere)
    /\ \/ pipeUser' = pipeUser /\ pipeTaken' = pipeTaken
       \/ \E o \in PipeOwners :
         /\ n \in 1 .. Len(pipeUser[o][u].ring)
         /\ pipeUser'[o][u] = [pipeUser[o][u] EXCEPT !.ring = SubSeq(@, n + 1, Len(@))]
         /\ PipeKeeps(pipeUser'[o], pipeUser[o], PipeUsers, u)
         /\ PipeKeeps(pipeUser', pipeUser, PipeOwners, o)
         /\ pipeTaken'[o][u] = pipeUser[o][u].ring[n]
         /\ PipeKeeps(pipeTaken'[o], pipeTaken[o], PipeUsers, u)
         /\ PipeKeeps(pipeTaken', pipeTaken, PipeOwners, o)
    /\ UNCHANGED <<pipeOf, pipeLock, pipeHw, pipeCame, pipeRead, pipeDropped, pipeLeaked>>
LEMMA PipeCopiesDoes ==
  ASSUME PipeInv, NEW u \in PipeUsers, NEW n \in PipeSizes, PipeCopies(u, n)
  PROVE  PipeCopiesDid(u, n)
<1>0. UNCHANGED <<pipeOf, pipeLock, pipeHw, pipeCame, pipeRead, pipeDropped, pipeLeaked>>
  BY DEF PipeCopies, pipeLocks, pipeGhost
<1> DEFINE p == pipeAt[u].pipe
           ring == pipeUser[p][u].ring
           e == [pipeUser[p][u] EXCEPT !.ring = SubSeq(ring, n + 1, Len(ring))]
<1>1. ~pipeGone /\ pipeAt[u].do = "read"
  BY DEF PipeCopies, PipeTurn
<1>2. p \in PipeOwners
  BY <1>1 DEF PipeInv, PipeGood, PipeWorks, PipeTasks
<1>3. PipeTells(u, "idle", PipeNowhere)
  BY PipeDoneAt DEF PipeCopies, PipeTasks
<1>4. pipeUser[p] \in [PipeUsers -> PipeRings] /\ DOMAIN pipeUser = PipeOwners
      /\ n \in Nat
  BY <1>2, PipeAssumption DEF PipeInv, PipeTypeOK
<1>5. pipeUser[p][u] \in PipeRings /\ ring \in Seq(Nat)
  BY <1>4 DEF PipeRings
<1>6. CASE n > Len(ring)
  <2>1. Len(ring) \in Nat /\ ~(n <= Len(ring))
    BY <1>4, <1>5, <1>6
  <2>2. pipeUser' = pipeUser /\ pipeTaken' = pipeTaken
    BY <2>1 DEF PipeCopies
  <2> QED BY <1>1, <1>3, <2>2, <1>0 DEF PipeCopiesDid
<1>7. CASE n <= Len(ring)
  <2>1. pipeUser' = [pipeUser EXCEPT ![p][u].ring = SubSeq(@, n + 1, Len(@))]
    BY <1>7 DEF PipeCopies
  <2>2. pipeUser' = [pipeUser EXCEPT ![p][u] = e]
    <3>1. [pipeUser[p] EXCEPT ![u].ring = SubSeq(@, n + 1, Len(@))] = [pipeUser[p] EXCEPT ![u] = e]
      OBVIOUS
    <3> QED BY <2>1, <3>1
  <2>3. CASE n = 0
    <3>1. SubSeq(ring, n + 1, Len(ring)) = ring
      <4> HIDE DEF ring
      <4> QED BY <1>5, <2>3
    <3>2. e = pipeUser[p][u]
      BY <1>5, <3>1 DEF PipeRings
    <3>3. pipeUser' = pipeUser
      <4> HIDE DEF e, p
      <4>1. pipeUser \in [PipeOwners -> [PipeUsers -> PipeRings]]
        BY DEF PipeInv, PipeTypeOK
      <4> QED BY <2>2, <3>2, <1>2, <4>1
    <3>4. pipeTaken' = pipeTaken
      BY <2>3 DEF PipeCopies
    <3> QED BY <1>1, <1>3, <3>3, <3>4, <1>0 DEF PipeCopiesDid
  <2>4. CASE n > 0
    <3>1. pipeTaken' = [pipeTaken EXCEPT ![p][u] = ring[n]]
      BY <1>7, <2>4 DEF PipeCopies
    <3>2. n \in 1 .. Len(ring)
      BY <1>4, <1>5, <1>7, <2>4
    <3>3. e = [pipeUser[p][u] EXCEPT !.ring = SubSeq(@, n + 1, Len(@))]
      OBVIOUS
    <3>4. ring = pipeUser[p][u].ring
      OBVIOUS
    <3> HIDE DEF e, p, ring
    <3>5. /\ pipeUser'[p][u] = e /\ PipeKeeps(pipeUser'[p], pipeUser[p], PipeUsers, u)
          /\ PipeKeeps(pipeUser', pipeUser, PipeOwners, p)
      BY <1>2, <2>2, PipeUserPoint
    <3>6. /\ pipeTaken'[p][u] = ring[n] /\ PipeKeeps(pipeTaken'[p], pipeTaken[p], PipeUsers, u)
          /\ PipeKeeps(pipeTaken', pipeTaken, PipeOwners, p)
      BY <1>2, <3>1, PipeTakenPoint
    <3> QED BY <1>1, <1>2, <1>3, <3>2, <3>3, <3>4, <3>5, <3>6, <1>0 DEF PipeCopiesDid
  <2>5. n = 0 \/ n > 0
    BY <1>4
  <2> QED BY <2>3, <2>4, <2>5
<1> QED
  <2>1. Len(ring) \in Nat /\ n \in Nat
    BY <1>4, <1>5
  <2>2. n > Len(ring) \/ n <= Len(ring)
    <3> HIDE DEF ring
    <3> QED BY <2>1
  <2> HIDE DEF ring, p
  <2> QED BY <1>6, <1>7, <2>2

PipeEventDid(o) ==
    /\ ~pipeGone /\ pipeAt[PipeIrq].do = "idle" /\ pipeOf[o].open /\ pipeOf[o].size > 0
    /\ PipeTells(PipeIrq, "event", o)
    /\ UNCHANGED <<pipeOf, pipeUser, pipeLock, pipeHw, pipeCame, pipeRead, pipeTaken, pipeDropped, pipeLeaked>>
LEMMA PipeEventDoes ==
  ASSUME PipeInv, NEW o \in PipeOwners, PipeEvent(o)
  PROVE  PipeEventDid(o)
<1>0. UNCHANGED <<pipeOf, pipeUser, pipeLock, pipeHw, pipeCame, pipeRead, pipeTaken, pipeDropped, pipeLeaked>>
  BY DEF PipeEvent, pipeLocks, pipeGhost
<1>1. PipeAtOK /\ PipeIrq \in PipeTasks
  BY DEF PipeInv, PipeTypeOK, PipeTasks
<1>2. PipeTells(PipeIrq, "event", o)
  <2> DEFINE l == (pipeCame[o] - pipeRead[o]) \div pipeOf[o].size
  <2>1. pipeAt' = [pipeAt EXCEPT ![PipeIrq] = [PipeAway EXCEPT !.do = "event", !.pipe = o, !.left = l]]
    BY DEF PipeEvent
  <2> HIDE DEF l
  <2> QED BY <1>1, <2>1, PipeSaysAway
<1> QED BY <1>2, <1>0 DEF PipeEventDid, PipeEvent, PipeTurn

PipeEventLocksDid(o) ==
    /\ ~pipeGone /\ pipeAt[PipeIrq].do = "event" /\ pipeAt[PipeIrq].pipe = o
    /\ pipeLock[o] = PipeFree
    /\ \/ PipeTells(PipeIrq, "idle", PipeNowhere) /\ pipeLock' = pipeLock
       \/ /\ PipeTurns(PipeIrq, "fetch")
          /\ pipeLock'[o] = PipeIrq /\ PipeKeeps(pipeLock', pipeLock, PipeOwners, o)
    /\ UNCHANGED <<pipeOf, pipeUser, pipeHw, pipeCame, pipeRead, pipeTaken, pipeDropped, pipeLeaked>>
LEMMA PipeEventLocksDoes ==
  ASSUME PipeInv, PipeEventLocks
  PROVE  \E o \in PipeOwners : PipeEventLocksDid(o)
<1>0. UNCHANGED <<pipeOf, pipeUser, pipeHw, pipeCame, pipeRead, pipeTaken, pipeDropped, pipeLeaked>>
  BY DEF PipeEventLocks, pipeLocks, pipeGhost
<1> DEFINE p == pipeAt[PipeIrq].pipe
<1>1. PipeAtOK /\ PipeIrq \in PipeTasks
  BY DEF PipeInv, PipeTypeOK, PipeTasks
<1>2. ~pipeGone /\ pipeAt[PipeIrq].do = "event" /\ pipeLock[p] = PipeFree
  BY DEF PipeEventLocks, PipeTurn
<1>3. p \in PipeOwners
  BY <1>1, <1>2 DEF PipeInv, PipeGood, PipeWorks
<1>4. CASE PipeDone(PipeIrq) /\ pipeLock' = pipeLock
  <2>1. PipeTells(PipeIrq, "idle", PipeNowhere)
    BY <1>1, <1>4, PipeDoneAt
  <2> QED BY <1>2, <1>3, <1>4, <2>1, <1>0 DEF PipeEventLocksDid
<1>5. CASE pipeLock' = [pipeLock EXCEPT ![p] = PipeIrq] /\ PipeGoes(PipeIrq, "fetch")
  <2>1. PipeTurns(PipeIrq, "fetch")
    BY <1>1, <1>5, PipeAtTurn DEF PipeGoes
  <2>2. pipeLock'[p] = PipeIrq /\ PipeKeeps(pipeLock', pipeLock, PipeOwners, p)
    BY <1>3, <1>5 DEF PipeInv, PipeTypeOK, PipeKeeps
  <2> QED BY <1>2, <1>3, <2>1, <2>2, <1>0 DEF PipeEventLocksDid
<1> QED BY <1>4, <1>5, <1>0 DEF PipeEventLocksDid, PipeEventLocks

PipeFetchDid(o) ==
    /\ ~pipeGone /\ pipeAt[PipeIrq].do = "fetch" /\ pipeAt[PipeIrq].pipe = o
    /\ pipeLock[o] = PipeIrq
    /\ \/ /\ PipeTells(PipeIrq, "idle", PipeNowhere)
          /\ pipeLock'[o] = PipeFree /\ PipeKeeps(pipeLock', pipeLock, PipeOwners, o)
       \/ /\ pipeLock' = pipeLock
          /\ pipeAt'[PipeIrq].do = "share" /\ pipeAt'[PipeIrq].pipe = o
          /\ pipeAt'[PipeIrq].data = [k \in 1 .. pipeOf[o].size |-> pipeRead[o] + k]
          /\ PipeKeeps(pipeAt', pipeAt, PipeTasks, PipeIrq)
    /\ UNCHANGED <<pipeOf, pipeUser, pipeHw, pipeCame, pipeRead, pipeTaken, pipeDropped, pipeLeaked>>
LEMMA PipeFetchDoes ==
  ASSUME PipeInv, PipeFetch
  PROVE  \E o \in PipeOwners : PipeFetchDid(o)
<1>0. UNCHANGED <<pipeOf, pipeUser, pipeHw, pipeCame, pipeRead, pipeTaken, pipeDropped, pipeLeaked>>
  BY DEF PipeFetch, pipeLocks, pipeGhost
<1> DEFINE p == pipeAt[PipeIrq].pipe
           q == [k \in 1 .. pipeOf[p].size |-> pipeRead[p] + k]
<1>1. PipeAtOK /\ PipeIrq \in PipeTasks
  BY DEF PipeInv, PipeTypeOK, PipeTasks
<1>2. ~pipeGone /\ pipeAt[PipeIrq].do = "fetch"
  BY DEF PipeFetch, PipeTurn
<1>3. p \in PipeOwners /\ pipeLock[p] = PipeIrq
  BY <1>1, <1>2 DEF PipeInv, PipeGood, PipeWorks, PipeEventOwns
<1>4. CASE PipeDone(PipeIrq) /\ pipeLock' = [pipeLock EXCEPT ![p] = PipeFree]
  <2>1. PipeTells(PipeIrq, "idle", PipeNowhere)
    BY <1>1, <1>4, PipeDoneAt
  <2>2. pipeLock'[p] = PipeFree /\ PipeKeeps(pipeLock', pipeLock, PipeOwners, p)
    BY <1>3, <1>4 DEF PipeInv, PipeTypeOK, PipeKeeps
  <2> QED BY <1>2, <1>3, <2>1, <2>2, <1>0 DEF PipeFetchDid
<1>5. CASE /\ pipeAt' = [pipeAt EXCEPT ![PipeIrq].do = "share", ![PipeIrq].left = @ - 1, ![PipeIrq].data = q]
           /\ pipeLock' = pipeLock
  <2>1. pipeAt[PipeIrq] \in PipeSteps /\ DOMAIN pipeAt = PipeTasks
    BY <1>1 DEF PipeAtOK
  <2>2. q = [k \in 1 .. pipeOf[p].size |-> pipeRead[p] + k]
    OBVIOUS
  <2>3. p = pipeAt[PipeIrq].pipe
    OBVIOUS
  <2> HIDE DEF p, q
  <2>4. pipeAt'[PipeIrq] = [pipeAt[PipeIrq] EXCEPT !.do = "share", !.left = pipeAt[PipeIrq].left - 1, !.data = q]
    BY <1>1, <1>5, <2>1
  <2>5. pipeAt'[PipeIrq].do = "share" /\ pipeAt'[PipeIrq].pipe = p /\ pipeAt'[PipeIrq].data = q
    BY <2>1, <2>3, <2>4 DEF PipeSteps
  <2>6. PipeKeeps(pipeAt', pipeAt, PipeTasks, PipeIrq)
    BY <1>1, <1>5, <2>1 DEF PipeKeeps
  <2> QED BY <1>2, <1>3, <1>5, <2>2, <2>3, <2>5, <2>6, <1>0 DEF PipeFetchDid
<1> QED BY <1>4, <1>5, <1>0 DEF PipeFetchDid, PipeFetch

PipeShareDid(o) ==
    /\ ~pipeGone /\ pipeAt[PipeIrq].do = "share" /\ pipeAt[PipeIrq].pipe = o
    /\ pipeLock[o] = PipeIrq /\ PipeTurns(PipeIrq, "fetch")
    /\ pipeRead'[o] = pipeRead[o] + Len(pipeAt[PipeIrq].data)
    /\ PipeKeeps(pipeRead', pipeRead, PipeOwners, o)
    /\ PipeKeeps(pipeUser', pipeUser, PipeOwners, o)
    /\ PipeKeeps(pipeDropped', pipeDropped, PipeOwners, o)
    /\ \A w \in PipeUsers :
         \/ /\ ~pipeUser[o][w].on
            /\ pipeUser'[o][w] = pipeUser[o][w] /\ pipeDropped'[o][w] = pipeDropped[o][w]
         \/ /\ pipeUser[o][w].on /\ pipeUser'[o][w] = pipeUser[o][w]
            /\ pipeDropped'[o][w] = pipeDropped[o][w] \cup ToSet(pipeAt[PipeIrq].data)
         \/ /\ pipeUser[o][w].on /\ pipeDropped'[o][w] = pipeDropped[o][w]
            /\ pipeUser'[o][w] = [pipeUser[o][w] EXCEPT !.ring = pipeUser[o][w].ring \o pipeAt[PipeIrq].data]
    /\ UNCHANGED <<pipeOf, pipeLock, pipeHw, pipeCame, pipeTaken, pipeLeaked>>
LEMMA PipeShareDoes ==
  ASSUME PipeInv, PipeShare
  PROVE  \E o \in PipeOwners : PipeShareDid(o)
<1>0. UNCHANGED <<pipeOf, pipeLock, pipeHw, pipeCame, pipeTaken, pipeLeaked>>
  BY DEF PipeShare, pipeLocks, pipeGhost
<1> DEFINE p == pipeAt[PipeIrq].pipe
           data == pipeAt[PipeIrq].data
           full == {w \in PipeOnes(p) : ~PipeHasRoom(p, w, data)}
<1>1. PipeAtOK /\ PipeIrq \in PipeTasks
  BY DEF PipeInv, PipeTypeOK, PipeTasks
<1>2. ~pipeGone /\ pipeAt[PipeIrq].do = "share"
  BY DEF PipeShare, PipeTurn
<1>3. p \in PipeOwners /\ pipeLock[p] = PipeIrq
  BY <1>1, <1>2 DEF PipeInv, PipeGood, PipeWorks, PipeEventOwns
<1>4. PipeTurns(PipeIrq, "fetch")
  BY <1>1, PipeAtTurn DEF PipeShare, PipeGoes
<1>5. /\ pipeUser' = [pipeUser EXCEPT ![p] = [w \in PipeUsers |->
                           IF w \in PipeOnes(p) \ full THEN [pipeUser[p][w] EXCEPT !.ring = @ \o data] ELSE pipeUser[p][w]]]
      /\ pipeDropped' = [pipeDropped EXCEPT ![p] = [w \in PipeUsers |->
                           IF w \in full THEN @[w] \cup ToSet(data) ELSE @[w]]]
      /\ pipeRead' = [pipeRead EXCEPT ![p] = @ + Len(data)]
  BY DEF PipeShare
<1>6. full \subseteq PipeOnes(p) /\ p = pipeAt[PipeIrq].pipe /\ data = pipeAt[PipeIrq].data
  OBVIOUS
<1>7. DOMAIN pipeUser = PipeOwners /\ DOMAIN pipeDropped = PipeOwners /\ DOMAIN pipeRead = PipeOwners
  BY DEF PipeInv, PipeTypeOK
<1> HIDE DEF p, data, full
<1>8. /\ pipeRead'[p] = pipeRead[p] + Len(data) /\ PipeKeeps(pipeRead', pipeRead, PipeOwners, p)
      /\ PipeKeeps(pipeUser', pipeUser, PipeOwners, p)
      /\ PipeKeeps(pipeDropped', pipeDropped, PipeOwners, p)
  BY <1>3, <1>5, <1>7 DEF PipeKeeps
<1>9. \A w \in PipeUsers :
        /\ w \in PipeOnes(p) \ full => pipeUser'[p][w] = [pipeUser[p][w] EXCEPT !.ring = pipeUser[p][w].ring \o data]
        /\ w \notin PipeOnes(p) \ full => pipeUser'[p][w] = pipeUser[p][w]
        /\ w \in full => pipeDropped'[p][w] = pipeDropped[p][w] \cup ToSet(data)
        /\ w \notin full => pipeDropped'[p][w] = pipeDropped[p][w]
  <2>1. pipeUser'[p] = [w \in PipeUsers |->
            IF w \in PipeOnes(p) \ full THEN [pipeUser[p][w] EXCEPT !.ring = @ \o data] ELSE pipeUser[p][w]]
    BY <1>3, <1>5, <1>7
  <2>2. pipeDropped'[p] = [w \in PipeUsers |->
            IF w \in full THEN pipeDropped[p][w] \cup ToSet(data) ELSE pipeDropped[p][w]]
    BY <1>3, <1>5, <1>7
  <2>3. ASSUME NEW w \in PipeUsers
        PROVE  /\ w \in PipeOnes(p) \ full => pipeUser'[p][w] = [pipeUser[p][w] EXCEPT !.ring = pipeUser[p][w].ring \o data]
               /\ w \notin PipeOnes(p) \ full => pipeUser'[p][w] = pipeUser[p][w]
    BY <2>1
  <2>4. ASSUME NEW w \in PipeUsers
        PROVE  /\ w \in full => pipeDropped'[p][w] = pipeDropped[p][w] \cup ToSet(data)
               /\ w \notin full => pipeDropped'[p][w] = pipeDropped[p][w]
    BY <2>2
  <2> QED BY <2>3, <2>4
<1>10. \A w \in PipeUsers : w \in PipeOnes(p) <=> pipeUser[p][w].on
  BY DEF PipeOnes
<1> QED BY <1>2, <1>3, <1>4, <1>6, <1>8, <1>9, <1>10, <1>0 DEF PipeShareDid

PipeNotOpenedDid(o) ==
    /\ ~pipeGone /\ pipeAt[o].do \in {"opened", "refused"} /\ PipeTells(o, "idle", PipeNowhere)
    /\ pipeLeaked \subseteq pipeLeaked' /\ (pipeHw[o] # "closed" => o \in pipeLeaked')
    /\ UNCHANGED <<pipeOf, pipeUser, pipeLock, pipeHw, pipeCame, pipeRead, pipeTaken, pipeDropped>>
LEMMA PipeNotOpenedDoes ==
  ASSUME PipeInv, NEW o \in PipeOwners, PipeNotOpened(o)
  PROVE  PipeNotOpenedDid(o)
<1>1. PipeTells(o, "idle", PipeNowhere)
  BY PipeDoneAt DEF PipeNotOpened, PipeTasks
<1> QED BY <1>1 DEF PipeNotOpened, PipeTurn, pipeGhost, PipeNotOpenedDid

PipeDeleteDid(o) ==
    /\ ~pipeGone /\ pipeAt[o].do = "delete" /\ PipeTells(o, "idle", PipeNowhere)
    /\ pipeOf'[o].open = FALSE /\ PipeKeeps(pipeOf', pipeOf, PipeOwners, o)
    /\ UNCHANGED <<pipeUser, pipeLock, pipeHw, pipeCame, pipeRead, pipeTaken, pipeDropped, pipeLeaked>>
LEMMA PipeDeleteDoes ==
  ASSUME PipeInv, NEW o \in PipeOwners, PipeDelete(o)
  PROVE  PipeDeleteDid(o)
<1>1. PipeTells(o, "idle", PipeNowhere)
  BY PipeDoneAt DEF PipeDelete, PipeTasks
<1>2. pipeOf' = [pipeOf EXCEPT ![o].open = FALSE] /\ pipeOf[o] \in [open : BOOLEAN, size : Nat, opened : Nat, born : Nat]
      /\ DOMAIN pipeOf = PipeOwners
  BY DEF PipeDelete, PipeInv, PipeTypeOK
<1>3. pipeOf'[o].open = FALSE /\ PipeKeeps(pipeOf', pipeOf, PipeOwners, o)
  BY <1>2 DEF PipeKeeps
<1> QED BY <1>1, <1>3 DEF PipeDelete, PipeTurn, pipeGhost, PipeDeleteDid

\* Who is attached, when a task reads, or gets, recorded data.
LEMMA PipeOnesCopies ==
  ASSUME PipeInv, NEW u \in PipeUsers, NEW n \in PipeSizes, PipeCopiesDid(u, n)
  PROVE  \A p \in PipeOwners : PipeOnes(p)' = PipeOnes(p)
<1>1. CASE pipeUser' = pipeUser
  BY <1>1 DEF PipeOnes
<1>2. ASSUME NEW o \in PipeOwners,
             pipeUser'[o][u] = [pipeUser[o][u] EXCEPT !.ring = SubSeq(@, n + 1, Len(@))],
             PipeKeeps(pipeUser'[o], pipeUser[o], PipeUsers, u), PipeKeeps(pipeUser', pipeUser, PipeOwners, o)
      PROVE  \A p \in PipeOwners : PipeOnes(p)' = PipeOnes(p)
  <2>1. pipeUser[o][u] \in PipeRings
    BY DEF PipeInv, PipeTypeOK
  <2>2. pipeUser'[o][u].on = pipeUser[o][u].on
    BY <1>2, <2>1 DEF PipeRings
  <2>3. \A p \in PipeOwners, w \in PipeUsers : pipeUser'[p][w].on = pipeUser[p][w].on
    BY <1>2, <2>2 DEF PipeKeeps
  <2> QED BY <2>3 DEF PipeOnes
<1> QED BY <1>1, <1>2 DEF PipeCopiesDid

LEMMA PipeOnesShare ==
  ASSUME PipeInv, NEW o \in PipeOwners, PipeShareDid(o)
  PROVE  \A p \in PipeOwners : PipeOnes(p)' = PipeOnes(p)
<1>1. ASSUME NEW w \in PipeUsers
      PROVE  pipeUser'[o][w].on = pipeUser[o][w].on
  <2>1. pipeUser[o][w] \in PipeRings
    BY DEF PipeInv, PipeTypeOK
  <2>2. \/ pipeUser'[o][w] = pipeUser[o][w]
        \/ pipeUser'[o][w] = [pipeUser[o][w] EXCEPT !.ring = pipeUser[o][w].ring \o pipeAt[PipeIrq].data]
    BY DEF PipeShareDid
  <2> QED BY <2>1, <2>2 DEF PipeRings
<1>2. \A p \in PipeOwners, w \in PipeUsers : pipeUser'[p][w].on = pipeUser[p][w].on
  BY <1>1 DEF PipeShareDid, PipeKeeps
<1> QED BY <1>2 DEF PipeOnes

\* What is left of units in order, when the first are taken,
LEMMA PipeCut ==
  ASSUME NEW r \in Seq(Nat), PipeSorted(r), NEW n \in 1 .. Len(r)
  PROVE  /\ PipeSorted(SubSeq(r, n + 1, Len(r)))
         /\ ToSet(SubSeq(r, n + 1, Len(r))) = {k \in ToSet(r) : k > r[n]}
<1> DEFINE s == SubSeq(r, n + 1, Len(r))
<1>1. Len(r) \in Nat /\ n \in Nat /\ n >= 1 /\ n <= Len(r) /\ DOMAIN r = 1 .. Len(r)
      /\ \A i \in 1 .. Len(r) : r[i] \in Nat
  OBVIOUS
<1>2. Len(s) = Len(r) - n /\ \A i \in 1 .. Len(r) - n : s[i] = r[i + n]
  <2>2. Len(s) = Len(r) - n
    <3>1. Len(s) = IF n + 1 <= Len(r) THEN Len(r) - (n + 1) + 1 ELSE 0
      BY <1>1, SubSeqProperties
    <3> HIDE DEF s
    <3>2. CASE n + 1 <= Len(r)
      <4>1. Len(s) = Len(r) - (n + 1) + 1
        BY <3>1, <3>2
      <4> QED BY <1>1, <4>1
    <3>3. CASE ~(n + 1 <= Len(r))
      <4>1. Len(s) = 0
        BY <3>1, <3>3
      <4>2. \A a, b \in Nat : a <= b /\ ~(a + 1 <= b) => b - a = 0
        OBVIOUS
      <4>3. Len(r) - n = 0
        BY <1>1, <3>3, <4>2
      <4> QED BY <4>1, <4>3
    <3> QED BY <3>2, <3>3
  <2>3. ASSUME NEW i \in 1 .. Len(r) - n
        PROVE  s[i] = r[i + n]
    <3>1. i \in 1 .. Len(r) - (n + 1) + 1 /\ n + 1 + i - 1 = i + n
      BY <1>1
    <3>2. s[i] = r[n + 1 + i - 1]
      BY <1>1, <3>1, SubSeqProperties
    <3> QED BY <3>1, <3>2
  <2> QED BY <2>2, <2>3
<1>3. s \in Seq(Nat)
  BY <1>1, SubSeqProperties
<1> HIDE DEF s
<1>4. DOMAIN s = 1 .. Len(r) - n
  BY <1>2, <1>3
<1>5. PipeSorted(s)
  BY <1>1, <1>2 DEF PipeSorted
<1>6. ASSUME NEW k \in ToSet(s)
      PROVE  k \in ToSet(r) /\ k > r[n]
  <2>1. PICK i \in 1 .. Len(r) - n : k = r[i + n]
    BY <1>2, <1>4 DEF ToSet
  <2>2. i + n \in 1 .. Len(r) /\ n < i + n
    BY <1>1
  <2>3. r[n] < r[i + n]
    BY <1>1, <2>2 DEF PipeSorted
  <2> QED BY <1>1, <2>1, <2>2, <2>3 DEF ToSet
<1>7. ASSUME NEW k \in ToSet(r), k > r[n]
      PROVE  k \in ToSet(s)
  <2>1. PICK i \in 1 .. Len(r) : k = r[i]
    BY <1>1 DEF ToSet
  <2>2. i > n
    <3>1. CASE i = n
      BY <1>1, <1>7, <2>1, <3>1
    <3>2. CASE i < n
      <4>1. r[i] < r[n]
        BY <1>1, <3>2 DEF PipeSorted
      <4> QED BY <1>1, <1>7, <2>1, <4>1
    <3> QED BY <1>1, <3>1, <3>2
  <2>3. i - n \in 1 .. Len(r) - n /\ i = (i - n) + n
    BY <1>1, <2>2
  <2>4. s[i - n] = r[i]
    BY <1>2, <2>3
  <2> QED BY <1>4, <2>1, <2>3, <2>4 DEF ToSet
<1> QED BY <1>5, <1>6, <1>7 DEF s

\* and when later ones come after them.
LEMMA PipeJoin ==
  ASSUME NEW r \in Seq(Nat), NEW d \in Seq(Nat), PipeSorted(r), PipeSorted(d),
         \A i \in ToSet(r), j \in ToSet(d) : i < j
  PROVE  PipeSorted(r \o d) /\ ToSet(r \o d) = ToSet(r) \cup ToSet(d)
<1> DEFINE s == r \o d
<1>1. Len(r) \in Nat /\ Len(d) \in Nat /\ DOMAIN r = 1 .. Len(r) /\ DOMAIN d = 1 .. Len(d)
      /\ (\A i \in 1 .. Len(r) : r[i] \in Nat) /\ (\A i \in 1 .. Len(d) : d[i] \in Nat)
  OBVIOUS
<1>2. /\ s \in Seq(Nat) /\ Len(s) = Len(r) + Len(d) /\ DOMAIN s = 1 .. Len(s)
      /\ \A i \in 1 .. Len(r) + Len(d) : s[i] = IF i <= Len(r) THEN r[i] ELSE d[i - Len(r)]
  BY ConcatProperties
<1> HIDE DEF s
<1>3. \A i \in 1 .. Len(r) : i \in 1 .. Len(s) /\ s[i] = r[i]
  BY <1>1, <1>2
<1>4. \A i \in 1 .. Len(d) : Len(r) + i \in 1 .. Len(s) /\ s[Len(r) + i] = d[i]
  <2> SUFFICES ASSUME NEW i \in 1 .. Len(d)
               PROVE  Len(r) + i \in 1 .. Len(s) /\ s[Len(r) + i] = d[i]
    OBVIOUS
  <2>1. Len(r) + i \in 1 .. Len(r) + Len(d) /\ ~(Len(r) + i <= Len(r)) /\ (Len(r) + i) - Len(r) = i
    BY <1>1
  <2>2. s[Len(r) + i] = d[(Len(r) + i) - Len(r)]
    BY <1>2, <2>1
  <2> QED BY <1>2, <2>1, <2>2
<1>5. \A i \in 1 .. Len(s) : i \in 1 .. Len(r) \/ (i > Len(r) /\ i - Len(r) \in 1 .. Len(d) /\ s[i] = d[i - Len(r)])
  BY <1>1, <1>2
<1>6. ToSet(s) = ToSet(r) \cup ToSet(d)
  <2>1. ToSet(s) \subseteq ToSet(r) \cup ToSet(d)
    BY <1>1, <1>2, <1>3, <1>5 DEF ToSet
  <2>2. ToSet(r) \subseteq ToSet(s)
    BY <1>1, <1>2, <1>3 DEF ToSet
  <2>3. ToSet(d) \subseteq ToSet(s)
    <3> SUFFICES ASSUME NEW k \in ToSet(d)
                 PROVE  k \in ToSet(s)
      OBVIOUS
    <3>1. PICK i \in 1 .. Len(d) : k = d[i]
      BY <1>1 DEF ToSet
    <3>2. Len(r) + i \in DOMAIN s /\ s[Len(r) + i] = k
      BY <1>2, <1>4, <3>1
    <3> QED BY <3>2 DEF ToSet
  <2> QED BY <2>1, <2>2, <2>3
<1>7. PipeSorted(s)
  <2> SUFFICES ASSUME NEW i \in 1 .. Len(s), NEW j \in 1 .. Len(s), i < j
               PROVE  s[i] < s[j]
    BY DEF PipeSorted
  <2>1. CASE j \in 1 .. Len(r)
    <3>1. i \in 1 .. Len(r)
      BY <1>1, <1>2, <2>1
    <3> QED BY <1>3, <2>1, <3>1 DEF PipeSorted
  <2>2. CASE i \in 1 .. Len(r) /\ j \notin 1 .. Len(r)
    <3>1. s[i] = r[i] /\ s[j] = d[j - Len(r)] /\ j - Len(r) \in 1 .. Len(d)
      BY <1>3, <1>5, <2>2
    <3> QED BY <1>1, <2>2, <3>1 DEF ToSet
  <2>3. CASE i \notin 1 .. Len(r) /\ j \notin 1 .. Len(r)
    <3>1. /\ s[i] = d[i - Len(r)] /\ i - Len(r) \in 1 .. Len(d)
          /\ s[j] = d[j - Len(r)] /\ j - Len(r) \in 1 .. Len(d)
      BY <1>5, <2>3
    <3>2. i - Len(r) < j - Len(r)
      BY <1>1, <1>2
    <3> QED BY <3>1, <3>2 DEF PipeSorted
  <2> QED BY <2>1, <2>2, <2>3
<1> QED BY <1>6, <1>7 DEF s

\* The units an event has fetched are those that come next.
LEMMA PipeNewUnits ==
  ASSUME PipeInv, ~pipeGone, NEW o \in PipeOwners, PipeShareDid(o)
  PROVE  LET data == pipeAt[PipeIrq].data IN
         /\ data \in Seq(Nat) /\ PipeSorted(data)
         /\ ToSet(data) = pipeRead[o] + 1 .. pipeRead'[o] /\ pipeRead'[o] >= pipeRead[o] /\ pipeRead'[o] \in Nat
<1> DEFINE data == pipeAt[PipeIrq].data
<1>1. data \in Seq(Nat) /\ pipeRead[o] \in Nat
  BY DEF PipeInv, PipeTypeOK, PipeAtOK, PipeSteps, PipeTasks
<1>2. data = [k \in 1 .. Len(data) |-> pipeRead[o] + k]
  BY DEF PipeInv, PipeGood, PipeEventOwns, PipeShareDid
<1>3. pipeRead'[o] = pipeRead[o] + Len(data)
  BY DEF PipeShareDid
<1> HIDE DEF data
<1>4. Len(data) \in Nat /\ DOMAIN data = 1 .. Len(data) /\ \A k \in 1 .. Len(data) : data[k] = pipeRead[o] + k
  BY <1>1, <1>2
<1>5. PipeSorted(data)
  BY <1>1, <1>4 DEF PipeSorted
<1>6. ToSet(data) = pipeRead[o] + 1 .. pipeRead'[o]
  <2>1. ASSUME NEW k \in pipeRead[o] + 1 .. pipeRead'[o]
        PROVE  k \in ToSet(data)
    <3>1. k - pipeRead[o] \in 1 .. Len(data) /\ k = pipeRead[o] + (k - pipeRead[o])
      BY <1>1, <1>3, <1>4
    <3> QED BY <1>4, <3>1 DEF ToSet
  <2>2. ASSUME NEW k \in ToSet(data)
        PROVE  k \in pipeRead[o] + 1 .. pipeRead'[o]
    BY <1>1, <1>3, <1>4 DEF ToSet
  <2> QED BY <2>1, <2>2
<1> QED BY <1>1, <1>3, <1>4, <1>5, <1>6 DEF data

LEMMA PipeUserSet ==
  ASSUME PipeInv, NEW o \in PipeOwners, NEW u \in PipeUsers, NEW e \in PipeRings,
         pipeUser' = [pipeUser EXCEPT ![o][u] = e]
  PROVE  pipeUser' \in [PipeOwners -> [PipeUsers -> PipeRings]]
<1>1. pipeUser \in [PipeOwners -> [PipeUsers -> PipeRings]]
  BY DEF PipeInv, PipeTypeOK, PipeRings
<1>2. [pipeUser[o] EXCEPT ![u] = e] \in [PipeUsers -> PipeRings]
  BY <1>1
<1>3. pipeUser' = [pipeUser EXCEPT ![o] = [pipeUser[o] EXCEPT ![u] = e]]
  OBVIOUS
<1> QED BY <1>1, <1>2, <1>3

LEMMA PipeRing ==
  ASSUME NEW a \in PipeRings
  PROVE  /\ a.on \in BOOLEAN /\ a.ring \in Seq(Nat) /\ a.len \in Nat /\ Len(a.ring) \in Nat
         /\ \A q \in Seq(Nat) : [a EXCEPT !.ring = a.ring \o q] \in PipeRings
         /\ \A n \in Nat : n <= Len(a.ring) => [a EXCEPT !.ring = SubSeq(a.ring, n + 1, Len(a.ring))] \in PipeRings
<1>1. a.on \in BOOLEAN /\ a.ring \in Seq(Nat) /\ a.len \in Nat /\ Len(a.ring) \in Nat
  BY DEF PipeRings
<1>2. ASSUME NEW q \in Seq(Nat)
      PROVE  [a EXCEPT !.ring = q] \in PipeRings
  BY DEF PipeRings
<1>3. ASSUME NEW q \in Seq(Nat)
      PROVE  a.ring \o q \in Seq(Nat)
  BY <1>1
<1>4. ASSUME NEW n \in Nat, n <= Len(a.ring)
      PROVE  SubSeq(a.ring, n + 1, Len(a.ring)) \in Seq(Nat)
  <2> DEFINE r == a.ring
  <2>1. r \in Seq(Nat)
    BY <1>1
  <2> HIDE DEF r
  <2> SUFFICES SubSeq(r, n + 1, Len(r)) \in Seq(Nat)
    BY DEF r
  <2> QED BY <2>1, SubSeqProperties
<1> QED BY <1>1, <1>2, <1>3, <1>4

LEMMA PipeUserKept ==
  ASSUME PipeInv, PipeNext
  PROVE  pipeUser' \in [PipeOwners -> [PipeUsers -> PipeRings]]
<1>0. pipeUser \in [PipeOwners -> [PipeUsers -> PipeRings]]
  BY DEF PipeInv, PipeTypeOK, PipeRings
<1>1. ASSUME NEW o \in PipeOwners, PipeClosePipe(o)
      PROVE  pipeUser' \in [PipeOwners -> [PipeUsers -> PipeRings]]
  <2>1. [u \in PipeUsers |-> PipeNoUser] \in [PipeUsers -> PipeRings]
    <3>1. <<>> \in Seq(Nat)
      OBVIOUS
    <3>2. PipeNoUser \in PipeRings
      BY <3>1 DEF PipeNoUser, PipeRings
    <3> QED BY <3>2
  <2>2. pipeUser' = [pipeUser EXCEPT ![o] = [u \in PipeUsers |-> PipeNoUser]]
    BY <1>1 DEF PipeClosePipe
  <2> QED BY <1>0, <2>1, <2>2
<1>2. ASSUME NEW u \in PipeUsers, PipeAttach(u) \/ PipeDetach(u)
      PROVE  pipeUser' \in [PipeOwners -> [PipeUsers -> PipeRings]]
  <2> DEFINE p == pipeAt[u].pipe
             e == [on |-> TRUE, ring |-> <<>>, len |-> PipeRoom * pipeOf[p].opened]
  <2>1. p \in PipeOwners
    BY <1>2 DEF PipeInv, PipeGood, PipeWorks, PipeTasks, PipeAttach, PipeDetach, PipeTurn
  <2>2. <<>> \in Seq(Nat)
    OBVIOUS
  <2>3. PipeRoom * pipeOf[p].opened \in Nat
    <3>1. pipeOf[p].opened \in Nat /\ PipeRoom \in Nat
      BY <2>1, PipeAssumption DEF PipeInv, PipeTypeOK
    <3> QED BY <3>1
  <2>4. e \in PipeRings
    BY <2>2, <2>3 DEF PipeRings
  <2>5. PipeNoUser \in PipeRings
    BY <2>2 DEF PipeRings, PipeNoUser
  <2>6. pipeUser' = [pipeUser EXCEPT ![p][u] = e] \/ pipeUser' = [pipeUser EXCEPT ![p][u] = PipeNoUser]
    BY <1>2 DEF PipeAttach, PipeDetach
  <2> HIDE DEF p, e
  <2> QED BY <2>1, <2>4, <2>5, <2>6, PipeUserSet
<1>3. ASSUME NEW u \in PipeUsers, NEW n \in PipeSizes, PipeCopies(u, n)
      PROVE  pipeUser' \in [PipeOwners -> [PipeUsers -> PipeRings]]
  <2> DEFINE p == pipeAt[u].pipe
             a == pipeUser[p][u]
             e == [a EXCEPT !.ring = SubSeq(a.ring, n + 1, Len(a.ring))]
  <2>1. p \in PipeOwners
    BY <1>3 DEF PipeInv, PipeGood, PipeWorks, PipeTasks, PipeCopies, PipeTurn
  <2>2. a \in PipeRings /\ n \in Nat
    BY <1>0, <2>1, PipeAssumption
  <2>3. CASE ~(n <= Len(a.ring))
    BY <1>0, <1>3, <2>3 DEF PipeCopies
  <2>4. CASE n <= Len(a.ring)
    <3>1. e \in PipeRings
      <4> HIDE DEF a
      <4> QED BY <2>2, <2>4, PipeRing
    <3>2. pipeUser' = [pipeUser EXCEPT ![p][u] = e]
      <4>1. pipeUser' = [pipeUser EXCEPT ![p][u].ring = SubSeq(@, n + 1, Len(@))]
        BY <1>3, <2>4 DEF PipeCopies
      <4>2. [pipeUser[p] EXCEPT ![u].ring = SubSeq(@, n + 1, Len(@))] = [pipeUser[p] EXCEPT ![u] = e]
        OBVIOUS
      <4> QED BY <4>1, <4>2
    <3> HIDE DEF e, p
    <3> QED BY <2>1, <3>1, <3>2, PipeUserSet
  <2> QED BY <2>3, <2>4
<1>4. ASSUME PipeShare
      PROVE  pipeUser' \in [PipeOwners -> [PipeUsers -> PipeRings]]
  <2> DEFINE p == pipeAt[PipeIrq].pipe
             data == pipeAt[PipeIrq].data
             full == {w \in PipeOnes(p) : ~PipeHasRoom(p, w, data)}
             f == [w \in PipeUsers |-> IF w \in PipeOnes(p) \ full
                      THEN [pipeUser[p][w] EXCEPT !.ring = pipeUser[p][w].ring \o data] ELSE pipeUser[p][w]]
  <2>1. p \in PipeOwners /\ data \in Seq(Nat)
    BY <1>4 DEF PipeInv, PipeGood, PipeWorks, PipeTasks, PipeShare, PipeTurn, PipeTypeOK, PipeAtOK, PipeSteps
  <2>2. pipeUser' = [pipeUser EXCEPT ![p] = f]
    BY <1>4 DEF PipeShare
  <2>3. \A w \in PipeUsers : pipeUser[p][w] \in PipeRings
    BY <1>0, <2>1
  <2>4. \A w \in PipeUsers : [pipeUser[p][w] EXCEPT !.ring = pipeUser[p][w].ring \o data] \in PipeRings
    <3> HIDE DEF data, p
    <3> QED BY <2>1, <2>3, PipeRing
  <2>5. f \in [PipeUsers -> PipeRings]
    <3> HIDE DEF data, p, full
    <3> QED BY <2>3, <2>4
  <2> HIDE DEF f, p
  <2> QED BY <1>0, <2>1, <2>2, <2>5
<1>5. ASSUME UNCHANGED pipeUser
      PROVE  pipeUser' \in [PipeOwners -> [PipeUsers -> PipeRings]]
  BY <1>0, <1>5
<1>6. \/ \E o \in PipeOwners : PipeClosePipe(o)
      \/ \E u \in PipeUsers : PipeAttach(u) \/ PipeDetach(u) \/ \E n \in PipeSizes : PipeCopies(u, n)
      \/ PipeShare \/ UNCHANGED pipeUser
  BY DEF PipeNext, PipeOpen, PipeNotOpened, PipeClose, PipeDelete, PipeEvent, PipeComes, PipeOpened,
         PipeUpdateReadSize, PipeFinds, PipeFindsToAttach, PipeFindsToDetach, PipeReads,
         PipeEventLocks, PipeFetch
<1> QED BY <1>1, <1>2, <1>3, <1>4, <1>5, <1>6

LEMMA PipeDataKept ==
  ASSUME PipeInv, PipeNext
  PROVE  /\ pipeLock' \in [PipeOwners -> {PipeFree, PipeIrq}]
         /\ pipeHw' \in [PipeOwners -> {"closed", "open", "running"}]
         /\ pipeCame' \in [PipeOwners -> Nat] /\ pipeRead' \in [PipeOwners -> Nat]
         /\ pipeTaken' \in [PipeOwners -> [PipeUsers -> Nat]]
         /\ pipeDropped' \in [PipeOwners -> [PipeUsers -> SUBSET Nat]]
<1> DEFINE Goal ==
             /\ pipeLock' \in [PipeOwners -> {PipeFree, PipeIrq}]
             /\ pipeHw' \in [PipeOwners -> {"closed", "open", "running"}]
             /\ pipeCame' \in [PipeOwners -> Nat] /\ pipeRead' \in [PipeOwners -> Nat]
             /\ pipeTaken' \in [PipeOwners -> [PipeUsers -> Nat]]
             /\ pipeDropped' \in [PipeOwners -> [PipeUsers -> SUBSET Nat]]
<1>0. /\ pipeLock \in [PipeOwners -> {PipeFree, PipeIrq}]
      /\ pipeHw \in [PipeOwners -> {"closed", "open", "running"}]
      /\ pipeCame \in [PipeOwners -> Nat] /\ pipeRead \in [PipeOwners -> Nat]
      /\ pipeTaken \in [PipeOwners -> [PipeUsers -> Nat]]
      /\ pipeDropped \in [PipeOwners -> [PipeUsers -> SUBSET Nat]]
      /\ pipeUser \in [PipeOwners -> [PipeUsers -> PipeRings]]
  BY DEF PipeInv, PipeTypeOK
<1>1. ASSUME NEW o \in PipeOwners,
             PipeOpen(o) \/ PipeNotOpened(o) \/ PipeClose(o) \/ PipeClosePipe(o) \/ PipeDelete(o)
                \/ PipeEvent(o) \/ PipeComes(o)
      PROVE  Goal
  <2>1. \/ pipeHw' = [pipeHw EXCEPT ![o] = "open"] \/ pipeHw' = [pipeHw EXCEPT ![o] = "closed"]
        \/ pipeHw' = pipeHw
    BY <1>1 DEF PipeOpen, PipeNotOpened, PipeClose, PipeClosePipe, PipeDelete, PipeEvent, PipeComes
  <2>2. pipeCame' = [pipeCame EXCEPT ![o] = @ + 1] \/ pipeCame' = pipeCame
    BY <1>1 DEF PipeOpen, PipeNotOpened, PipeClose, PipeClosePipe, PipeDelete, PipeEvent, PipeComes
  <2>3. UNCHANGED <<pipeLock, pipeRead, pipeTaken, pipeDropped>>
    BY <1>1 DEF PipeOpen, PipeNotOpened, PipeClose, PipeClosePipe, PipeDelete, PipeEvent, PipeComes,
                pipeLocks, pipeGhost
  <2>4. pipeHw' \in [PipeOwners -> {"closed", "open", "running"}]
    BY <1>0, <2>1
  <2>5. pipeCame' \in [PipeOwners -> Nat]
    <3>1. pipeCame[o] + 1 \in Nat
      BY <1>0
    <3> DEFINE c == pipeCame[o] + 1
    <3>2. pipeCame' = [pipeCame EXCEPT ![o] = c] \/ pipeCame' = pipeCame
      BY <2>2
    <3>3. c \in Nat
      BY <3>1
    <3> HIDE DEF c
    <3> QED BY <1>0, <3>2, <3>3
  <2> QED BY <1>0, <2>3, <2>4, <2>5
<1>2. ASSUME NEW o \in PipeOwners, NEW size \in PipeSizes, PipeOpened(o, size) \/ PipeUpdateReadSize(o, size)
      PROVE  Goal
  BY <1>0, <1>2 DEF PipeOpened, PipeUpdateReadSize, pipeLocks, pipeGhost
<1>3. ASSUME NEW u \in PipeUsers, NEW o \in PipeOwners,
             PipeFindsToAttach(u, o) \/ PipeFindsToDetach(u, o) \/ PipeReads(u, o)
      PROVE  Goal
  BY <1>0, <1>3 DEF PipeFindsToAttach, PipeFindsToDetach, PipeFinds, PipeReads, pipeLocks, pipeGhost
<1>4. ASSUME NEW u \in PipeUsers, PipeAttach(u) \/ PipeDetach(u)
      PROVE  Goal
  <2> DEFINE p == pipeAt[u].pipe
  <2>1. p \in PipeOwners
    BY <1>4 DEF PipeInv, PipeGood, PipeWorks, PipeTasks, PipeAttach, PipeDetach, PipeTurn
  <2>2. pipeHw' = [pipeHw EXCEPT ![p] = "running"] \/ pipeHw' = [pipeHw EXCEPT ![p] = "open"] \/ pipeHw' = pipeHw
    <3>1. CASE PipeAttach(u)
      BY <3>1 DEF PipeAttach
    <3>2. CASE PipeDetach(u)
      <4>1. pipeHw' = [pipeHw EXCEPT ![p] = IF PipeOnes(p) = {u} THEN "open" ELSE pipeHw[p]]
        BY <3>2 DEF PipeDetach
      <4>2. CASE PipeOnes(p) = {u}
        BY <4>1, <4>2
      <4>3. CASE PipeOnes(p) # {u}
        BY <4>1, <4>3, <1>0
      <4> QED BY <4>2, <4>3
    <3> QED BY <1>4, <3>1, <3>2
  <2>3. pipeTaken' = [pipeTaken EXCEPT ![p][u] = pipeRead[p]] \/ pipeTaken' = pipeTaken
    BY <1>4 DEF PipeAttach, PipeDetach, pipeGhost
  <2>4. pipeDropped' = [pipeDropped EXCEPT ![p][u] = {}] \/ pipeDropped' = pipeDropped
    BY <1>4 DEF PipeAttach, PipeDetach, pipeGhost
  <2>5. UNCHANGED <<pipeLock, pipeCame, pipeRead>>
    BY <1>4 DEF PipeAttach, PipeDetach, pipeLocks
  <2> HIDE DEF p
  <2>6. pipeHw' \in [PipeOwners -> {"closed", "open", "running"}]
    BY <1>0, <2>1, <2>2
  <2>7. pipeTaken' \in [PipeOwners -> [PipeUsers -> Nat]]
    <3>1. [pipeTaken[p] EXCEPT ![u] = pipeRead[p]] \in [PipeUsers -> Nat]
      BY <1>0, <2>1
    <3>2. \/ pipeTaken' = [pipeTaken EXCEPT ![p] = [pipeTaken[p] EXCEPT ![u] = pipeRead[p]]]
          \/ pipeTaken' = pipeTaken
      BY <2>3
    <3> QED BY <1>0, <2>1, <3>1, <3>2
  <2>8. pipeDropped' \in [PipeOwners -> [PipeUsers -> SUBSET Nat]]
    <3>1. [pipeDropped[p] EXCEPT ![u] = {}] \in [PipeUsers -> SUBSET Nat]
      BY <1>0, <2>1
    <3>2. \/ pipeDropped' = [pipeDropped EXCEPT ![p] = [pipeDropped[p] EXCEPT ![u] = {}]]
          \/ pipeDropped' = pipeDropped
      BY <2>4
    <3> QED BY <1>0, <2>1, <3>1, <3>2
  <2> QED BY <1>0, <2>5, <2>6, <2>7, <2>8
<1>5. ASSUME NEW u \in PipeUsers, NEW n \in PipeSizes, PipeCopies(u, n)
      PROVE  Goal
  <2> DEFINE p == pipeAt[u].pipe
             r == pipeUser[p][u].ring
  <2>1. p \in PipeOwners
    BY <1>5 DEF PipeInv, PipeGood, PipeWorks, PipeTasks, PipeCopies, PipeTurn
  <2>2. UNCHANGED <<pipeLock, pipeCame, pipeRead, pipeHw, pipeDropped>>
    BY <1>5 DEF PipeCopies
  <2>3. r \in Seq(Nat) /\ n \in Nat
    BY <1>0, <2>1, PipeAssumption DEF PipeRings
  <2>4. pipeTaken' = pipeTaken \/ (n \in 1 .. Len(r) /\ pipeTaken' = [pipeTaken EXCEPT ![p][u] = r[n]])
    <3> DEFINE c == n <= Len(r) /\ n > 0
    <3>1. pipeTaken' = IF c THEN [pipeTaken EXCEPT ![p][u] = r[n]] ELSE pipeTaken
      BY <1>5 DEF PipeCopies
    <3>2. c => n \in 1 .. Len(r)
      <4> HIDE DEF r
      <4> QED BY <2>3
    <3> HIDE DEF p, r, c
    <3> QED BY <3>1, <3>2
  <2> HIDE DEF p, r
  <2>5. CASE pipeTaken' = pipeTaken
    BY <1>0, <2>2, <2>5
  <2>6. CASE n \in 1 .. Len(r) /\ pipeTaken' = [pipeTaken EXCEPT ![p][u] = r[n]]
    <3>1. r[n] \in Nat
      BY <2>3, <2>6
    <3>2. [pipeTaken[p] EXCEPT ![u] = r[n]] \in [PipeUsers -> Nat]
      BY <1>0, <2>1, <3>1
    <3>3. pipeTaken' = [pipeTaken EXCEPT ![p] = [pipeTaken[p] EXCEPT ![u] = r[n]]]
      BY <2>6
    <3>4. pipeTaken' \in [PipeOwners -> [PipeUsers -> Nat]]
      BY <1>0, <2>1, <3>2, <3>3
    <3> QED BY <1>0, <2>2, <3>4
  <2> QED BY <2>4, <2>5, <2>6
<1>6. ASSUME PipeEventLocks
      PROVE  Goal
  BY <1>0, <1>6 DEF PipeEventLocks, PipeGoes, PipeDone, pipeGhost
<1>7. ASSUME PipeFetch
      PROVE  Goal
  BY <1>0, <1>7 DEF PipeFetch, PipeDone, pipeGhost
<1>8. ASSUME PipeShare
      PROVE  Goal
  <2> DEFINE p == pipeAt[PipeIrq].pipe
             data == pipeAt[PipeIrq].data
             full == {w \in PipeOnes(p) : ~PipeHasRoom(p, w, data)}
             f == [w \in PipeUsers |-> IF w \in full THEN pipeDropped[p][w] \cup ToSet(data) ELSE pipeDropped[p][w]]
  <2>1. p \in PipeOwners /\ data \in Seq(Nat)
    BY <1>8 DEF PipeInv, PipeGood, PipeWorks, PipeTasks, PipeShare, PipeTurn, PipeTypeOK, PipeAtOK, PipeSteps
  <2>2. pipeDropped' = [pipeDropped EXCEPT ![p] = f]
    BY <1>8 DEF PipeShare
  <2>3. pipeRead' = [pipeRead EXCEPT ![p] = @ + Len(data)] /\ UNCHANGED <<pipeLock, pipeHw, pipeCame, pipeTaken>>
    BY <1>8 DEF PipeShare, pipeLocks
  <2> HIDE DEF p, data, full
  <2>4. Len(data) \in Nat /\ ToSet(data) \subseteq Nat
    BY <2>1 DEF ToSet
  <2>5. f \in [PipeUsers -> SUBSET Nat]
    BY <1>0, <2>1, <2>4
  <2> HIDE DEF f
  <2>6. pipeDropped' \in [PipeOwners -> [PipeUsers -> SUBSET Nat]]
    BY <1>0, <2>1, <2>2, <2>5
  <2>7. pipeRead' \in [PipeOwners -> Nat]
    BY <1>0, <2>1, <2>3, <2>4
  <2> QED BY <1>0, <2>3, <2>6, <2>7
<1> HIDE DEF Goal
<1>9. Goal
  <2>1. CASE \E o \in PipeOwners :
              \/ PipeOpen(o) \/ PipeNotOpened(o) \/ PipeClose(o) \/ PipeClosePipe(o) \/ PipeDelete(o)
              \/ PipeEvent(o) \/ PipeComes(o)
              \/ \E size \in PipeSizes : PipeOpened(o, size) \/ PipeUpdateReadSize(o, size)
              \/ \E u \in PipeUsers : PipeFindsToAttach(u, o) \/ PipeFindsToDetach(u, o) \/ PipeReads(u, o)
    BY <2>1, <1>1, <1>2, <1>3
  <2>2. CASE \E u \in PipeUsers : PipeAttach(u) \/ PipeDetach(u) \/ \E n \in PipeSizes : PipeCopies(u, n)
    BY <2>2, <1>4, <1>5
  <2> QED BY <2>1, <2>2, <1>6, <1>7, <1>8 DEF PipeNext
<1> QED BY <1>9 DEF Goal

(* The event holds the lock of its pipe, and the next units.               *)
LEMMA PipeEventKept ==
  ASSUME PipeInv, PipeNext, ~pipeGone', ~pipeGone
  PROVE  PipeEventOwns'
<1>0. PipeEventOwns /\ (\A p \in PipeOwners : PipeOwns(p)) /\ (\A t \in PipeTasks : PipeWorks(t)) /\ PipeFree \notin PipeTasks
  BY PipeAssumption DEF PipeInv, PipeGood, PipeTypeOK, PipeTasks
<1>1. ASSUME NEW o \in PipeOwners, PipeComes(o)
      PROVE  UNCHANGED <<pipeLock, pipeAt, pipeRead>>
  BY <1>1 DEF PipeComes, pipeLocks, pipeGhost
<1>2. ASSUME NEW o \in PipeOwners, NEW size \in PipeSizes, PipeUpdateReadSize(o, size)
      PROVE  UNCHANGED <<pipeLock, pipeAt, pipeRead>>
  BY <1>2 DEF PipeUpdateReadSize, pipeLocks, pipeGhost
<1>3. UNCHANGED <<pipeLock, pipeAt, pipeRead>> => PipeEventOwns'
  BY <1>0 DEF PipeEventOwns, PipeWorks, PipeOwns, PipeTasks
<1>4. ASSUME NEW o \in PipeOwners, PipeOpen(o)
      PROVE  PipeEventOwns'
  <2>1. PipeOpenDid(o)
    BY <1>4, PipeOpenDoes
  <2> QED BY <1>0, <2>1 DEF PipeOpenDid, PipeKeeps, PipeTells, PipeTurns, PipeEventOwns, PipeWorks,
            PipeOwns, PipeTasks
<1>5. ASSUME NEW o \in PipeOwners, PipeNotOpened(o)
      PROVE  PipeEventOwns'
  <2>1. PipeNotOpenedDid(o)
    BY <1>5, PipeNotOpenedDoes
  <2> QED BY <1>0, <2>1 DEF PipeNotOpenedDid, PipeKeeps, PipeTells, PipeTurns, PipeEventOwns,
            PipeWorks, PipeOwns, PipeTasks
<1>6. ASSUME NEW o \in PipeOwners, PipeClose(o)
      PROVE  PipeEventOwns'
  <2>1. PipeCloseDid(o)
    BY <1>6, PipeCloseDoes
  <2> QED BY <1>0, <2>1 DEF PipeCloseDid, PipeKeeps, PipeTells, PipeTurns, PipeEventOwns, PipeWorks,
            PipeOwns, PipeTasks
<1>7. ASSUME NEW o \in PipeOwners, PipeClosePipe(o)
      PROVE  PipeEventOwns'
  <2>1. PipeClosePipeDid(o)
    BY <1>7, PipeClosePipeDoes
  <2> QED BY <1>0, <2>1 DEF PipeClosePipeDid, PipeKeeps, PipeTells, PipeTurns, PipeEventOwns,
            PipeWorks, PipeOwns, PipeTasks
<1>8. ASSUME NEW o \in PipeOwners, PipeDelete(o)
      PROVE  PipeEventOwns'
  <2>1. PipeDeleteDid(o)
    BY <1>8, PipeDeleteDoes
  <2> QED BY <1>0, <2>1 DEF PipeDeleteDid, PipeKeeps, PipeTells, PipeTurns, PipeEventOwns,
            PipeWorks, PipeOwns, PipeTasks
<1>9. ASSUME NEW o \in PipeOwners, PipeEvent(o)
      PROVE  PipeEventOwns'
  <2>1. PipeEventDid(o)
    BY <1>9, PipeEventDoes
  <2> QED BY <1>0, <2>1 DEF PipeEventDid, PipeKeeps, PipeTells, PipeTurns, PipeEventOwns, PipeWorks,
            PipeOwns, PipeTasks
<1>10. ASSUME NEW o \in PipeOwners, NEW size \in PipeSizes, PipeOpened(o, size)
      PROVE  PipeEventOwns'
  <2>1. PipeOpenedDid(o, size)
    BY <1>10, PipeOpenedDoes
  <2> QED BY <1>0, <2>1 DEF PipeOpenedDid, PipeKeeps, PipeTells, PipeTurns, PipeEventOwns,
            PipeWorks, PipeOwns, PipeTasks
<1>11. ASSUME NEW u \in PipeUsers, NEW o \in PipeOwners, PipeFindsToAttach(u, o)
      PROVE  PipeEventOwns'
  <2>1. PipeFindsDid(u, o, "attach")
    BY <1>11, PipeFindsDoes DEF PipeFindsToAttach, PipeFindsToDetach
  <2> QED BY <1>0, <2>1 DEF PipeFindsDid, PipeKeeps, PipeTells, PipeTurns, PipeEventOwns, PipeWorks,
            PipeOwns, PipeTasks
<1>12. ASSUME NEW u \in PipeUsers, NEW o \in PipeOwners, PipeFindsToDetach(u, o)
      PROVE  PipeEventOwns'
  <2>1. PipeFindsDid(u, o, "detach")
    BY <1>12, PipeFindsDoes DEF PipeFindsToAttach, PipeFindsToDetach
  <2> QED BY <1>0, <2>1 DEF PipeFindsDid, PipeKeeps, PipeTells, PipeTurns, PipeEventOwns, PipeWorks,
            PipeOwns, PipeTasks
<1>13. ASSUME NEW u \in PipeUsers, NEW o \in PipeOwners, PipeReads(u, o)
      PROVE  PipeEventOwns'
  <2>1. PipeReadsDid(u, o)
    BY <1>13, PipeReadsDoes
  <2> QED BY <1>0, <2>1 DEF PipeReadsDid, PipeKeeps, PipeTells, PipeTurns, PipeEventOwns, PipeWorks,
            PipeOwns, PipeTasks
<1>14. ASSUME NEW u \in PipeUsers, PipeAttach(u)
      PROVE  PipeEventOwns'
  <2>1. PICK q \in PipeOwners : PipeAttachDid(u, q)
    BY <1>14, PipeAttachDoes
  <2>2. \A p \in PipeOwners : pipeLock'[p] = pipeLock[p] /\ pipeRead'[p] = pipeRead[p]
    BY <2>1 DEF PipeAttachDid
  <2>3. \/ pipeAt'[PipeIrq] = pipeAt[PipeIrq]
        \/ pipeAt[PipeIrq].do = "attach" /\ pipeAt'[PipeIrq].do = "idle"
    BY <1>0, <2>1 DEF PipeAttachDid, PipeTells, PipeKeeps, PipeTasks
  <2> QED BY <1>0, <2>1, <2>2, <2>3 DEF PipeEventOwns, PipeWorks, PipeTasks
<1>15. ASSUME NEW u \in PipeUsers, PipeDetach(u)
      PROVE  PipeEventOwns'
  <2>1. PICK q \in PipeOwners : PipeDetachDid(u, q)
    BY <1>15, PipeDetachDoes
  <2> QED BY <1>0, <2>1 DEF PipeDetachDid, PipeKeeps, PipeTells, PipeTurns, PipeEventOwns,
            PipeWorks, PipeOwns, PipeTasks
<1>16. ASSUME NEW u \in PipeUsers, NEW n \in PipeSizes, PipeCopies(u, n)
      PROVE  PipeEventOwns'
  <2>1. PipeCopiesDid(u, n)
    BY <1>16, PipeCopiesDoes
  <2> QED BY <1>0, <2>1 DEF PipeCopiesDid, PipeKeeps, PipeTells, PipeTurns, PipeEventOwns,
            PipeWorks, PipeOwns, PipeTasks
<1>17. ASSUME PipeEventLocks
      PROVE  PipeEventOwns'
  <2>1. PICK q \in PipeOwners : PipeEventLocksDid(q)
    BY <1>17, PipeEventLocksDoes
  <2> QED BY <1>0, <2>1 DEF PipeEventLocksDid, PipeKeeps, PipeTells, PipeTurns, PipeEventOwns,
            PipeWorks, PipeOwns, PipeTasks
<1>18. ASSUME PipeFetch
      PROVE  PipeEventOwns'
  <2>1. PICK q \in PipeOwners : PipeFetchDid(q)
    BY <1>18, PipeFetchDoes
  <2>2. CASE PipeTells(PipeIrq, "idle", PipeNowhere)
    BY <1>0, <2>1, <2>2 DEF PipeFetchDid, PipeKeeps, PipeTells, PipeEventOwns, PipeWorks, PipeTasks
  <2>3. CASE /\ pipeAt'[PipeIrq].do = "share" /\ pipeAt'[PipeIrq].pipe = q
             /\ pipeAt'[PipeIrq].data = [k \in 1 .. pipeOf[q].size |-> pipeRead[q] + k]
             /\ pipeLock' = pipeLock
    <3>1. pipeOf[q].size \in Nat /\ pipeRead[q] \in Nat
      BY DEF PipeInv, PipeTypeOK
    <3>2. Len(pipeAt'[PipeIrq].data) = pipeOf[q].size
      BY <2>3, <3>1
    <3>3. pipeRead' = pipeRead /\ pipeAt[PipeIrq].do = "fetch" /\ pipeAt[PipeIrq].pipe = q
      BY <2>1 DEF PipeFetchDid
    <3>4. \A p \in PipeOwners : pipeLock'[p] = PipeIrq <=> p = q
      BY <1>0, <2>3, <3>3 DEF PipeEventOwns
    <3> QED BY <2>3, <3>2, <3>3, <3>4 DEF PipeEventOwns
  <2> QED BY <2>1, <2>2, <2>3 DEF PipeFetchDid
<1>19. ASSUME PipeShare
      PROVE  PipeEventOwns'
  <2>1. PICK q \in PipeOwners : PipeShareDid(q)
    BY <1>19, PipeShareDoes
  <2> QED BY <1>0, <2>1 DEF PipeShareDid, PipeKeeps, PipeTells, PipeTurns, PipeEventOwns, PipeWorks,
            PipeOwns, PipeTasks
<1> QED
  <2>1. CASE \E o \in PipeOwners :
              \/ PipeOpen(o) \/ PipeNotOpened(o) \/ PipeClose(o) \/ PipeClosePipe(o) \/ PipeDelete(o)
              \/ PipeEvent(o) \/ PipeComes(o)
              \/ \E size \in PipeSizes : PipeOpened(o, size) \/ PipeUpdateReadSize(o, size)
              \/ \E u \in PipeUsers : PipeFindsToAttach(u, o) \/ PipeFindsToDetach(u, o) \/ PipeReads(u, o)
    BY <2>1, <1>3, <1>4, <1>5, <1>6, <1>7, <1>8, <1>9, <1>10, <1>11, <1>12, <1>13, <1>14, <1>15,
       <1>16, <1>17, <1>18, <1>19, <1>1, <1>2
  <2>2. CASE \E u \in PipeUsers : PipeAttach(u) \/ PipeDetach(u) \/ \E n \in PipeSizes : PipeCopies(u, n)
    BY <2>2, <1>3, <1>4, <1>5, <1>6, <1>7, <1>8, <1>9, <1>10, <1>11, <1>12, <1>13, <1>14, <1>15,
       <1>16, <1>17, <1>18, <1>19, <1>1, <1>2
  <2> QED BY <2>1, <2>2, <1>3, <1>4, <1>5, <1>6, <1>7, <1>8, <1>9, <1>10, <1>11, <1>12, <1>13,
          <1>14, <1>15, <1>16, <1>17, <1>18, <1>19, <1>1, <1>2 DEF PipeNext

(* Who works with a pipe has one.                                          *)
LEMMA PipeWorksKept ==
  ASSUME PipeInv, PipeNext, ~pipeGone', ~pipeGone
  PROVE  \A t \in PipeTasks : PipeWorks(t)'
<1>0. PipeEventOwns /\ (\A p \in PipeOwners : PipeOwns(p)) /\ (\A t \in PipeTasks : PipeWorks(t)) /\ PipeFree \notin PipeTasks
  BY PipeAssumption DEF PipeInv, PipeGood, PipeTypeOK, PipeTasks
<1>1. ASSUME NEW o \in PipeOwners, PipeComes(o)
      PROVE  UNCHANGED <<pipeAt, pipeOf>>
  BY <1>1 DEF PipeComes, pipeLocks, pipeGhost
<1>2. UNCHANGED <<pipeAt, pipeOf>> => \A t \in PipeTasks : PipeWorks(t)'
  BY <1>0 DEF PipeEventOwns, PipeWorks, PipeOwns, PipeTasks
<1>3. ASSUME NEW o \in PipeOwners, PipeOpen(o)
      PROVE  \A t \in PipeTasks : PipeWorks(t)'
  <2>1. PipeOpenDid(o)
    BY <1>3, PipeOpenDoes
  <2> QED BY <1>0, <2>1 DEF PipeOpenDid, PipeKeeps, PipeTells, PipeTurns, PipeEventOwns, PipeWorks,
            PipeOwns, PipeTasks
<1>4. ASSUME NEW o \in PipeOwners, PipeNotOpened(o)
      PROVE  \A t \in PipeTasks : PipeWorks(t)'
  <2>1. PipeNotOpenedDid(o)
    BY <1>4, PipeNotOpenedDoes
  <2> QED BY <1>0, <2>1 DEF PipeNotOpenedDid, PipeKeeps, PipeTells, PipeTurns, PipeEventOwns,
            PipeWorks, PipeOwns, PipeTasks
<1>5. ASSUME NEW o \in PipeOwners, PipeClose(o)
      PROVE  \A t \in PipeTasks : PipeWorks(t)'
  <2>1. PipeCloseDid(o)
    BY <1>5, PipeCloseDoes
  <2> QED BY <1>0, <2>1 DEF PipeCloseDid, PipeKeeps, PipeTells, PipeTurns, PipeEventOwns, PipeWorks,
            PipeOwns, PipeTasks
<1>6. ASSUME NEW o \in PipeOwners, PipeClosePipe(o)
      PROVE  \A t \in PipeTasks : PipeWorks(t)'
  <2>1. PipeClosePipeDid(o)
    BY <1>6, PipeClosePipeDoes
  <2> QED BY <1>0, <2>1 DEF PipeClosePipeDid, PipeKeeps, PipeTells, PipeTurns, PipeEventOwns,
            PipeWorks, PipeOwns, PipeTasks
<1>7. ASSUME NEW o \in PipeOwners, PipeDelete(o)
      PROVE  \A t \in PipeTasks : PipeWorks(t)'
  <2>1. PipeDeleteDid(o)
    BY <1>7, PipeDeleteDoes
  <2> QED BY <1>0, <2>1 DEF PipeDeleteDid, PipeKeeps, PipeTells, PipeTurns, PipeEventOwns,
            PipeWorks, PipeOwns, PipeTasks
<1>8. ASSUME NEW o \in PipeOwners, PipeEvent(o)
      PROVE  \A t \in PipeTasks : PipeWorks(t)'
  <2>1. PipeEventDid(o)
    BY <1>8, PipeEventDoes
  <2> QED BY <1>0, <2>1 DEF PipeEventDid, PipeKeeps, PipeTells, PipeTurns, PipeEventOwns, PipeWorks,
            PipeOwns, PipeTasks
<1>9. ASSUME NEW o \in PipeOwners, NEW size \in PipeSizes, PipeOpened(o, size)
      PROVE  \A t \in PipeTasks : PipeWorks(t)'
  <2>1. PipeOpenedDid(o, size)
    BY <1>9, PipeOpenedDoes
  <2> QED BY <1>0, <2>1 DEF PipeOpenedDid, PipeKeeps, PipeTells, PipeTurns, PipeEventOwns,
            PipeWorks, PipeOwns, PipeTasks
<1>10. ASSUME NEW o \in PipeOwners, NEW size \in PipeSizes, PipeUpdateReadSize(o, size)
      PROVE  \A t \in PipeTasks : PipeWorks(t)'
  <2>1. PipeUpdateDid(o, size)
    BY <1>10, PipeUpdateDoes
  <2> QED BY <1>0, <2>1 DEF PipeUpdateDid, PipeKeeps, PipeTells, PipeTurns, PipeEventOwns,
            PipeWorks, PipeOwns, PipeTasks
<1>11. ASSUME NEW u \in PipeUsers, NEW o \in PipeOwners, PipeFindsToAttach(u, o)
      PROVE  \A t \in PipeTasks : PipeWorks(t)'
  <2>1. PipeFindsDid(u, o, "attach")
    BY <1>11, PipeFindsDoes DEF PipeFindsToAttach, PipeFindsToDetach
  <2> QED BY <1>0, <2>1 DEF PipeFindsDid, PipeKeeps, PipeTells, PipeTurns, PipeEventOwns, PipeWorks,
            PipeOwns, PipeTasks
<1>12. ASSUME NEW u \in PipeUsers, NEW o \in PipeOwners, PipeFindsToDetach(u, o)
      PROVE  \A t \in PipeTasks : PipeWorks(t)'
  <2>1. PipeFindsDid(u, o, "detach")
    BY <1>12, PipeFindsDoes DEF PipeFindsToAttach, PipeFindsToDetach
  <2> QED BY <1>0, <2>1 DEF PipeFindsDid, PipeKeeps, PipeTells, PipeTurns, PipeEventOwns, PipeWorks,
            PipeOwns, PipeTasks
<1>13. ASSUME NEW u \in PipeUsers, NEW o \in PipeOwners, PipeReads(u, o)
      PROVE  \A t \in PipeTasks : PipeWorks(t)'
  <2>1. PipeReadsDid(u, o)
    BY <1>13, PipeReadsDoes
  <2> QED BY <1>0, <2>1 DEF PipeReadsDid, PipeKeeps, PipeTells, PipeTurns, PipeEventOwns, PipeWorks,
            PipeOwns, PipeTasks
<1>14. ASSUME NEW u \in PipeUsers, PipeAttach(u)
      PROVE  \A t \in PipeTasks : PipeWorks(t)'
  <2>1. PICK q \in PipeOwners : PipeAttachDid(u, q)
    BY <1>14, PipeAttachDoes
  <2> QED BY <1>0, <2>1 DEF PipeAttachDid, PipeKeeps, PipeTells, PipeTurns, PipeEventOwns,
            PipeWorks, PipeOwns, PipeTasks
<1>15. ASSUME NEW u \in PipeUsers, PipeDetach(u)
      PROVE  \A t \in PipeTasks : PipeWorks(t)'
  <2>1. PICK q \in PipeOwners : PipeDetachDid(u, q)
    BY <1>15, PipeDetachDoes
  <2> QED BY <1>0, <2>1 DEF PipeDetachDid, PipeKeeps, PipeTells, PipeTurns, PipeEventOwns,
            PipeWorks, PipeOwns, PipeTasks
<1>16. ASSUME NEW u \in PipeUsers, NEW n \in PipeSizes, PipeCopies(u, n)
      PROVE  \A t \in PipeTasks : PipeWorks(t)'
  <2>1. PipeCopiesDid(u, n)
    BY <1>16, PipeCopiesDoes
  <2> QED BY <1>0, <2>1 DEF PipeCopiesDid, PipeKeeps, PipeTells, PipeTurns, PipeEventOwns,
            PipeWorks, PipeOwns, PipeTasks
<1>17. ASSUME PipeEventLocks
      PROVE  \A t \in PipeTasks : PipeWorks(t)'
  <2>1. PICK q \in PipeOwners : PipeEventLocksDid(q)
    BY <1>17, PipeEventLocksDoes
  <2> QED BY <1>0, <2>1 DEF PipeEventLocksDid, PipeKeeps, PipeTells, PipeTurns, PipeEventOwns,
            PipeWorks, PipeOwns, PipeTasks
<1>18. ASSUME PipeFetch
      PROVE  \A t \in PipeTasks : PipeWorks(t)'
  <2>1. PICK q \in PipeOwners : PipeFetchDid(q)
    BY <1>18, PipeFetchDoes
  <2> QED BY <1>0, <2>1 DEF PipeFetchDid, PipeKeeps, PipeTells, PipeTurns, PipeEventOwns, PipeWorks,
            PipeOwns, PipeTasks
<1>19. ASSUME PipeShare
      PROVE  \A t \in PipeTasks : PipeWorks(t)'
  <2>1. PICK q \in PipeOwners : PipeShareDid(q)
    BY <1>19, PipeShareDoes
  <2> QED BY <1>0, <2>1 DEF PipeShareDid, PipeKeeps, PipeTells, PipeTurns, PipeEventOwns, PipeWorks,
            PipeOwns, PipeTasks
<1> QED
  <2>1. CASE \E o \in PipeOwners :
              \/ PipeOpen(o) \/ PipeNotOpened(o) \/ PipeClose(o) \/ PipeClosePipe(o) \/ PipeDelete(o)
              \/ PipeEvent(o) \/ PipeComes(o)
              \/ \E size \in PipeSizes : PipeOpened(o, size) \/ PipeUpdateReadSize(o, size)
              \/ \E u \in PipeUsers : PipeFindsToAttach(u, o) \/ PipeFindsToDetach(u, o) \/ PipeReads(u, o)
    BY <2>1, <1>2, <1>3, <1>4, <1>5, <1>6, <1>7, <1>8, <1>9, <1>10, <1>11, <1>12, <1>13, <1>14,
       <1>15, <1>16, <1>17, <1>18, <1>19, <1>1
  <2>2. CASE \E u \in PipeUsers : PipeAttach(u) \/ PipeDetach(u) \/ \E n \in PipeSizes : PipeCopies(u, n)
    BY <2>2, <1>2, <1>3, <1>4, <1>5, <1>6, <1>7, <1>8, <1>9, <1>10, <1>11, <1>12, <1>13, <1>14,
       <1>15, <1>16, <1>17, <1>18, <1>19, <1>1
  <2> QED BY <2>1, <2>2, <1>2, <1>3, <1>4, <1>5, <1>6, <1>7, <1>8, <1>9, <1>10, <1>11, <1>12, <1>13,
          <1>14, <1>15, <1>16, <1>17, <1>18, <1>19, <1>1 DEF PipeNext

(* The owner, its pipe and the hardware.                                   *)
LEMMA PipeOwnsKept ==
  ASSUME PipeInv, PipeNext, ~pipeGone', ~pipeGone
  PROVE  \A p \in PipeOwners : PipeOwns(p)'
<1>0. (\A t \in PipeTasks : PipeWorks(t)) /\ \A p \in PipeOwners : PipeOwns(p)
  BY PipeAssumption DEF PipeInv, PipeGood, PipeTypeOK, PipeTasks
<1>1. ASSUME NEW o \in PipeOwners, PipeComes(o)
      PROVE  UNCHANGED <<pipeAt, pipeOf, pipeHw, pipeUser, pipeLeaked>>
  BY <1>1 DEF PipeComes, pipeLocks, pipeGhost
<1>2. UNCHANGED <<pipeAt, pipeOf, pipeHw, pipeUser, pipeLeaked>> => \A p \in PipeOwners : PipeOwns(p)'
  BY <1>0 DEF PipeOwns, PipeWorks, PipeTasks, PipeOnes, PipeNoUser
<1>3. ASSUME NEW o \in PipeOwners, PipeOpen(o)
      PROVE  \A p \in PipeOwners : PipeOwns(p)'
  <2>1. PipeOpenDid(o)
    BY <1>3, PipeOpenDoes
  <2>2. /\ pipeHw[o] \in {"closed", "open", "running"}
        /\ pipeHw[o] = "running" <=> PipeOnes(o) # {}
        /\ ~pipeOf[o].open => PipeOnes(o) = {}
    BY <1>0 DEF PipeInv, PipeTypeOK, PipeGood, PipeOwns
  <2>3. \A p \in PipeOwners : PipeOnes(p)' = PipeOnes(p)
    BY <2>1 DEF PipeOpenDid, PipeOnes
  <2> QED BY <1>0, <2>1, <2>2, <2>3 DEF PipeOpenDid, PipeKeeps, PipeTells, PipeOwns, PipeTasks
<1>4. ASSUME NEW o \in PipeOwners, PipeNotOpened(o)
      PROVE  \A p \in PipeOwners : PipeOwns(p)'
  <2>1. PipeNotOpenedDid(o)
    BY <1>4, PipeNotOpenedDoes
  <2> QED BY <1>0, <2>1 DEF PipeNotOpenedDid, PipeKeeps, PipeTells, PipeTurns, PipeOwns, PipeWorks,
            PipeTasks, PipeOnes, PipeNoUser
<1>5. ASSUME NEW o \in PipeOwners, PipeClose(o)
      PROVE  \A p \in PipeOwners : PipeOwns(p)'
  <2>1. PipeCloseDid(o)
    BY <1>5, PipeCloseDoes
  <2> QED BY <1>0, <2>1 DEF PipeCloseDid, PipeKeeps, PipeTells, PipeTurns, PipeOwns, PipeWorks,
            PipeTasks, PipeOnes, PipeNoUser
<1>6. ASSUME NEW o \in PipeOwners, PipeClosePipe(o)
      PROVE  \A p \in PipeOwners : PipeOwns(p)'
  <2>1. PipeClosePipeDid(o)
    BY <1>6, PipeClosePipeDoes
  <2> QED BY <1>0, <2>1 DEF PipeClosePipeDid, PipeKeeps, PipeTells, PipeTurns, PipeOwns, PipeWorks,
            PipeTasks, PipeOnes, PipeNoUser
<1>7. ASSUME NEW o \in PipeOwners, PipeDelete(o)
      PROVE  \A p \in PipeOwners : PipeOwns(p)'
  <2>1. PipeDeleteDid(o)
    BY <1>7, PipeDeleteDoes
  <2> QED BY <1>0, <2>1 DEF PipeDeleteDid, PipeKeeps, PipeTells, PipeTurns, PipeOwns, PipeWorks,
            PipeTasks, PipeOnes, PipeNoUser
<1>8. ASSUME NEW o \in PipeOwners, PipeEvent(o)
      PROVE  \A p \in PipeOwners : PipeOwns(p)'
  <2>1. PipeEventDid(o)
    BY <1>8, PipeEventDoes
  <2> QED BY <1>0, <2>1 DEF PipeEventDid, PipeKeeps, PipeTells, PipeTurns, PipeOwns, PipeWorks,
            PipeTasks, PipeOnes, PipeNoUser
<1>9. ASSUME NEW o \in PipeOwners, NEW size \in PipeSizes, PipeOpened(o, size)
      PROVE  \A p \in PipeOwners : PipeOwns(p)'
  <2>1. PipeOpenedDid(o, size)
    BY <1>9, PipeOpenedDoes
  <2> QED BY <1>0, <2>1 DEF PipeOpenedDid, PipeKeeps, PipeTells, PipeTurns, PipeOwns, PipeWorks,
            PipeTasks, PipeOnes, PipeNoUser
<1>10. ASSUME NEW o \in PipeOwners, NEW size \in PipeSizes, PipeUpdateReadSize(o, size)
      PROVE  \A p \in PipeOwners : PipeOwns(p)'
  <2>1. PipeUpdateDid(o, size)
    BY <1>10, PipeUpdateDoes
  <2> QED BY <1>0, <2>1 DEF PipeUpdateDid, PipeKeeps, PipeTells, PipeTurns, PipeOwns, PipeWorks,
            PipeTasks, PipeOnes, PipeNoUser
<1>11. ASSUME NEW u \in PipeUsers, NEW o \in PipeOwners, PipeFindsToAttach(u, o)
      PROVE  \A p \in PipeOwners : PipeOwns(p)'
  <2>1. PipeFindsDid(u, o, "attach")
    BY <1>11, PipeFindsDoes DEF PipeFindsToAttach, PipeFindsToDetach
  <2> QED BY <1>0, <2>1 DEF PipeFindsDid, PipeKeeps, PipeTells, PipeTurns, PipeOwns, PipeWorks,
            PipeTasks, PipeOnes, PipeNoUser
<1>12. ASSUME NEW u \in PipeUsers, NEW o \in PipeOwners, PipeFindsToDetach(u, o)
      PROVE  \A p \in PipeOwners : PipeOwns(p)'
  <2>1. PipeFindsDid(u, o, "detach")
    BY <1>12, PipeFindsDoes DEF PipeFindsToAttach, PipeFindsToDetach
  <2> QED BY <1>0, <2>1 DEF PipeFindsDid, PipeKeeps, PipeTells, PipeTurns, PipeOwns, PipeWorks,
            PipeTasks, PipeOnes, PipeNoUser
<1>13. ASSUME NEW u \in PipeUsers, NEW o \in PipeOwners, PipeReads(u, o)
      PROVE  \A p \in PipeOwners : PipeOwns(p)'
  <2>1. PipeReadsDid(u, o)
    BY <1>13, PipeReadsDoes
  <2> QED BY <1>0, <2>1 DEF PipeReadsDid, PipeKeeps, PipeTells, PipeTurns, PipeOwns, PipeWorks,
            PipeTasks, PipeOnes, PipeNoUser
<1>14. ASSUME NEW u \in PipeUsers, PipeAttach(u)
      PROVE  \A p \in PipeOwners : PipeOwns(p)'
  <2>1. PICK q \in PipeOwners : PipeAttachDid(u, q)
    BY <1>14, PipeAttachDoes
  <2> QED BY <1>0, <2>1 DEF PipeAttachDid, PipeKeeps, PipeTells, PipeTurns, PipeOwns, PipeWorks,
            PipeTasks, PipeOnes, PipeNoUser
<1>15. ASSUME NEW u \in PipeUsers, PipeDetach(u)
      PROVE  \A p \in PipeOwners : PipeOwns(p)'
  <2>1. PICK q \in PipeOwners : PipeDetachDid(u, q)
    BY <1>15, PipeDetachDoes
  <2> QED BY <1>0, <2>1 DEF PipeDetachDid, PipeKeeps, PipeTells, PipeTurns, PipeOwns, PipeWorks,
            PipeTasks, PipeOnes, PipeNoUser
<1>16. ASSUME NEW u \in PipeUsers, NEW n \in PipeSizes, PipeCopies(u, n)
      PROVE  \A p \in PipeOwners : PipeOwns(p)'
  <2>1. PipeCopiesDid(u, n)
    BY <1>16, PipeCopiesDoes
  <2>2. \A p \in PipeOwners : PipeOnes(p)' = PipeOnes(p)
    BY <2>1, PipeOnesCopies
  <2>3. \A p \in PipeOwners : /\ pipeAt'[p] = pipeAt[p] \/ (pipeAt[p].do = "read" /\ pipeAt'[p].do = "idle")
                              /\ pipeOf'[p] = pipeOf[p] /\ pipeHw'[p] = pipeHw[p]
    BY <2>1 DEF PipeCopiesDid, PipeTells, PipeKeeps, PipeTasks
  <2>4. pipeLeaked' = pipeLeaked
    BY <2>1 DEF PipeCopiesDid
  <2> QED BY <1>0, <2>2, <2>3, <2>4 DEF PipeOwns
<1>17. ASSUME PipeEventLocks
      PROVE  \A p \in PipeOwners : PipeOwns(p)'
  <2>1. PICK q \in PipeOwners : PipeEventLocksDid(q)
    BY <1>17, PipeEventLocksDoes
  <2> QED BY <1>0, <2>1 DEF PipeEventLocksDid, PipeKeeps, PipeTells, PipeTurns, PipeOwns, PipeWorks,
            PipeTasks, PipeOnes, PipeNoUser
<1>18. ASSUME PipeFetch
      PROVE  \A p \in PipeOwners : PipeOwns(p)'
  <2>1. PICK q \in PipeOwners : PipeFetchDid(q)
    BY <1>18, PipeFetchDoes
  <2> QED BY <1>0, <2>1 DEF PipeFetchDid, PipeKeeps, PipeTells, PipeTurns, PipeOwns, PipeWorks,
            PipeTasks, PipeOnes, PipeNoUser
<1>19. ASSUME PipeShare
      PROVE  \A p \in PipeOwners : PipeOwns(p)'
  <2>1. PICK q \in PipeOwners : PipeShareDid(q)
    BY <1>19, PipeShareDoes
  <2> QED BY <1>0, <2>1 DEF PipeShareDid, PipeKeeps, PipeTells, PipeTurns, PipeOwns, PipeWorks,
            PipeTasks, PipeOnes, PipeNoUser
<1> QED
  <2>1. CASE \E o \in PipeOwners :
              \/ PipeOpen(o) \/ PipeNotOpened(o) \/ PipeClose(o) \/ PipeClosePipe(o) \/ PipeDelete(o)
              \/ PipeEvent(o) \/ PipeComes(o)
              \/ \E size \in PipeSizes : PipeOpened(o, size) \/ PipeUpdateReadSize(o, size)
              \/ \E u \in PipeUsers : PipeFindsToAttach(u, o) \/ PipeFindsToDetach(u, o) \/ PipeReads(u, o)
    BY <2>1, <1>2, <1>3, <1>4, <1>5, <1>6, <1>7, <1>8, <1>9, <1>10, <1>11, <1>12, <1>13, <1>14,
       <1>15, <1>16, <1>17, <1>18, <1>19, <1>1
  <2>2. CASE \E u \in PipeUsers : PipeAttach(u) \/ PipeDetach(u) \/ \E n \in PipeSizes : PipeCopies(u, n)
    BY <2>2, <1>2, <1>3, <1>4, <1>5, <1>6, <1>7, <1>8, <1>9, <1>10, <1>11, <1>12, <1>13, <1>14,
       <1>15, <1>16, <1>17, <1>18, <1>19, <1>1
  <2> QED BY <2>1, <2>2, <1>2, <1>3, <1>4, <1>5, <1>6, <1>7, <1>8, <1>9, <1>10, <1>11, <1>12, <1>13,
          <1>14, <1>15, <1>16, <1>17, <1>18, <1>19, <1>1 DEF PipeNext

(* The hardware runs while some task is attached.                          *)
LEMMA PipeRunsKept ==
  ASSUME PipeInv, PipeNext, ~pipeGone', ~pipeGone
  PROVE  \A p \in PipeOwners : (pipeHw[p] = "running" <=> PipeOnes(p) # {})'
<1>0. (\A p \in PipeOwners : PipeOwns(p)) /\ \A p \in PipeOwners : pipeHw[p] = "running" <=> PipeOnes(p) # {}
  BY PipeAssumption DEF PipeInv, PipeGood, PipeTypeOK, PipeTasks
<1>1. ASSUME NEW o \in PipeOwners, PipeNotOpened(o) \/ PipeClose(o) \/ PipeDelete(o) \/ PipeEvent(o) \/ PipeComes(o)
      PROVE  UNCHANGED <<pipeHw, pipeUser>>
  BY <1>1 DEF PipeNotOpened, PipeClose, PipeDelete, PipeEvent, PipeComes, pipeLocks, pipeGhost
<1>2. ASSUME NEW o \in PipeOwners, NEW size \in PipeSizes, PipeOpened(o, size) \/ PipeUpdateReadSize(o, size)
      PROVE  UNCHANGED <<pipeHw, pipeUser>>
  BY <1>2 DEF PipeOpened, PipeUpdateReadSize, pipeLocks, pipeGhost
<1>3. ASSUME NEW u \in PipeUsers, NEW o \in PipeOwners, PipeFindsToAttach(u, o) \/ PipeFindsToDetach(u, o) \/ PipeReads(u, o)
      PROVE  UNCHANGED <<pipeHw, pipeUser>>
  BY <1>3 DEF PipeFindsToAttach, PipeFindsToDetach, PipeReads, PipeFinds, pipeLocks, pipeGhost
<1>4. ASSUME PipeEventLocks \/ PipeFetch
      PROVE  UNCHANGED <<pipeHw, pipeUser>>
  BY <1>4 DEF PipeEventLocks, PipeFetch, pipeLocks, pipeGhost
<1>5. UNCHANGED <<pipeHw, pipeUser>> => \A p \in PipeOwners : (pipeHw[p] = "running" <=> PipeOnes(p) # {})'
  BY <1>0 DEF PipeOwns, PipeOnes, PipeNoUser
<1>6. ASSUME NEW o \in PipeOwners, PipeOpen(o)
      PROVE  \A p \in PipeOwners : (pipeHw[p] = "running" <=> PipeOnes(p) # {})'
  <2>1. PipeOpenDid(o)
    BY <1>6, PipeOpenDoes
  <2> QED BY <1>0, <2>1 DEF PipeOpenDid, PipeKeeps, PipeTells, PipeTurns, PipeOwns, PipeOnes,
            PipeNoUser
<1>7. ASSUME NEW o \in PipeOwners, PipeClosePipe(o)
      PROVE  \A p \in PipeOwners : (pipeHw[p] = "running" <=> PipeOnes(p) # {})'
  <2>1. PipeClosePipeDid(o)
    BY <1>7, PipeClosePipeDoes
  <2> QED BY <1>0, <2>1 DEF PipeClosePipeDid, PipeKeeps, PipeTells, PipeTurns, PipeOwns, PipeOnes,
            PipeNoUser
<1>8. ASSUME NEW u \in PipeUsers, PipeAttach(u)
      PROVE  \A p \in PipeOwners : (pipeHw[p] = "running" <=> PipeOnes(p) # {})'
  <2>1. PICK q \in PipeOwners : PipeAttachDid(u, q)
    BY <1>8, PipeAttachDoes
  <2> QED BY <1>0, <2>1 DEF PipeAttachDid, PipeKeeps, PipeTells, PipeTurns, PipeOwns, PipeOnes,
            PipeNoUser
<1>9. ASSUME NEW u \in PipeUsers, PipeDetach(u)
      PROVE  \A p \in PipeOwners : (pipeHw[p] = "running" <=> PipeOnes(p) # {})'
  <2>1. PICK q \in PipeOwners : PipeDetachDid(u, q)
    BY <1>9, PipeDetachDoes
  <2> QED BY <1>0, <2>1 DEF PipeDetachDid, PipeKeeps, PipeTells, PipeTurns, PipeOwns, PipeOnes,
            PipeNoUser
<1>10. ASSUME NEW u \in PipeUsers, NEW n \in PipeSizes, PipeCopies(u, n)
      PROVE  \A p \in PipeOwners : (pipeHw[p] = "running" <=> PipeOnes(p) # {})'
  <2>1. PipeCopiesDid(u, n)
    BY <1>10, PipeCopiesDoes
  <2>2. \A p \in PipeOwners : PipeOnes(p)' = PipeOnes(p)
    BY <2>1, PipeOnesCopies
  <2>3. pipeHw' = pipeHw
    BY <2>1 DEF PipeCopiesDid
  <2> QED BY <1>0, <2>2, <2>3
<1>11. ASSUME PipeShare
      PROVE  \A p \in PipeOwners : (pipeHw[p] = "running" <=> PipeOnes(p) # {})'
  <2>1. PICK q \in PipeOwners : PipeShareDid(q)
    BY <1>11, PipeShareDoes
  <2>2. \A p \in PipeOwners : PipeOnes(p)' = PipeOnes(p)
    BY <2>1, PipeOnesShare
  <2>3. pipeHw' = pipeHw
    BY <2>1 DEF PipeShareDid
  <2> QED BY <1>0, <2>2, <2>3
<1> QED
  <2>1. CASE \E o \in PipeOwners :
              \/ PipeOpen(o) \/ PipeNotOpened(o) \/ PipeClose(o) \/ PipeClosePipe(o) \/ PipeDelete(o)
              \/ PipeEvent(o) \/ PipeComes(o)
              \/ \E size \in PipeSizes : PipeOpened(o, size) \/ PipeUpdateReadSize(o, size)
              \/ \E u \in PipeUsers : PipeFindsToAttach(u, o) \/ PipeFindsToDetach(u, o) \/ PipeReads(u, o)
    BY <2>1, <1>5, <1>6, <1>7, <1>8, <1>9, <1>10, <1>11, <1>1, <1>2, <1>3, <1>4
  <2>2. CASE \E u \in PipeUsers : PipeAttach(u) \/ PipeDetach(u) \/ \E n \in PipeSizes : PipeCopies(u, n)
    BY <2>2, <1>5, <1>6, <1>7, <1>8, <1>9, <1>10, <1>11, <1>1, <1>2, <1>3, <1>4
  <2> QED BY <2>1, <2>2, <1>5, <1>6, <1>7, <1>8, <1>9, <1>10, <1>11, <1>1, <1>2, <1>3, <1>4 DEF PipeNext

(* What a user has was read from the hardware.                             *)
LEMMA PipeHasKept ==
  ASSUME PipeInv, PipeNext, ~pipeGone', ~pipeGone
  PROVE  \A p \in PipeOwners, w \in PipeUsers : PipeHas(p, w)'
<1>0. PipeEventOwns /\ (\A p \in PipeOwners : PipeOwns(p)) /\ \A p \in PipeOwners, w \in PipeUsers : PipeHas(p, w)
  BY PipeAssumption DEF PipeInv, PipeGood, PipeTypeOK, PipeTasks
<1>1. ASSUME NEW o \in PipeOwners, PipeOpen(o) \/ PipeNotOpened(o) \/ PipeClose(o) \/ PipeDelete(o) \/ PipeEvent(o) \/ PipeComes(o)
      PROVE  UNCHANGED <<pipeRead, pipeUser, pipeTaken, pipeDropped>>
  BY <1>1 DEF PipeOpen, PipeNotOpened, PipeClose, PipeDelete, PipeEvent, PipeComes, pipeLocks,
        pipeGhost
<1>2. ASSUME NEW o \in PipeOwners, NEW size \in PipeSizes, PipeUpdateReadSize(o, size)
      PROVE  UNCHANGED <<pipeRead, pipeUser, pipeTaken, pipeDropped>>
  BY <1>2 DEF PipeUpdateReadSize, pipeLocks, pipeGhost
<1>3. ASSUME NEW u \in PipeUsers, NEW o \in PipeOwners, PipeFindsToAttach(u, o) \/ PipeFindsToDetach(u, o) \/ PipeReads(u, o)
      PROVE  UNCHANGED <<pipeRead, pipeUser, pipeTaken, pipeDropped>>
  BY <1>3 DEF PipeFindsToAttach, PipeFindsToDetach, PipeReads, PipeFinds, pipeLocks, pipeGhost
<1>4. ASSUME PipeEventLocks \/ PipeFetch
      PROVE  UNCHANGED <<pipeRead, pipeUser, pipeTaken, pipeDropped>>
  BY <1>4 DEF PipeEventLocks, PipeFetch, pipeLocks, pipeGhost
<1>5. UNCHANGED <<pipeRead, pipeUser, pipeTaken, pipeDropped>> => \A p \in PipeOwners, w \in PipeUsers : PipeHas(p, w)'
  BY <1>0 DEF PipeHas, PipeNoUser
<1>6. ASSUME NEW o \in PipeOwners, PipeClosePipe(o)
      PROVE  \A p \in PipeOwners, w \in PipeUsers : PipeHas(p, w)'
  <2>1. PipeClosePipeDid(o)
    BY <1>6, PipeClosePipeDoes
  <2> QED BY <1>0, <2>1 DEF PipeClosePipeDid, PipeKeeps, PipeTells, PipeTurns, PipeHas, PipeNoUser
<1>7. ASSUME NEW o \in PipeOwners, NEW size \in PipeSizes, PipeOpened(o, size)
      PROVE  \A p \in PipeOwners, w \in PipeUsers : PipeHas(p, w)'
  <2>1. PipeOpenedDid(o, size)
    BY <1>7, PipeOpenedDoes
  <2>2. PipeOnes(o) = {}
    BY <2>1 DEF PipeInv, PipeGood, PipeOwns, PipeOpenedDid
  <2> QED BY <1>0, <2>1, <2>2 DEF PipeOpenedDid, PipeKeeps, PipeHas, PipeOnes
<1>8. ASSUME NEW u \in PipeUsers, PipeAttach(u)
      PROVE  \A p \in PipeOwners, w \in PipeUsers : PipeHas(p, w)'
  <2>1. PICK q \in PipeOwners : PipeAttachDid(u, q)
    BY <1>8, PipeAttachDoes
  <2>2. pipeRead' = pipeRead /\ pipeRead[q] \in Nat
    BY <2>1 DEF PipeAttachDid, PipeInv, PipeTypeOK
  <2>3. PipeHas(q, u)'
    BY <2>1, <2>2 DEF PipeHas, PipeAttachDid
  <2> QED BY <1>0, <2>1, <2>2, <2>3 DEF PipeHas, PipeAttachDid, PipeKeeps
<1>9. ASSUME NEW u \in PipeUsers, PipeDetach(u)
      PROVE  \A p \in PipeOwners, w \in PipeUsers : PipeHas(p, w)'
  <2>1. PICK q \in PipeOwners : PipeDetachDid(u, q)
    BY <1>9, PipeDetachDoes
  <2> QED BY <1>0, <2>1 DEF PipeDetachDid, PipeKeeps, PipeTells, PipeTurns, PipeHas, PipeNoUser
<1>10. ASSUME NEW u \in PipeUsers, NEW n \in PipeSizes, PipeCopies(u, n)
      PROVE  \A p \in PipeOwners, w \in PipeUsers : PipeHas(p, w)'
  <2>1. PipeCopiesDid(u, n)
    BY <1>10, PipeCopiesDoes
  <2>2. CASE pipeUser' = pipeUser /\ pipeTaken' = pipeTaken
    BY <1>0, <2>1, <2>2 DEF PipeCopiesDid, PipeHas
  <2>3. ASSUME NEW o \in PipeOwners, n \in 1 .. Len(pipeUser[o][u].ring),
               pipeUser'[o][u] = [pipeUser[o][u] EXCEPT !.ring = SubSeq(@, n + 1, Len(@))],
               PipeKeeps(pipeUser'[o], pipeUser[o], PipeUsers, u), PipeKeeps(pipeUser', pipeUser, PipeOwners, o),
               pipeTaken'[o][u] = pipeUser[o][u].ring[n],
               PipeKeeps(pipeTaken'[o], pipeTaken[o], PipeUsers, u),
               PipeKeeps(pipeTaken', pipeTaken, PipeOwners, o)
        PROVE  \A p \in PipeOwners, w \in PipeUsers : PipeHas(p, w)'
    <3> DEFINE a == pipeUser[o][u]
    <3>1. a \in PipeRings
      BY DEF PipeInv, PipeTypeOK
    <3>2. pipeUser'[o][u].on = a.on /\ a.ring \in Seq(Nat)
      BY <2>3, <3>1 DEF PipeRings
    <3>3. a.on => a.ring[n] \in PipeUnread(o, u)
      <4>1. a.ring[n] \in ToSet(a.ring)
        BY <2>3, <3>2 DEF ToSet
      <4>2. a.on => ToSet(a.ring) = PipeUnread(o, u)
        BY DEF PipeInv, PipeGood, PipeStream
      <4> QED BY <4>1, <4>2
    <3>4. pipeRead'[o] = pipeRead[o] /\ pipeRead[o] \in Nat /\ pipeTaken[o][u] \in Nat
      BY <2>1 DEF PipeCopiesDid, PipeInv, PipeTypeOK
    <3>5. pipeUser'[o][u].on => pipeTaken'[o][u] <= pipeRead'[o]
      BY <2>3, <3>2, <3>3, <3>4 DEF PipeUnread
    <3>6. pipeRead' = pipeRead /\ pipeDropped' = pipeDropped
      BY <2>1 DEF PipeCopiesDid
    <3>7. PipeHas(o, u)'
      BY <1>0, <3>2, <3>5, <3>6 DEF PipeHas
    <3>8. ASSUME NEW p \in PipeOwners, NEW w \in PipeUsers, p # o \/ w # u
          PROVE  PipeHas(p, w)'
      <4>1. pipeUser'[p][w] = pipeUser[p][w] /\ pipeTaken'[p][w] = pipeTaken[p][w]
        BY <2>3, <3>8 DEF PipeKeeps
      <4> QED BY <1>0, <3>6, <4>1 DEF PipeHas
    <3> QED BY <3>7, <3>8
  <2> QED BY <2>1, <2>2, <2>3 DEF PipeCopiesDid
<1>11. ASSUME PipeShare
      PROVE  \A p \in PipeOwners, w \in PipeUsers : PipeHas(p, w)'
  <2>1. PICK q \in PipeOwners : PipeShareDid(q)
    BY <1>11, PipeShareDoes
  <2>2. /\ ToSet(pipeAt[PipeIrq].data) = pipeRead[q] + 1 .. pipeRead'[q]
        /\ pipeRead'[q] >= pipeRead[q] /\ pipeRead'[q] \in Nat
    BY <2>1, PipeNewUnits
  <2>3. pipeRead[q] \in Nat /\ \A w \in PipeUsers : pipeTaken[q][w] \in Nat /\ pipeDropped[q][w] \subseteq Nat
    BY DEF PipeInv, PipeTypeOK
  <2>4. \A p \in PipeOwners, w \in PipeUsers : pipeUser'[p][w].on <=> pipeUser[p][w].on
    BY <2>1, PipeOnesShare DEF PipeOnes
  <2>5. ASSUME NEW w \in PipeUsers
        PROVE  PipeHas(q, w)'
    <3>1. \/ pipeDropped'[q][w] = pipeDropped[q][w]
          \/ pipeDropped'[q][w] = pipeDropped[q][w] \cup ToSet(pipeAt[PipeIrq].data)
      BY <2>1 DEF PipeShareDid
    <3>2. pipeTaken'[q][w] = pipeTaken[q][w]
      BY <2>1 DEF PipeShareDid
    <3> QED BY <1>0, <2>2, <2>3, <2>4, <3>1, <3>2 DEF PipeHas
  <2>6. ASSUME NEW p \in PipeOwners, p # q, NEW w \in PipeUsers
        PROVE  PipeHas(p, w)'
    BY <1>0, <2>1, <2>4, <2>6 DEF PipeHas, PipeShareDid, PipeKeeps
  <2> QED BY <2>5, <2>6
<1> QED
  <2>1. CASE \E o \in PipeOwners :
              \/ PipeOpen(o) \/ PipeNotOpened(o) \/ PipeClose(o) \/ PipeClosePipe(o) \/ PipeDelete(o)
              \/ PipeEvent(o) \/ PipeComes(o)
              \/ \E size \in PipeSizes : PipeOpened(o, size) \/ PipeUpdateReadSize(o, size)
              \/ \E u \in PipeUsers : PipeFindsToAttach(u, o) \/ PipeFindsToDetach(u, o) \/ PipeReads(u, o)
    BY <2>1, <1>5, <1>6, <1>7, <1>8, <1>9, <1>10, <1>11, <1>1, <1>2, <1>3, <1>4
  <2>2. CASE \E u \in PipeUsers : PipeAttach(u) \/ PipeDetach(u) \/ \E n \in PipeSizes : PipeCopies(u, n)
    BY <2>2, <1>5, <1>6, <1>7, <1>8, <1>9, <1>10, <1>11, <1>1, <1>2, <1>3, <1>4
  <2> QED BY <2>1, <2>2, <1>5, <1>6, <1>7, <1>8, <1>9, <1>10, <1>11, <1>1, <1>2, <1>3, <1>4 DEF PipeNext

(* No unit is lost, doubled or out of order.                               *)
LEMMA PipeStreamKept ==
  ASSUME PipeInv, PipeNext, ~pipeGone', ~pipeGone
  PROVE  \A p \in PipeOwners, w \in PipeUsers : PipeStream(p, w)'
<1>0. PipeEventOwns /\ (\A p \in PipeOwners : PipeOwns(p)) /\ \A p \in PipeOwners, w \in PipeUsers : PipeHas(p, w) /\ PipeStream(p, w)
  BY PipeAssumption DEF PipeInv, PipeGood, PipeTypeOK, PipeTasks
<1>1. ASSUME NEW o \in PipeOwners, PipeOpen(o) \/ PipeNotOpened(o) \/ PipeClose(o) \/ PipeDelete(o) \/ PipeEvent(o) \/ PipeComes(o)
      PROVE  UNCHANGED <<pipeRead, pipeUser, pipeTaken, pipeDropped>>
  BY <1>1 DEF PipeOpen, PipeNotOpened, PipeClose, PipeDelete, PipeEvent, PipeComes, pipeLocks,
        pipeGhost
<1>2. ASSUME NEW o \in PipeOwners, NEW size \in PipeSizes, PipeUpdateReadSize(o, size)
      PROVE  UNCHANGED <<pipeRead, pipeUser, pipeTaken, pipeDropped>>
  BY <1>2 DEF PipeUpdateReadSize, pipeLocks, pipeGhost
<1>3. ASSUME NEW u \in PipeUsers, NEW o \in PipeOwners, PipeFindsToAttach(u, o) \/ PipeFindsToDetach(u, o) \/ PipeReads(u, o)
      PROVE  UNCHANGED <<pipeRead, pipeUser, pipeTaken, pipeDropped>>
  BY <1>3 DEF PipeFindsToAttach, PipeFindsToDetach, PipeReads, PipeFinds, pipeLocks, pipeGhost
<1>4. ASSUME PipeEventLocks \/ PipeFetch
      PROVE  UNCHANGED <<pipeRead, pipeUser, pipeTaken, pipeDropped>>
  BY <1>4 DEF PipeEventLocks, PipeFetch, pipeLocks, pipeGhost
<1>5. UNCHANGED <<pipeRead, pipeUser, pipeTaken, pipeDropped>> => \A p \in PipeOwners, w \in PipeUsers : PipeStream(p, w)'
  BY <1>0 DEF PipeStream, PipeUnread, PipeNoUser
<1>6. ASSUME NEW o \in PipeOwners, PipeClosePipe(o)
      PROVE  \A p \in PipeOwners, w \in PipeUsers : PipeStream(p, w)'
  <2>1. PipeClosePipeDid(o)
    BY <1>6, PipeClosePipeDoes
  <2> QED BY <1>0, <2>1 DEF PipeClosePipeDid, PipeKeeps, PipeTells, PipeTurns, PipeStream,
            PipeUnread, PipeNoUser
<1>7. ASSUME NEW o \in PipeOwners, NEW size \in PipeSizes, PipeOpened(o, size)
      PROVE  \A p \in PipeOwners, w \in PipeUsers : PipeStream(p, w)'
  <2>1. PipeOpenedDid(o, size)
    BY <1>7, PipeOpenedDoes
  <2>2. PipeOnes(o) = {}
    BY <2>1 DEF PipeInv, PipeGood, PipeOwns, PipeOpenedDid
  <2> QED BY <1>0, <2>1, <2>2 DEF PipeOpenedDid, PipeKeeps, PipeStream, PipeUnread, PipeOnes
<1>8. ASSUME NEW u \in PipeUsers, PipeAttach(u)
      PROVE  \A p \in PipeOwners, w \in PipeUsers : PipeStream(p, w)'
  <2>1. PICK q \in PipeOwners : PipeAttachDid(u, q)
    BY <1>8, PipeAttachDoes
  <2>2. pipeRead' = pipeRead /\ pipeRead[q] \in Nat
    BY <2>1 DEF PipeAttachDid, PipeInv, PipeTypeOK
  <2>3. PipeStream(q, u)'
    <3>1. PipeSorted(<<>>) /\ ToSet(<<>>) = {}
      BY DEF PipeSorted, ToSet
    <3>2. PipeUnread(q, u)' = {}
      BY <2>1, <2>2 DEF PipeUnread, PipeAttachDid
    <3>3. pipeUser'[q][u].ring = <<>>
      BY <2>1 DEF PipeAttachDid
    <3> QED BY <3>1, <3>2, <3>3 DEF PipeStream
  <2> QED BY <1>0, <2>1, <2>2, <2>3 DEF PipeStream, PipeUnread, PipeAttachDid, PipeKeeps
<1>9. ASSUME NEW u \in PipeUsers, PipeDetach(u)
      PROVE  \A p \in PipeOwners, w \in PipeUsers : PipeStream(p, w)'
  <2>1. PICK q \in PipeOwners : PipeDetachDid(u, q)
    BY <1>9, PipeDetachDoes
  <2> QED BY <1>0, <2>1 DEF PipeDetachDid, PipeKeeps, PipeTells, PipeTurns, PipeStream, PipeUnread,
            PipeNoUser
<1>10. ASSUME NEW u \in PipeUsers, NEW n \in PipeSizes, PipeCopies(u, n)
      PROVE  \A p \in PipeOwners, w \in PipeUsers : PipeStream(p, w)'
  <2>1. PipeCopiesDid(u, n)
    BY <1>10, PipeCopiesDoes
  <2>2. CASE pipeUser' = pipeUser /\ pipeTaken' = pipeTaken
    BY <1>0, <2>1, <2>2 DEF PipeCopiesDid, PipeStream, PipeUnread
  <2>3. ASSUME NEW o \in PipeOwners, n \in 1 .. Len(pipeUser[o][u].ring),
               pipeUser'[o][u] = [pipeUser[o][u] EXCEPT !.ring = SubSeq(@, n + 1, Len(@))],
               PipeKeeps(pipeUser'[o], pipeUser[o], PipeUsers, u), PipeKeeps(pipeUser', pipeUser, PipeOwners, o),
               pipeTaken'[o][u] = pipeUser[o][u].ring[n],
               PipeKeeps(pipeTaken'[o], pipeTaken[o], PipeUsers, u),
               PipeKeeps(pipeTaken', pipeTaken, PipeOwners, o)
        PROVE  \A p \in PipeOwners, w \in PipeUsers : PipeStream(p, w)'
    <3> DEFINE a == pipeUser[o][u]
               r == a.ring
               s == SubSeq(r, n + 1, Len(r))
    <3>1. a \in PipeRings
      BY DEF PipeInv, PipeTypeOK
    <3>2. pipeUser'[o][u].on = a.on /\ pipeUser'[o][u].ring = s /\ r \in Seq(Nat)
      BY <2>3, <3>1 DEF PipeRings
    <3>3. pipeRead' = pipeRead /\ pipeDropped' = pipeDropped
      BY <2>1 DEF PipeCopiesDid
    <3>4. pipeRead[o] \in Nat /\ pipeTaken[o][u] \in Nat /\ pipeDropped[o][u] \subseteq Nat
      BY DEF PipeInv, PipeTypeOK
    <3>5. a.on => PipeSorted(r) /\ ToSet(r) = PipeUnread(o, u)
      BY DEF PipeInv, PipeGood, PipeStream
    <3>6. n \in 1 .. Len(r) /\ pipeTaken'[o][u] = r[n]
      BY <2>3
    <3>7. PipeStream(o, u)'
      <4> SUFFICES ASSUME a.on
                   PROVE  PipeSorted(s) /\ ToSet(s) = PipeUnread(o, u)'
        BY <3>2 DEF PipeStream
      <4> HIDE DEF r
      <4>1. PipeSorted(s) /\ ToSet(s) = {k \in ToSet(r) : k > r[n]}
        BY <3>2, <3>5, <3>6, PipeCut
      <4>2. r[n] \in ToSet(r)
        BY <3>2, <3>6 DEF ToSet
      <4>3. PipeUnread(o, u)' = (r[n] + 1 .. pipeRead[o]) \ pipeDropped[o][u]
        BY <3>3, <3>6 DEF PipeUnread
      <4>4. {k \in PipeUnread(o, u) : k > r[n]} = (r[n] + 1 .. pipeRead[o]) \ pipeDropped[o][u]
        BY <3>4, <3>5, <4>2 DEF PipeUnread
      <4> QED BY <3>5, <4>1, <4>3, <4>4
    <3>8. ASSUME NEW p \in PipeOwners, NEW w \in PipeUsers, p # o \/ w # u
          PROVE  PipeStream(p, w)'
      <4>1. pipeUser'[p][w] = pipeUser[p][w] /\ pipeTaken'[p][w] = pipeTaken[p][w]
        BY <2>3, <3>8 DEF PipeKeeps
      <4> QED BY <1>0, <3>3, <4>1 DEF PipeStream, PipeUnread
    <3> QED BY <3>7, <3>8
  <2> QED BY <2>1, <2>2, <2>3 DEF PipeCopiesDid
<1>11. ASSUME PipeShare
      PROVE  \A p \in PipeOwners, w \in PipeUsers : PipeStream(p, w)'
  <2>1. PICK q \in PipeOwners : PipeShareDid(q)
    BY <1>11, PipeShareDoes
  <2> DEFINE data == pipeAt[PipeIrq].data
  <2>2. /\ data \in Seq(Nat) /\ PipeSorted(data) /\ ToSet(data) = pipeRead[q] + 1 .. pipeRead'[q]
        /\ pipeRead'[q] >= pipeRead[q] /\ pipeRead'[q] \in Nat
    BY <2>1, PipeNewUnits
  <2>3. pipeRead[q] \in Nat /\ \A w \in PipeUsers : pipeTaken[q][w] \in Nat /\ pipeDropped[q][w] \subseteq Nat
    BY DEF PipeInv, PipeTypeOK
  <2>4. pipeTaken' = pipeTaken
    BY <2>1 DEF PipeShareDid
  <2>5. ASSUME NEW w \in PipeUsers
        PROVE  PipeStream(q, w)'
    <3> DEFINE a == pipeUser[q][w]
               r == a.ring
    <3>1. a \in PipeRings
      BY DEF PipeInv, PipeTypeOK
    <3>2. a.on \in BOOLEAN /\ r \in Seq(Nat)
      BY <3>1 DEF PipeRings
    <3>3. a.on => /\ PipeSorted(r) /\ ToSet(r) = (pipeTaken[q][w] + 1 .. pipeRead[q]) \ pipeDropped[q][w]
                  /\ pipeTaken[q][w] <= pipeRead[q] /\ \A k \in pipeDropped[q][w] : k <= pipeRead[q]
      BY <1>0 DEF PipeStream, PipeUnread, PipeHas
    <3>4. CASE ~a.on /\ pipeUser'[q][w] = a
      BY <3>4 DEF PipeStream
    <3>5. CASE a.on /\ pipeUser'[q][w] = a /\ pipeDropped'[q][w] = pipeDropped[q][w] \cup ToSet(data)
      <4>1. PipeUnread(q, w)' = (pipeTaken[q][w] + 1 .. pipeRead'[q]) \ (pipeDropped[q][w] \cup ToSet(data))
        BY <2>4, <3>5 DEF PipeUnread
      <4>2. PipeUnread(q, w)' = (pipeTaken[q][w] + 1 .. pipeRead[q]) \ pipeDropped[q][w]
        BY <2>2, <2>3, <3>3, <3>5, <4>1
      <4> QED BY <3>3, <3>5, <4>2 DEF PipeStream
    <3>6. CASE /\ a.on /\ pipeDropped'[q][w] = pipeDropped[q][w]
               /\ pipeUser'[q][w] = [pipeUser[q][w] EXCEPT !.ring = pipeUser[q][w].ring \o data]
      <4>1. PipeUnread(q, w)' = (pipeTaken[q][w] + 1 .. pipeRead'[q]) \ pipeDropped[q][w]
        BY <2>4, <3>6 DEF PipeUnread
      <4>2. PipeUnread(q, w)' = ToSet(r) \cup ToSet(data)
        BY <2>2, <2>3, <3>3, <3>6, <4>1
      <4>3. \A i \in ToSet(r), j \in ToSet(data) : i < j
        BY <2>2, <2>3, <3>3, <3>6
      <4>4. PipeSorted(r \o data) /\ ToSet(r \o data) = ToSet(r) \cup ToSet(data)
        <5> HIDE DEF r, data
        <5>1. PipeSorted(r)
          BY <3>3, <3>6
        <5> QED BY <2>2, <3>2, <4>3, <5>1, PipeJoin
      <4>5. pipeUser'[q][w].ring = r \o data
        BY <3>1, <3>6 DEF PipeRings
      <4> QED BY <4>2, <4>4, <4>5 DEF PipeStream
    <3> QED BY <2>1, <3>4, <3>5, <3>6 DEF PipeShareDid
  <2>6. ASSUME NEW p \in PipeOwners, p # q, NEW w \in PipeUsers
        PROVE  PipeStream(p, w)'
    BY <1>0, <2>1, <2>6 DEF PipeStream, PipeUnread, PipeShareDid, PipeKeeps
  <2> QED BY <2>5, <2>6
<1> QED
  <2>1. CASE \E o \in PipeOwners :
              \/ PipeOpen(o) \/ PipeNotOpened(o) \/ PipeClose(o) \/ PipeClosePipe(o) \/ PipeDelete(o)
              \/ PipeEvent(o) \/ PipeComes(o)
              \/ \E size \in PipeSizes : PipeOpened(o, size) \/ PipeUpdateReadSize(o, size)
              \/ \E u \in PipeUsers : PipeFindsToAttach(u, o) \/ PipeFindsToDetach(u, o) \/ PipeReads(u, o)
    BY <2>1, <1>5, <1>6, <1>7, <1>8, <1>9, <1>10, <1>11, <1>1, <1>2, <1>3, <1>4
  <2>2. CASE \E u \in PipeUsers : PipeAttach(u) \/ PipeDetach(u) \/ \E n \in PipeSizes : PipeCopies(u, n)
    BY <2>2, <1>5, <1>6, <1>7, <1>8, <1>9, <1>10, <1>11, <1>1, <1>2, <1>3, <1>4
  <2> QED BY <2>1, <2>2, <1>5, <1>6, <1>7, <1>8, <1>9, <1>10, <1>11, <1>1, <1>2, <1>3, <1>4 DEF PipeNext

\* The invariant is kept; when all is gone, nothing moves.
LEMMA PipeTypeKept ==
  ASSUME PipeInv, PipeNext
  PROVE  PipeTypeOK'
BY PipeAtKept, PipeOfKept, PipeUserKept, PipeDataKept DEF PipeTypeOK

LEMMA PipeInvStart ==
  ASSUME PipeInit
  PROVE  PipeInv
<1>1. <<>> \in Seq(Nat) /\ 0 \in Nat /\ {} \in SUBSET Nat
  OBVIOUS
<1>2. PipeAway \in PipeSteps
  BY <1>1 DEF PipeAway, PipeSteps, PipeDos
<1>3. PipeNoUser \in PipeRings
  BY <1>1 DEF PipeNoUser, PipeRings
<1>4. PipeTypeOK
  <2>1. PipeAtOK
    BY <1>2 DEF PipeInit, PipeAtOK
  <2>2. pipeOf \in [PipeOwners -> [open : BOOLEAN, size : Nat, opened : Nat, born : Nat]]
    BY DEF PipeInit
  <2>3. pipeUser \in [PipeOwners -> [PipeUsers -> PipeRings]]
    BY <1>3 DEF PipeInit
  <2>4. /\ pipeTaken \in [PipeOwners -> [PipeUsers -> Nat]]
        /\ pipeDropped \in [PipeOwners -> [PipeUsers -> SUBSET Nat]]
    BY <1>1 DEF PipeInit
  <2>5. /\ pipeLock \in [PipeOwners -> {PipeFree, PipeIrq}]
        /\ pipeHw \in [PipeOwners -> {"closed", "open", "running"}]
        /\ pipeCame \in [PipeOwners -> Nat] /\ pipeRead \in [PipeOwners -> Nat]
    BY DEF PipeInit
  <2> QED BY <2>1, <2>2, <2>3, <2>4, <2>5 DEF PipeTypeOK
<1>5. \A t \in PipeTasks : pipeAt[t].do = "idle"
  BY DEF PipeInit, PipeAway
<1>6. \A o \in PipeOwners : /\ pipeOf[o].open = FALSE /\ pipeLock[o] = PipeFree /\ pipeHw[o] = "closed"
                            /\ \A u \in PipeUsers : pipeUser[o][u].on = FALSE
  BY DEF PipeInit, PipeNoUser
<1>7. \A o \in PipeOwners : PipeOnes(o) = {}
  BY <1>6 DEF PipeOnes
<1>8. PipeGood
  <2>1. PipeEventOwns
    BY <1>5, <1>6, PipeAssumption DEF PipeEventOwns, PipeTasks
  <2>2. \A t \in PipeTasks : PipeWorks(t)
    BY <1>5 DEF PipeWorks
  <2>3. \A o \in PipeOwners : PipeOwns(o)
    BY <1>5, <1>6, <1>7 DEF PipeOwns, PipeTasks
  <2>4. \A o \in PipeOwners, u \in PipeUsers : PipeHas(o, u) /\ PipeStream(o, u)
    BY <1>6 DEF PipeHas, PipeStream
  <2> QED BY <1>6, <1>7, <2>1, <2>2, <2>3, <2>4 DEF PipeGood
<1> QED BY <1>4, <1>8 DEF PipeInv

LEMMA PipeInvKept ==
  ASSUME PipeInv, [PipeNext]_pipeVars
  PROVE  PipeInv'
<1>1. CASE UNCHANGED pipeVars
  BY <1>1 DEF PipeInv, PipeTypeOK, PipeAtOK, PipeGood, PipeEventOwns, PipeWorks, PipeOwns, PipeOnes,
              PipeHas, PipeStream, PipeUnread, pipeVars, pipeLocks, pipeGhost
<1>2. CASE PipeNext
  <2>1. PipeTypeOK'
    BY <1>2, PipeTypeKept
  <2>2. ~pipeGone
    BY <1>2 DEF PipeNext, PipeOpen, PipeNotOpened, PipeClose, PipeClosePipe, PipeDelete, PipeEvent, PipeComes,
                PipeOpened, PipeUpdateReadSize, PipeFindsToAttach, PipeFindsToDetach, PipeFinds, PipeReads,
                PipeAttach, PipeDetach, PipeCopies, PipeEventLocks, PipeFetch, PipeShare, PipeTurn
  <2>3. CASE pipeGone'
    BY <2>1, <2>3 DEF PipeInv
  <2>4. CASE ~pipeGone'
    <3>1. PipeEventOwns'
      BY <1>2, <2>2, <2>4, PipeEventKept
    <3>2. \A t \in PipeTasks : PipeWorks(t)'
      BY <1>2, <2>2, <2>4, PipeWorksKept
    <3>3. \A p \in PipeOwners : PipeOwns(p)'
      BY <1>2, <2>2, <2>4, PipeOwnsKept
    <3>4. \A p \in PipeOwners : (pipeHw[p] = "running" <=> PipeOnes(p) # {})'
      BY <1>2, <2>2, <2>4, PipeRunsKept
    <3>5. \A p \in PipeOwners, w \in PipeUsers : PipeHas(p, w)'
      BY <1>2, <2>2, <2>4, PipeHasKept
    <3>6. \A p \in PipeOwners, w \in PipeUsers : PipeStream(p, w)'
      BY <1>2, <2>2, <2>4, PipeStreamKept
    <3> QED BY <2>1, <3>1, <3>2, <3>3, <3>4, <3>5, <3>6 DEF PipeInv, PipeGood
  <2> QED BY <2>3, <2>4
<1> QED BY <1>1, <1>2

(* Of every pipe, while no task has used one that is freed: each task that *)
(* is attached has in its buffer, in order and once, all that was read     *)
(* from the hardware and that it has neither read nor had no room for; and *)
(* the hardware runs exactly while some task is attached, and is closed    *)
(* with the pipe.                                                          *)
THEOREM PipeServesHolds == PipeSpec => []PipeServes
<1>1. PipeInv => PipeServes
  BY DEF PipeInv, PipeGood, PipeServes, PipeStreams, PipeRuns, PipeStream, PipeOwns, PipeOnes
<1> QED BY <1>1, PipeInvStart, PipeInvKept, PTL DEF PipeSpec
---------------------------------------------------------------------------
(* The invariant of the messages with data in shared memory: types; where  *)
(* in its region the data of each message on its way lie, and in which     *)
(* order; and who sends.  A read moves the read index to the end of what   *)
(* it has read, so whatever lies behind it comes closer by as much.        *)

\* How far index b is ahead of index a in the region.
DmaDist(a, b) == IF b >= a THEN b - a ELSE DmaSize - (a - b)
DmaPlaces == 0..(DmaSize - 1)
DmaMsgs == [id : Nat, idx : Nat, size : Nat]
DmaRegions == [read : DmaPlaces, write : DmaPlaces, mem : [DmaPlaces -> Nat]]

DmaTypeOK ==
    /\ dmaRegion \in [Ways -> DmaRegions]
    /\ dmaAt \in [DmaTasks -> {"out", "locked", "write", "send", "done"}]
    /\ dmaMsg \in [DmaTasks -> DmaMsgs]
    /\ dmaMailbox \in [Ways -> {<<>>} \cup {<<m>> : m \in DmaMsgs}]
    /\ dmaArray \in [0..(DmaQueueLen - 1) -> {<<>>} \cup {<<m>> : m \in DmaMsgs}]
    /\ dmaQueueIdx \in 0..(DmaQueueLen - 1)
    /\ dmaQueue \in Seq(0..(DmaQueueLen - 1))
    /\ dmaWritten \in Nat

\* The data of message m lie in region R, between what is read and what is free.
DmaIn(R, m) ==
    /\ m.idx \in DmaPlaces /\ m.size # 0
    /\ DmaDist(R.read, m.idx) + DmaAligned(m.size) <= DmaDist(R.read, R.write)
    /\ \A i \in DmaPlaces : DmaDist(m.idx, i) < m.size => R.mem[i] = m.id
\* The data of m end before those of n begin.
DmaBefore(R, m, n) == DmaDist(R.read, m.idx) + DmaAligned(m.size) <= DmaDist(R.read, n.idx)

\* Who sends up has the lock, the place at which it will write, and then its data in
\* the region, after those of the message in the mailbox.
DmaSends(t) ==
    /\ dmaAt[t] # "out" => dmaLock = t /\ dmaMsg[t].size \in DmaCounts
    /\ dmaAt[t] = "write" => dmaMsg[t].idx = dmaRegion["up"].write
    /\ dmaAt[t] = "send" =>
          /\ DmaIn(dmaRegion["up"], dmaMsg[t])
          /\ dmaMailbox["up"] # <<>> => DmaBefore(dmaRegion["up"], dmaMailbox["up"][1], dmaMsg[t])

DmaMailed(w) == dmaMailbox[w] # <<>> => DmaIn(dmaRegion[w], dmaMailbox[w][1])

\* What waits in the queue of the task has its data in the region, in its order and
\* before those of the message in the mailbox.
DmaQueued ==
    /\ \A k \in DOMAIN dmaQueue :
          /\ dmaArray[dmaQueue[k]] # <<>>
          /\ DmaIn(dmaRegion["down"], dmaArray[dmaQueue[k]][1])
          /\ dmaMailbox["down"] # <<>> =>
                DmaBefore(dmaRegion["down"], dmaArray[dmaQueue[k]][1], dmaMailbox["down"][1])
    /\ \A j, k \in DOMAIN dmaQueue : j < k =>
          /\ dmaQueue[j] # dmaQueue[k]
          /\ DmaBefore(dmaRegion["down"], dmaArray[dmaQueue[j]][1], dmaArray[dmaQueue[k]][1])

DmaInv ==
    /\ DmaTypeOK /\ DmaWhole /\ DmaQueued
    /\ \A t \in DmaTasks : DmaSends(t)
    /\ \A w \in Ways : DmaMailed(w)

LEMMA DmaModBack ==
  ASSUME NEW a \in DmaPlaces, NEW b \in DmaPlaces
  PROVE  (b - a) % DmaSize = DmaDist(a, b)
<1>1. DmaSize \in Nat \ {0}
  BY DmaAssumption
<1>2. a \in Nat /\ b \in Nat /\ a < DmaSize /\ b < DmaSize
  BY <1>1 DEF DmaPlaces
<1>3. CASE b >= a
  BY <1>1, <1>2, <1>3 DEF DmaDist
<1>4. CASE b < a
  BY <1>1, <1>2, <1>4 DEF DmaDist
<1> QED
  BY <1>2, <1>3, <1>4

LEMMA DmaModOn ==
  ASSUME NEW a \in DmaPlaces, NEW k \in Nat, k < DmaSize
  PROVE  (a + k) % DmaSize \in DmaPlaces /\ DmaDist(a, (a + k) % DmaSize) = k
<1>1. DmaSize \in Nat \ {0}
  BY DmaAssumption
<1>2. a \in Nat /\ a < DmaSize
  BY <1>1 DEF DmaPlaces
<1>3. CASE a + k < DmaSize
  BY <1>1, <1>2, <1>3 DEF DmaDist, DmaPlaces
<1>4. CASE a + k >= DmaSize
  <2>1. (a + k) % DmaSize = a + k - DmaSize
    BY <1>1, <1>2, <1>4
  <2> QED
    BY <1>1, <1>2, <1>4, <2>1 DEF DmaDist, DmaPlaces
<1> QED
  BY <1>1, <1>2, <1>3, <1>4

LEMMA DmaAlignedBig ==
  ASSUME NEW n \in Nat
  PROVE  DmaAligned(n) \in Nat /\ DmaAligned(n) >= n
<1> DEFINE q == (n + DmaAlign - 1) \div DmaAlign
<1>1. DmaAlign \in Nat \ {0}
  BY DmaAssumption
<1>2. q \in Nat /\ n + DmaAlign - 1 < (q + 1) * DmaAlign
  BY <1>1
<1>3. (q + 1) * DmaAlign = q * DmaAlign + DmaAlign
  BY <1>1, <1>2
<1> QED
  BY <1>1, <1>2, <1>3 DEF DmaAligned

\* Distances from read are those from another index and the way there.
LEMMA DmaDistSums ==
  ASSUME NEW a \in DmaPlaces, NEW b \in DmaPlaces, NEW c \in DmaPlaces
  PROVE  /\ DmaDist(a, b) \in Nat /\ DmaDist(a, b) < DmaSize
         /\ DmaDist(a, b) = 0 <=> a = b
         /\ DmaDist(a, b) <= DmaDist(a, c) => DmaDist(b, c) = DmaDist(a, c) - DmaDist(a, b)
         /\ DmaDist(a, b) > DmaDist(a, c) => DmaDist(b, c) = DmaDist(a, c) - DmaDist(a, b) + DmaSize
<1>1. DmaSize \in Nat \ {0}
  BY DmaAssumption
<1> QED
  BY <1>1 DEF DmaDist, DmaPlaces

LEMMA DmaAdvances ==
  ASSUME NEW a \in DmaPlaces, NEW n \in Nat, n < DmaSize
  PROVE  DmaAdvance(a, n) \in DmaPlaces /\ DmaDist(a, DmaAdvance(a, n)) = n
<1>1. DmaSize \in Nat \ {0}
  BY DmaAssumption
<1> QED
  BY <1>1 DEF DmaDist, DmaPlaces, DmaAdvance

\* What a write does.
DmaWrote(R, S, m, n) ==
    /\ S \in DmaRegions /\ S.read = R.read
    /\ DmaDist(R.read, S.write) = DmaDist(R.read, R.write) + DmaAligned(n)
    /\ \A i \in DmaPlaces : S.mem[i] = IF DmaDist(R.write, i) < n THEN m ELSE R.mem[i]

LEMMA DmaWrites ==
  ASSUME NEW R \in DmaRegions, NEW m \in Nat, NEW n \in Nat \ {0},
         DmaFreeSpace(R) >= DmaAligned(n)
  PROVE  DmaWrote(R, DmaWritten(R, m, n), m, n)
<1> DEFINE S == DmaWritten(R, m, n)
<1>1. DmaSize \in Nat \ {0} /\ DmaFrame \in Nat \ {0}
  BY DmaAssumption
<1>2. DmaAligned(n) \in Nat \ {0}
  BY DmaAlignedBig
<1>3. R.read \in DmaPlaces /\ R.write \in DmaPlaces /\ R.mem \in [DmaPlaces -> Nat]
  BY DEF DmaRegions
<1>4. DmaDataCount(R) = DmaDist(R.read, R.write) /\ DmaDataCount(R) \in Nat
  BY <1>1, <1>3 DEF DmaDataCount, DmaDist, DmaPlaces
<1>5. DmaDist(R.read, R.write) + DmaAligned(n) < DmaSize
  BY <1>1, <1>2, <1>4 DEF DmaFreeSpace
<1>6. /\ S.read = R.read /\ S.write = DmaAdvance(R.write, DmaAligned(n))
      /\ S.mem = [i \in DmaPlaces |-> IF (i - R.write) % DmaSize < n THEN m ELSE R.mem[i]]
      /\ S \in [read : {S.read}, write : {S.write}, mem : {S.mem}]
  BY <1>3 DEF DmaWritten, DmaRegions
<1>7. DmaAligned(n) < DmaSize
  BY <1>1, <1>2, <1>3, <1>5, DmaDistSums
<1>8. S.write \in DmaPlaces /\ DmaDist(R.write, S.write) = DmaAligned(n)
  BY <1>2, <1>3, <1>6, <1>7, DmaAdvances
<1>9. \A i \in DmaPlaces : (i - R.write) % DmaSize = DmaDist(R.write, i)
  BY <1>3, DmaModBack
<1>10. S.mem \in [DmaPlaces -> Nat]
  BY <1>3, <1>6
<1>11. S \in DmaRegions
  BY <1>3, <1>6, <1>8, <1>10 DEF DmaRegions
<1>12. DmaDist(R.read, S.write) = DmaDist(R.read, R.write) + DmaAligned(n)
  BY <1>1, <1>2, <1>3, <1>5, <1>8, DmaDistSums DEF DmaDist
<1> QED
  BY <1>6, <1>9, <1>11, <1>12 DEF DmaWrote

\* After a write what was in the region still is, in its order and before the new data.
LEMMA DmaWroteKeeps ==
  ASSUME NEW R \in DmaRegions, NEW S, NEW m \in Nat, NEW n \in Nat \ {0}, DmaWrote(R, S, m, n)
  PROVE  /\ \A x \in DmaMsgs : DmaIn(R, x) => DmaIn(S, x) /\ DmaDist(S.read, x.idx) + DmaAligned(x.size) <= DmaDist(S.read, R.write)
         /\ \A x, y \in DmaMsgs : DmaBefore(R, x, y) => DmaBefore(S, x, y)
         /\ \A x \in DmaMsgs : x.id = m /\ x.idx = R.write /\ x.size = n => DmaIn(S, x)
<1>1. DmaSize \in Nat \ {0}
  BY DmaAssumption
<1>2. R.read \in DmaPlaces /\ R.write \in DmaPlaces /\ S.read = R.read /\ S.write \in DmaPlaces
  BY DEF DmaRegions, DmaWrote
<1>3. DmaAligned(n) \in Nat /\ DmaAligned(n) >= n
  BY DmaAlignedBig
<1>4. DmaDist(R.read, S.write) = DmaDist(R.read, R.write) + DmaAligned(n) /\ DmaDist(R.read, S.write) < DmaSize
  BY <1>1, <1>2, DmaDistSums DEF DmaWrote
<1>5. ASSUME NEW x \in DmaMsgs, DmaIn(R, x)
      PROVE  DmaIn(S, x) /\ DmaDist(S.read, x.idx) + DmaAligned(x.size) <= DmaDist(S.read, R.write)
  <2>1. x.idx \in DmaPlaces /\ x.size \in Nat \ {0} /\ DmaAligned(x.size) \in Nat /\ DmaAligned(x.size) >= x.size
    BY <1>5, DmaAlignedBig DEF DmaIn, DmaMsgs
  <2>2. ASSUME NEW i \in DmaPlaces, DmaDist(x.idx, i) < x.size PROVE S.mem[i] = x.id
    <3>1. DmaDist(R.read, i) < DmaDist(R.read, R.write)
      <4>1. /\ DmaDist(R.read, i) \in Nat /\ DmaDist(R.read, x.idx) \in Nat /\ DmaDist(R.read, R.write) \in Nat
            /\ DmaDist(R.read, x.idx) <= DmaDist(R.read, i) =>
                  DmaDist(x.idx, i) = DmaDist(R.read, i) - DmaDist(R.read, x.idx)
        BY <1>2, <2>1, DmaDistSums
      <4>2. DmaDist(R.read, x.idx) + DmaAligned(x.size) <= DmaDist(R.read, R.write)
        BY <1>5 DEF DmaIn
      <4> QED
        BY <2>1, <2>2, <4>1, <4>2
    <3>2. ~(DmaDist(R.write, i) < n)
      BY <1>1, <1>2, <1>3, <1>4, <3>1, DmaDistSums
    <3> QED
      BY <1>5, <2>2, <3>2 DEF DmaIn, DmaWrote
  <2> QED
    BY <1>1, <1>2, <1>3, <1>4, <1>5, <2>1, <2>2, DmaDistSums DEF DmaIn
<1>6. ASSUME NEW x \in DmaMsgs, x.id = m, x.idx = R.write, x.size = n
      PROVE  DmaIn(S, x)
  BY <1>2, <1>3, <1>4, <1>6, DmaDistSums DEF DmaIn, DmaWrote
<1> QED
  BY <1>2, <1>5, <1>6 DEF DmaBefore

\* What a read does.
DmaReadIt(R, S, msg) ==
    /\ S \in DmaRegions /\ S.write = R.write /\ S.mem = R.mem
    /\ DmaDist(R.read, S.read) = DmaDist(R.read, msg.idx) + DmaAligned(msg.size)

LEMMA DmaReads ==
  ASSUME NEW R \in DmaRegions, NEW msg \in DmaMsgs, DmaIn(R, msg)
  PROVE  /\ DmaReadIt(R, DmaReadFrom(R, msg).region, msg)
         /\ DmaReadFrom(R, msg).data = {msg.id}
<1> DEFINE at == [R EXCEPT !.read = msg.idx]
           S == [at EXCEPT !.read = DmaAdvance(@, DmaAligned(msg.size))]
<1>1. DmaSize \in Nat \ {0}
  BY DmaAssumption
<1>2. R.read \in DmaPlaces /\ R.write \in DmaPlaces /\ R.mem \in [DmaPlaces -> Nat]
  BY DEF DmaRegions
<1>3. /\ msg.idx \in DmaPlaces /\ msg.size \in Nat \ {0} /\ msg.id \in Nat
      /\ DmaAligned(msg.size) \in Nat /\ DmaAligned(msg.size) >= msg.size
      /\ DmaDist(R.read, msg.idx) + DmaAligned(msg.size) <= DmaDist(R.read, R.write)
  BY DmaAlignedBig DEF DmaIn, DmaMsgs
<1>4. /\ at \in DmaRegions /\ at.read = msg.idx /\ at.write = R.write /\ at.mem = R.mem
  BY <1>2, <1>3 DEF DmaRegions
<1>5. DmaDataCount(at) = DmaDist(msg.idx, R.write)
  BY <1>1, <1>2, <1>3, <1>4 DEF DmaDataCount, DmaDist, DmaPlaces
<1>6. DmaAligned(msg.size) <= DmaDist(msg.idx, R.write) /\ DmaAligned(msg.size) < DmaSize
  BY <1>1, <1>2, <1>3, DmaDistSums
<1>7. DmaDist(msg.idx, R.write) \in Nat
  BY <1>2, <1>3, DmaDistSums
<1>8. DmaReadFrom(R, msg) = [region |-> S, data |-> DmaBytes(at, msg.idx, msg.size)]
  BY <1>3, <1>5, <1>6, <1>7 DEF DmaReadFrom
<1>9. /\ DmaAdvance(msg.idx, DmaAligned(msg.size)) \in DmaPlaces
      /\ DmaDist(msg.idx, DmaAdvance(msg.idx, DmaAligned(msg.size))) = DmaAligned(msg.size)
  BY <1>3, <1>6, DmaAdvances
<1>10. /\ S \in DmaRegions /\ S.read = DmaAdvance(msg.idx, DmaAligned(msg.size))
       /\ S.write = R.write /\ S.mem = R.mem
  BY <1>4, <1>9 DEF DmaRegions
<1>11. DmaDist(R.read, S.read) = DmaDist(R.read, msg.idx) + DmaAligned(msg.size)
  BY <1>1, <1>2, <1>3, <1>9, <1>10, DmaDistSums DEF DmaDist
<1>12. ASSUME NEW k \in 0..(msg.size - 1)
       PROVE  at.mem[(msg.idx + k) % DmaSize] = msg.id
  <2>1. k \in Nat /\ k < DmaSize /\ k < msg.size
    BY <1>1, <1>3, <1>6
  <2>2. (msg.idx + k) % DmaSize \in DmaPlaces /\ DmaDist(msg.idx, (msg.idx + k) % DmaSize) = k
    BY <1>3, <2>1, DmaModOn
  <2> QED
    BY <1>4, <2>1, <2>2 DEF DmaIn
<1>13. 0 \in 0..(msg.size - 1)
  BY <1>3
<1>14. DmaBytes(at, msg.idx, msg.size) = {msg.id}
  BY <1>12, <1>13 DEF DmaBytes
<1>15. DmaReadFrom(R, msg).region = S /\ DmaReadFrom(R, msg).data = {msg.id}
  BY <1>8, <1>14
<1> HIDE DEF S
<1> QED
  BY <1>10, <1>11, <1>15 DEF DmaReadIt

\* After a read what comes behind it still is in the region, in its order.
LEMMA DmaReadKeeps ==
  ASSUME NEW R \in DmaRegions, NEW S, NEW msg \in DmaMsgs, DmaIn(R, msg), DmaReadIt(R, S, msg)
  PROVE  /\ \A x \in DmaMsgs : DmaIn(R, x) /\ DmaBefore(R, msg, x) => DmaIn(S, x)
         /\ \A x, y \in DmaMsgs :
               /\ DmaIn(R, x) /\ DmaBefore(R, msg, x) /\ DmaIn(R, y) /\ DmaBefore(R, msg, y)
               /\ DmaBefore(R, x, y)
               => DmaBefore(S, x, y)
<1>1. DmaSize \in Nat \ {0}
  BY DmaAssumption
<1>2. R.read \in DmaPlaces /\ R.write \in DmaPlaces /\ S.read \in DmaPlaces /\ S.write = R.write /\ S.mem = R.mem
  BY DEF DmaRegions, DmaReadIt
<1>3. ASSUME NEW x \in DmaMsgs, DmaIn(R, x), DmaBefore(R, msg, x)
      PROVE  /\ x.idx \in DmaPlaces /\ DmaAligned(x.size) \in Nat
             /\ DmaDist(S.read, x.idx) = DmaDist(R.read, x.idx) - DmaDist(R.read, S.read)
             /\ DmaDist(S.read, R.write) = DmaDist(R.read, R.write) - DmaDist(R.read, S.read)
  <2>1. x.idx \in DmaPlaces /\ DmaAligned(x.size) \in Nat
    BY <1>3, DmaAlignedBig DEF DmaIn, DmaMsgs
  <2>2. DmaDist(R.read, x.idx) <= DmaDist(R.read, R.write)
    BY <1>1, <1>2, <1>3, <2>1, DmaDistSums DEF DmaIn
  <2>3. DmaDist(R.read, S.read) <= DmaDist(R.read, x.idx)
    BY <1>3 DEF DmaReadIt, DmaBefore
  <2>4. /\ DmaDist(R.read, x.idx) \in Int /\ DmaDist(R.read, R.write) \in Int /\ DmaDist(R.read, S.read) \in Int
    BY <1>1, <1>2, <2>1, DmaDistSums
  <2> QED
    BY <1>2, <2>1, <2>2, <2>3, <2>4, DmaDistSums
<1>4. /\ \A x \in DmaPlaces : DmaDist(R.read, x) \in Int
  BY <1>1, <1>2, DmaDistSums
<1>5. ASSUME NEW x \in DmaMsgs, DmaIn(R, x), DmaBefore(R, msg, x) PROVE DmaIn(S, x)
  <2>1. DmaDist(S.read, x.idx) + DmaAligned(x.size) <= DmaDist(S.read, S.write)
    BY <1>2, <1>3, <1>4, <1>5 DEF DmaIn
  <2> QED
    BY <1>2, <1>5, <2>1 DEF DmaIn
<1>6. ASSUME NEW x \in DmaMsgs, NEW y \in DmaMsgs, DmaIn(R, x), DmaBefore(R, msg, x), DmaIn(R, y),
             DmaBefore(R, msg, y), DmaBefore(R, x, y)
      PROVE  DmaBefore(S, x, y)
  BY <1>2, <1>3, <1>4, <1>6 DEF DmaBefore
<1> QED
  BY <1>5, <1>6

---------------------------------------------------------------------------
(* The steps *)

LEMMA DmaMessageOf ==
  ASSUME DmaTypeOK
  PROVE  /\ \A w \in Ways : dmaMailbox[w] # <<>> =>
               dmaMailbox[w][1] \in DmaMsgs /\ dmaMailbox[w] = <<dmaMailbox[w][1]>>
         /\ \A k \in DOMAIN dmaQueue :
               /\ dmaQueue[k] \in 0..(DmaQueueLen - 1)
               /\ dmaArray[dmaQueue[k]] # <<>> => dmaArray[dmaQueue[k]][1] \in DmaMsgs
<1>1. ASSUME NEW q \in {<<>>} \cup {<<m>> : m \in DmaMsgs}, q # <<>>
      PROVE  q[1] \in DmaMsgs /\ q = <<q[1]>>
  BY <1>1
<1>2. ASSUME NEW w \in Ways, dmaMailbox[w] # <<>>
      PROVE  dmaMailbox[w][1] \in DmaMsgs /\ dmaMailbox[w] = <<dmaMailbox[w][1]>>
  BY <1>1, <1>2 DEF DmaTypeOK
<1>3. ASSUME NEW k \in DOMAIN dmaQueue
      PROVE  /\ dmaQueue[k] \in 0..(DmaQueueLen - 1)
             /\ dmaArray[dmaQueue[k]] # <<>> => dmaArray[dmaQueue[k]][1] \in DmaMsgs
  <2>1. dmaQueue[k] \in 0..(DmaQueueLen - 1)
    <3>1. dmaQueue \in Seq(0..(DmaQueueLen - 1)) /\ k \in 1..Len(dmaQueue)
      BY <1>3 DEF DmaTypeOK
    <3> QED
      BY <3>1, ElementOfSeq
  <2> QED
    BY <1>1, <2>1 DEF DmaTypeOK
<1> QED
  BY <1>2, <1>3

\* Steps of one way leave the other one alone.
LEMMA DmaDownSame ==
  ASSUME DmaInv, dmaRegion'["down"] = dmaRegion["down"],
         dmaMailbox'["down"] = dmaMailbox["down"], UNCHANGED <<dmaArray, dmaQueue>>
  PROVE  DmaQueued' /\ DmaMailed("down")'
<1>1. DmaQueued /\ DmaMailed("down")
  BY DEF DmaInv, Ways
<1> QED
  BY <1>1 DEF DmaQueued, DmaMailed

LEMMA DmaUpSame ==
  ASSUME DmaInv, dmaRegion'["up"] = dmaRegion["up"],
         dmaMailbox'["up"] = dmaMailbox["up"], UNCHANGED <<dmaLock, dmaAt, dmaMsg>>
  PROVE  (\A t \in DmaTasks : DmaSends(t)') /\ DmaMailed("up")'
<1>1. (\A t \in DmaTasks : DmaSends(t)) /\ DmaMailed("up")
  BY DEF DmaInv, Ways
<1> QED
  BY <1>1 DEF DmaSends, DmaMailed

\* One task sends at a time.
LEMMA DmaAlone ==
  ASSUME DmaInv, NEW t \in DmaTasks, dmaAt[t] # "out"
  PROVE  dmaLock = t /\ \A u \in DmaTasks : u # t => dmaAt[u] = "out"
BY DEF DmaInv, DmaSends

LEMMA DmaLockKeeps ==
  ASSUME DmaInv, NEW t \in DmaTasks, DmaLock(t)
  PROVE  DmaInv'
<1>1. PICK n \in DmaCounts : dmaMsg' = [dmaMsg EXCEPT ![t] = [id |-> 0, idx |-> 0, size |-> n]]
  BY DEF DmaLock
<1>2. /\ dmaLock = DmaNobody /\ dmaLock' = t /\ dmaAt' = [dmaAt EXCEPT ![t] = "locked"]
      /\ UNCHANGED <<dmaRegion, dmaMailbox, dmaOutcome, dmaWritten>>
      /\ UNCHANGED <<dmaArray, dmaQueueIdx, dmaQueue, dmaExists>>
  BY DEF DmaLock, DmaGo, DmaDownRest
<1>3. DmaTypeOK /\ DmaWhole /\ (\A u \in DmaTasks : DmaSends(u)) /\ DmaMailed("up")
  BY DEF DmaInv, Ways
<1>4. n \in Nat
  BY DmaAssumption
<1>5. DmaTypeOK'
  BY <1>1, <1>2, <1>3, <1>4 DEF DmaTypeOK, DmaMsgs
<1>6. ASSUME NEW u \in DmaTasks PROVE DmaSends(u)'
  <2>1. u # t => dmaAt'[u] = "out"
    BY <1>2, <1>3, DmaAssumption DEF DmaTypeOK, DmaSends
  <2>2. dmaAt'[t] = "locked" /\ dmaLock' = t /\ dmaMsg'[t].size = n
    BY <1>1, <1>2, <1>3 DEF DmaTypeOK
  <2> QED
    BY <2>1, <2>2 DEF DmaSends
<1>7. DmaMailed("up")' /\ DmaWhole'
  BY <1>2, <1>3 DEF DmaMailed, DmaWhole
<1>8. DmaQueued' /\ DmaMailed("down")'
  BY <1>2, DmaDownSame
<1> QED
  BY <1>5, <1>6, <1>7, <1>8 DEF DmaInv, Ways

LEMMA DmaKeepIndexKeeps ==
  ASSUME DmaInv, NEW t \in DmaTasks, DmaKeepIndex(t)
  PROVE  DmaInv'
<1> DEFINE place == dmaRegion["up"].write
<1>1. /\ dmaAt[t] = "locked" /\ dmaAt' = [dmaAt EXCEPT ![t] = "write"]
      /\ dmaMsg' = [dmaMsg EXCEPT ![t].idx = place]
      /\ UNCHANGED <<dmaRegion, dmaLock, dmaMailbox, dmaOutcome, dmaWritten>>
      /\ UNCHANGED <<dmaArray, dmaQueueIdx, dmaQueue, dmaExists>>
  BY DEF DmaKeepIndex, DmaGo, DmaDownRest
<1>2. DmaTypeOK /\ DmaWhole /\ (\A u \in DmaTasks : DmaSends(u)) /\ DmaMailed("up")
  BY DEF DmaInv, Ways
<1>3. place \in Nat
  BY <1>2, DmaAssumption DEF DmaTypeOK, DmaRegions, DmaPlaces, Ways
<1>4. /\ dmaMsg' \in [DmaTasks -> DmaMsgs]
      /\ dmaMsg'[t].idx = place /\ dmaMsg'[t].size = dmaMsg[t].size
  BY <1>1, <1>2, <1>3 DEF DmaTypeOK, DmaMsgs
<1>5. DmaTypeOK'
  BY <1>1, <1>2, <1>4 DEF DmaTypeOK
<1>6. ASSUME NEW u \in DmaTasks PROVE DmaSends(u)'
  <2>1. u # t => dmaAt'[u] = "out"
    BY <1>1, <1>2, DmaAlone DEF DmaTypeOK
  <2>2. dmaAt'[t] = "write" /\ dmaLock' = t /\ dmaMsg'[t].size \in DmaCounts
    BY <1>1, <1>2, <1>4 DEF DmaTypeOK, DmaSends
  <2> QED
    BY <1>1, <1>4, <2>1, <2>2 DEF DmaSends
<1>7. DmaMailed("up")' /\ DmaWhole'
  BY <1>1, <1>2 DEF DmaMailed, DmaWhole
<1>8. DmaQueued' /\ DmaMailed("down")'
  BY <1>1, DmaDownSame
<1> QED
  BY <1>5, <1>6, <1>7, <1>8 DEF DmaInv, Ways

LEMMA DmaUnlockKeeps ==
  ASSUME DmaInv, NEW t \in DmaTasks, DmaUnlock(t)
  PROVE  DmaInv'
<1>1. /\ dmaAt[t] = "done" /\ dmaAt' = [dmaAt EXCEPT ![t] = "out"]
      /\ dmaLock' = DmaNobody
      /\ UNCHANGED <<dmaRegion, dmaMsg, dmaMailbox, dmaOutcome, dmaWritten>>
      /\ UNCHANGED <<dmaArray, dmaQueueIdx, dmaQueue, dmaExists>>
  BY DEF DmaUnlock, DmaGo, DmaDownRest
<1>2. DmaTypeOK /\ DmaWhole /\ DmaMailed("up")
  BY DEF DmaInv, Ways
<1>3. DmaTypeOK'
  BY <1>1, <1>2 DEF DmaTypeOK
<1>4. ASSUME NEW u \in DmaTasks PROVE DmaSends(u)'
  <2>1. dmaAt'[u] = "out"
    BY <1>1, <1>2, DmaAlone DEF DmaTypeOK
  <2> QED
    BY <2>1 DEF DmaSends
<1>5. DmaMailed("up")' /\ DmaWhole'
  BY <1>1, <1>2 DEF DmaMailed, DmaWhole
<1>6. DmaQueued' /\ DmaMailed("down")'
  BY <1>1, DmaDownSame
<1> QED
  BY <1>3, <1>4, <1>5, <1>6 DEF DmaInv, Ways

LEMMA DmaSendKeeps ==
  ASSUME DmaInv, NEW t \in DmaTasks, DmaSend(t)
  PROVE  DmaInv'
<1>1. /\ dmaAt[t] = "send" /\ dmaAt' = [dmaAt EXCEPT ![t] = "done"]
      /\ UNCHANGED <<dmaRegion, dmaLock, dmaMsg, dmaOutcome, dmaWritten>>
      /\ UNCHANGED <<dmaArray, dmaQueueIdx, dmaQueue, dmaExists>>
      /\ dmaMailbox' = [dmaMailbox EXCEPT !["up"] = <<dmaMsg[t]>>] \/ UNCHANGED dmaMailbox
  BY DEF DmaSend, DmaGo, DmaDownRest
<1>2. DmaTypeOK /\ DmaWhole /\ (\A u \in DmaTasks : DmaSends(u)) /\ DmaMailed("up")
  BY DEF DmaInv, Ways
<1>3. /\ dmaMailbox' \in [Ways -> {<<>>} \cup {<<m>> : m \in DmaMsgs}]
      /\ dmaMailbox'["down"] = dmaMailbox["down"]
      /\ dmaMailbox'["up"] = <<dmaMsg[t]>> \/ dmaMailbox'["up"] = dmaMailbox["up"]
  <2>1. dmaMsg[t] \in DmaMsgs
    BY <1>2 DEF DmaTypeOK
  <2>2. <<dmaMsg[t]>> \in {<<>>} \cup {<<m>> : m \in DmaMsgs}
    BY <2>1
  <2> QED
    BY <1>1, <1>2, <2>2 DEF DmaTypeOK, Ways
<1>4. DmaTypeOK'
  BY <1>1, <1>2, <1>3 DEF DmaTypeOK
<1>5. ASSUME NEW u \in DmaTasks PROVE DmaSends(u)'
  <2>1. u # t => dmaAt'[u] = "out"
    BY <1>1, <1>2, DmaAlone DEF DmaTypeOK
  <2>2. dmaAt'[t] = "done" /\ dmaLock' = t /\ dmaMsg'[t].size \in DmaCounts
    BY <1>1, <1>2 DEF DmaTypeOK, DmaSends
  <2> QED
    BY <2>1, <2>2 DEF DmaSends
<1>6. DmaMailed("up")'
  <2>1. DmaIn(dmaRegion["up"], dmaMsg[t])
    BY <1>1, <1>2 DEF DmaSends
  <2>2. CASE dmaMailbox'["up"] = <<dmaMsg[t]>>
    <3>1. dmaMailbox'["up"][1] = dmaMsg[t]
      BY <2>2
    <3> QED
      BY <1>1, <2>1, <3>1 DEF DmaMailed
  <2>3. CASE dmaMailbox'["up"] = dmaMailbox["up"]
    BY <1>1, <1>2, <2>3 DEF DmaMailed
  <2> QED
    BY <1>3, <2>2, <2>3
<1>7. DmaQueued' /\ DmaMailed("down")'
  BY <1>1, <1>3, DmaDownSame
<1> QED
  BY <1>1, <1>2, <1>4, <1>5, <1>6, <1>7 DEF DmaInv, Ways, DmaWhole

LEMMA DmaWriteRegionKeeps ==
  ASSUME DmaInv, NEW t \in DmaTasks, DmaWriteRegion(t)
  PROVE  DmaInv'
<1> DEFINE n == dmaMsg[t].size
           R == dmaRegion["up"]
           id == dmaWritten + 1
           S == DmaWritten(R, id, n)
<1>1. /\ dmaAt[t] = "write"
      /\ UNCHANGED <<dmaLock, dmaMailbox, dmaOutcome>>
      /\ UNCHANGED <<dmaArray, dmaQueueIdx, dmaQueue, dmaExists>>
      /\ \/ /\ dmaAt' = [dmaAt EXCEPT ![t] = "done"]
            /\ UNCHANGED <<dmaRegion, dmaMsg, dmaWritten>>
         \/ /\ ~(DmaFreeSpace(R) < DmaAligned(n))
            /\ dmaAt' = [dmaAt EXCEPT ![t] = "send"]
            /\ dmaWritten' = id
            /\ dmaRegion' = [dmaRegion EXCEPT !["up"] = S]
            /\ dmaMsg' = [dmaMsg EXCEPT ![t].id = id]
  BY DEF DmaWriteRegion, DmaGo, DmaDownRest
<1>2. DmaTypeOK /\ DmaWhole /\ (\A u \in DmaTasks : DmaSends(u)) /\ DmaMailed("up")
  BY DEF DmaInv, Ways
<1>3. \A u \in DmaTasks : u # t => dmaAt'[u] = "out"
  BY <1>1, <1>2, DmaAlone DEF DmaTypeOK
<1>4. dmaLock' = t /\ n \in DmaCounts /\ dmaMsg[t].idx = R.write
  BY <1>1, <1>2 DEF DmaSends
<1>5. ASSUME dmaAt' = [dmaAt EXCEPT ![t] = "done"], UNCHANGED <<dmaRegion, dmaMsg, dmaWritten>>
      PROVE  DmaInv'
  <2>1. DmaTypeOK'
    BY <1>1, <1>2, <1>5 DEF DmaTypeOK
  <2>2. dmaAt'[t] = "done"
    BY <1>2, <1>5 DEF DmaTypeOK
  <2>3. ASSUME NEW u \in DmaTasks PROVE DmaSends(u)'
    BY <1>3, <1>4, <1>5, <2>2 DEF DmaSends
  <2>4. DmaMailed("up")' /\ DmaWhole'
    BY <1>1, <1>2, <1>5 DEF DmaMailed, DmaWhole
  <2>5. DmaQueued' /\ DmaMailed("down")'
    BY <1>1, <1>5, DmaDownSame
  <2> QED
    BY <2>1, <2>3, <2>4, <2>5 DEF DmaInv, Ways
<1>6. ASSUME ~(DmaFreeSpace(R) < DmaAligned(n)), dmaAt' = [dmaAt EXCEPT ![t] = "send"],
             dmaWritten' = id, dmaRegion' = [dmaRegion EXCEPT !["up"] = S],
             dmaMsg' = [dmaMsg EXCEPT ![t].id = id]
      PROVE  DmaInv'
  <2>1. n \in Nat \ {0} /\ id \in Nat /\ R \in DmaRegions
    <3>1. n \in Nat \ {0}
      BY <1>4, DmaAssumption
    <3>2. dmaWritten \in Nat /\ R \in DmaRegions
      BY <1>2 DEF DmaTypeOK, Ways
    <3> QED
      BY <3>1, <3>2
  <2>2. DmaFreeSpace(R) >= DmaAligned(n)
    <3>1. DmaDataCount(R) \in Int /\ DmaSize \in Nat /\ DmaFrame \in Nat
      <4>1. DmaSize \in Nat /\ DmaFrame \in Nat
        BY DmaAssumption
      <4>2. R.read \in Nat /\ R.write \in Nat
        BY <2>1, <4>1 DEF DmaRegions, DmaPlaces
      <4> QED
        BY <4>1, <4>2 DEF DmaDataCount
    <3>2. DmaFreeSpace(R) \in Int /\ DmaAligned(n) \in Int
      BY <2>1, <3>1, DmaAlignedBig DEF DmaFreeSpace
    <3> QED
      BY <1>6, <3>2
  <2>3. DmaWrote(R, S, id, n)
    BY <2>1, <2>2, DmaWrites
  <2> HIDE DEF S
  <2>4. dmaRegion'["up"] = S /\ dmaRegion'["down"] = dmaRegion["down"] /\ S \in DmaRegions
    BY <1>2, <1>6, <2>3 DEF DmaTypeOK, Ways, DmaWrote
  <2>5. /\ dmaMsg' \in [DmaTasks -> DmaMsgs] /\ dmaMsg'[t] \in DmaMsgs
        /\ dmaMsg'[t].id = id /\ dmaMsg'[t].idx = R.write /\ dmaMsg'[t].size = n
    BY <1>2, <1>4, <1>6, <2>1 DEF DmaTypeOK, DmaMsgs
  <2>6. DmaTypeOK'
    BY <1>1, <1>2, <1>6, <2>1, <2>4, <2>5 DEF DmaTypeOK
  <2>7. DmaIn(S, dmaMsg'[t])
    BY <2>1, <2>3, <2>5, DmaWroteKeeps
  <2>8. ASSUME dmaMailbox["up"] # <<>>
        PROVE  DmaIn(S, dmaMailbox["up"][1]) /\ DmaBefore(S, dmaMailbox["up"][1], dmaMsg'[t])
    <3>1. dmaMailbox["up"][1] \in DmaMsgs /\ DmaIn(R, dmaMailbox["up"][1])
      BY <1>2, <2>8, DmaMessageOf DEF DmaMailed, Ways
    <3> QED
      BY <2>1, <2>3, <2>5, <3>1, DmaWroteKeeps DEF DmaBefore
  <2>9. ASSUME NEW u \in DmaTasks PROVE DmaSends(u)'
    <3>1. dmaAt'[t] = "send"
      BY <1>2, <1>6 DEF DmaTypeOK
    <3> QED
      BY <1>1, <1>3, <1>4, <2>4, <2>5, <2>7, <2>8, <3>1 DEF DmaSends
  <2>10. DmaMailed("up")' /\ DmaWhole'
    BY <1>1, <1>2, <2>4, <2>8 DEF DmaMailed, DmaWhole
  <2>11. DmaQueued' /\ DmaMailed("down")'
    BY <1>1, <2>4, DmaDownSame
  <2> QED
    BY <2>6, <2>9, <2>10, <2>11 DEF DmaInv, Ways
<1> QED
  BY <1>1, <1>5, <1>6

LEMMA DmaApReceivesKeeps ==
  ASSUME DmaInv, DmaApReceives
  PROVE  DmaInv'
<1> DEFINE R == dmaRegion["up"]
           msg == dmaMailbox["up"][1]
           S == DmaReadFrom(R, msg).region
           data == DmaReadFrom(R, msg).data
<1>1. /\ dmaMailbox["up"] # <<>> /\ dmaMailbox' = [dmaMailbox EXCEPT !["up"] = <<>>]
      /\ dmaRegion' = [dmaRegion EXCEPT !["up"] = S]
      /\ dmaOutcome' = [expected |-> {msg.id}, data |-> data]
      /\ UNCHANGED <<dmaLock, dmaAt, dmaMsg, dmaWritten>>
      /\ UNCHANGED <<dmaArray, dmaQueueIdx, dmaQueue, dmaExists>>
  BY DEF DmaApReceives, DmaRead, DmaDownRest
<1>2. DmaTypeOK /\ DmaWhole /\ (\A u \in DmaTasks : DmaSends(u)) /\ DmaMailed("up")
  BY DEF DmaInv, Ways
<1>3. R \in DmaRegions /\ msg \in DmaMsgs /\ DmaIn(R, msg)
  BY <1>1, <1>2, DmaMessageOf DEF DmaTypeOK, DmaMailed, Ways
<1>4. DmaReadIt(R, S, msg) /\ data = {msg.id}
  BY <1>3, DmaReads
<1> HIDE DEF S, data
<1>5. dmaRegion'["up"] = S /\ dmaRegion'["down"] = dmaRegion["down"] /\ S \in DmaRegions /\ S.write = R.write
  BY <1>1, <1>2, <1>4 DEF DmaTypeOK, Ways, DmaReadIt
<1>6. dmaMailbox'["up"] = <<>> /\ dmaMailbox'["down"] = dmaMailbox["down"]
      /\ dmaMailbox' \in [Ways -> {<<>>} \cup {<<m>> : m \in DmaMsgs}]
  BY <1>1, <1>2 DEF DmaTypeOK, Ways
<1>7. DmaTypeOK'
  BY <1>1, <1>2, <1>5, <1>6 DEF DmaTypeOK
<1>8. ASSUME NEW u \in DmaTasks PROVE DmaSends(u)'
  <2>1. dmaAt[u] = "send" => DmaIn(S, dmaMsg[u])
    <3>1. dmaMsg[u] \in DmaMsgs
      BY <1>2 DEF DmaTypeOK
    <3>2. dmaAt[u] = "send" => DmaIn(R, dmaMsg[u]) /\ DmaBefore(R, msg, dmaMsg[u])
      BY <1>1, <1>2 DEF DmaSends
    <3> QED
      BY <1>3, <1>4, <3>1, <3>2, DmaReadKeeps
  <2>2. DmaSends(u)
    BY <1>2
  <2> QED
    BY <1>1, <1>5, <1>6, <2>1, <2>2 DEF DmaSends
<1>9. DmaMailed("up")'
  BY <1>6 DEF DmaMailed
<1>10. DmaWhole'
  BY <1>1, <1>4 DEF DmaWhole
<1>11. DmaQueued' /\ DmaMailed("down")'
  BY <1>1, <1>5, <1>6, DmaDownSame
<1> QED
  BY <1>7, <1>8, <1>9, <1>10, <1>11 DEF DmaInv, Ways

\* Steps of the AP and the task of the scene.
LEMMA DmaApSendsKeeps ==
  ASSUME DmaInv, NEW n \in DmaCounts, DmaApSends(n)
  PROVE  DmaInv'
<1> DEFINE R == dmaRegion["down"]
           id == dmaWritten + 1
           S == DmaWritten(R, id, n)
           msg == [id |-> id, idx |-> R.write, size |-> n]
<1>1. /\ dmaMailbox["down"] = <<>> /\ DmaFreeSpace(R) >= DmaAligned(n)
      /\ dmaWritten' = id
      /\ dmaRegion' = [dmaRegion EXCEPT !["down"] = S]
      /\ dmaMailbox' = [dmaMailbox EXCEPT !["down"] = <<msg>>]
      /\ UNCHANGED dmaOutcome /\ UNCHANGED <<dmaLock, dmaAt, dmaMsg>>
      /\ UNCHANGED <<dmaArray, dmaQueueIdx, dmaQueue, dmaExists>>
  BY DEF DmaApSends, DmaDownRest, DmaUpRest
<1>2. DmaTypeOK /\ DmaWhole /\ DmaQueued
  BY DEF DmaInv
<1>3. n \in Nat \ {0} /\ id \in Nat /\ R \in DmaRegions
  <2>1. n \in Nat \ {0}
    BY DmaAssumption
  <2>2. dmaWritten \in Nat /\ R \in DmaRegions
    BY <1>2 DEF DmaTypeOK, Ways
  <2> QED
    BY <2>1, <2>2
<1>4. msg \in DmaMsgs /\ msg.id = id /\ msg.idx = R.write /\ msg.size = n
  BY <1>3, DmaAssumption DEF DmaMsgs, DmaRegions, DmaPlaces
<1>5. DmaWrote(R, S, id, n)
  BY <1>1, <1>3, DmaWrites
<1> HIDE DEF S, msg
<1>6. dmaRegion'["down"] = S /\ dmaRegion'["up"] = dmaRegion["up"] /\ S \in DmaRegions
  BY <1>1, <1>2, <1>5 DEF DmaTypeOK, Ways, DmaWrote
<1>7. /\ dmaMailbox'["down"] = <<msg>> /\ dmaMailbox'["up"] = dmaMailbox["up"]
      /\ dmaMailbox'["down"][1] = msg
      /\ dmaMailbox' \in [Ways -> {<<>>} \cup {<<m>> : m \in DmaMsgs}]
  <2>1. <<msg>> \in {<<>>} \cup {<<m>> : m \in DmaMsgs}
    BY <1>4
  <2> QED
    BY <1>1, <1>2, <2>1 DEF DmaTypeOK, Ways
<1>8. DmaTypeOK'
  BY <1>1, <1>2, <1>3, <1>6, <1>7 DEF DmaTypeOK
<1>9. DmaIn(S, msg)
  BY <1>3, <1>4, <1>5, DmaWroteKeeps
<1>10. ASSUME NEW k \in DOMAIN dmaQueue
       PROVE  /\ dmaArray[dmaQueue[k]] # <<>>
              /\ dmaArray[dmaQueue[k]][1] \in DmaMsgs
              /\ DmaIn(S, dmaArray[dmaQueue[k]][1])
              /\ DmaBefore(S, dmaArray[dmaQueue[k]][1], msg)
  <2>1. dmaArray[dmaQueue[k]] # <<>> /\ DmaIn(R, dmaArray[dmaQueue[k]][1])
    BY <1>2 DEF DmaQueued
  <2>2. dmaArray[dmaQueue[k]][1] \in DmaMsgs
    BY <1>2, <2>1, DmaMessageOf
  <2> QED
    BY <1>3, <1>4, <1>5, <2>1, <2>2, DmaWroteKeeps DEF DmaBefore
<1>11. DmaQueued'
  <2>1. ASSUME NEW j \in DOMAIN dmaQueue, NEW k \in DOMAIN dmaQueue, j < k
        PROVE  /\ dmaQueue[j] # dmaQueue[k]
               /\ DmaBefore(S, dmaArray[dmaQueue[j]][1], dmaArray[dmaQueue[k]][1])
    <3>1. /\ dmaQueue[j] # dmaQueue[k]
          /\ DmaBefore(R, dmaArray[dmaQueue[j]][1], dmaArray[dmaQueue[k]][1])
      BY <1>2, <2>1 DEF DmaQueued
    <3> QED
      BY <1>3, <1>5, <1>10, <3>1, DmaWroteKeeps
  <2> QED
    BY <1>1, <1>6, <1>7, <1>10, <2>1 DEF DmaQueued
<1>12. DmaMailed("down")' /\ DmaWhole'
  BY <1>1, <1>2, <1>6, <1>7, <1>9 DEF DmaMailed, DmaWhole
<1>13. (\A t \in DmaTasks : DmaSends(t)') /\ DmaMailed("up")'
  BY <1>1, <1>6, <1>7, DmaUpSame
<1> QED
  BY <1>8, <1>11, <1>12, <1>13 DEF DmaInv, Ways

LEMMA DmaDispatchKeeps ==
  ASSUME DmaInv, DmaDispatch
  PROVE  DmaInv'
<1> DEFINE box == dmaMailbox["down"]
           place == dmaQueueIdx
<1>1. /\ box # <<>> /\ dmaMailbox' = [dmaMailbox EXCEPT !["down"] = <<>>]
      /\ UNCHANGED <<dmaRegion, dmaOutcome, dmaWritten, dmaExists>>
      /\ UNCHANGED <<dmaLock, dmaAt, dmaMsg>>
      /\ \/ UNCHANGED <<dmaArray, dmaQueue, dmaQueueIdx>>
         \/ /\ dmaArray[place] = <<>>
            /\ dmaArray' = [dmaArray EXCEPT ![place] = box]
            /\ dmaQueue' = Append(dmaQueue, place)
            /\ dmaQueueIdx' = (place + 1) % DmaQueueLen
  BY DEF DmaDispatch, DmaUpRest
<1>2. DmaTypeOK /\ DmaWhole /\ DmaQueued /\ DmaMailed("down")
  BY DEF DmaInv, Ways
<1>3. dmaMailbox'["down"] = <<>> /\ dmaMailbox'["up"] = dmaMailbox["up"]
      /\ dmaMailbox' \in [Ways -> {<<>>} \cup {<<m>> : m \in DmaMsgs}]
  BY <1>1, <1>2 DEF DmaTypeOK, Ways
<1>4. (\A t \in DmaTasks : DmaSends(t)') /\ DmaMailed("up")'
  BY <1>1, <1>3, DmaUpSame
<1>5. DmaMailed("down")' /\ DmaWhole'
  BY <1>1, <1>2, <1>3 DEF DmaMailed, DmaWhole
<1>6. ASSUME UNCHANGED <<dmaArray, dmaQueue, dmaQueueIdx>>
      PROVE  DmaTypeOK' /\ DmaQueued'
  BY <1>1, <1>2, <1>3, <1>6 DEF DmaTypeOK, DmaQueued
<1>7. ASSUME dmaArray[place] = <<>>, dmaArray' = [dmaArray EXCEPT ![place] = box],
             dmaQueue' = Append(dmaQueue, place), dmaQueueIdx' = (place + 1) % DmaQueueLen
      PROVE  DmaTypeOK' /\ DmaQueued'
  <2>1. box \in {<<>>} \cup {<<m>> : m \in DmaMsgs} /\ place \in 0..(DmaQueueLen - 1)
    BY <1>2 DEF DmaTypeOK, Ways
  <2>2. dmaQueueIdx' \in 0..(DmaQueueLen - 1)
    BY <1>7, <2>1, DmaAssumption
  <2>3. dmaQueue \in Seq(0..(DmaQueueLen - 1)) /\ dmaQueue' \in Seq(0..(DmaQueueLen - 1))
    BY <1>2, <1>7, <2>1, AppendProperties DEF DmaTypeOK
  <2>4. DmaTypeOK'
    BY <1>1, <1>2, <1>3, <1>7, <2>1, <2>2, <2>3 DEF DmaTypeOK
  <2> DEFINE last == Len(dmaQueue) + 1
  <2>5. /\ DOMAIN dmaQueue = 1..Len(dmaQueue) /\ Len(dmaQueue) \in Nat
        /\ DOMAIN dmaQueue' = 1..last
        /\ dmaQueue'[last] = place
        /\ \A k \in 1..Len(dmaQueue) : dmaQueue'[k] = dmaQueue[k]
    BY <1>7, <2>1, <2>3, AppendProperties
  <2>6. /\ dmaArray'[place] = box
        /\ \A k \in 1..Len(dmaQueue) :
              dmaQueue[k] # place /\ dmaArray'[dmaQueue[k]] = dmaArray[dmaQueue[k]]
    <3>1. dmaArray'[place] = box
      BY <1>2, <1>7, <2>1 DEF DmaTypeOK
    <3>2. ASSUME NEW k \in 1..Len(dmaQueue)
          PROVE  dmaQueue[k] # place /\ dmaArray'[dmaQueue[k]] = dmaArray[dmaQueue[k]]
      <4>1. dmaArray[dmaQueue[k]] # <<>>
        BY <1>2, <2>5 DEF DmaQueued
      <4>2. dmaQueue[k] \in 0..(DmaQueueLen - 1)
        BY <1>2, <2>5, DmaMessageOf
      <4> QED
        BY <1>2, <1>7, <4>1, <4>2 DEF DmaTypeOK
    <3> QED
      BY <3>1, <3>2
  <2>7. DmaIn(dmaRegion["down"], box[1])
    BY <1>1, <1>2 DEF DmaMailed
  <2>8. ASSUME NEW k \in 1..last
        PROVE  /\ dmaArray'[dmaQueue'[k]] # <<>>
               /\ DmaIn(dmaRegion["down"], dmaArray'[dmaQueue'[k]][1])
    <3>1. CASE k = last
      BY <1>1, <2>5, <2>6, <2>7, <3>1
    <3>2. CASE k # last
      <4>1. k \in 1..Len(dmaQueue)
        BY <2>5, <3>2
      <4> QED
        BY <1>2, <2>5, <2>6, <4>1 DEF DmaQueued
    <3> QED
      BY <3>1, <3>2
  <2>9. ASSUME NEW j \in 1..last, NEW k \in 1..last, j < k
        PROVE  /\ dmaQueue'[j] # dmaQueue'[k]
               /\ DmaBefore(dmaRegion["down"], dmaArray'[dmaQueue'[j]][1], dmaArray'[dmaQueue'[k]][1])
    <3>1. j \in 1..Len(dmaQueue)
      BY <2>5, <2>9
    <3>2. CASE k = last
      <4>1. DmaBefore(dmaRegion["down"], dmaArray[dmaQueue[j]][1], box[1])
        BY <1>1, <1>2, <2>5, <3>1 DEF DmaQueued
      <4> QED
        BY <2>5, <2>6, <3>1, <3>2, <4>1
    <3>3. CASE k # last
      <4>1. k \in 1..Len(dmaQueue)
        BY <2>5, <3>3
      <4>2. /\ dmaQueue[j] # dmaQueue[k]
            /\ DmaBefore(dmaRegion["down"], dmaArray[dmaQueue[j]][1], dmaArray[dmaQueue[k]][1])
        BY <1>2, <2>5, <2>9, <3>1, <4>1 DEF DmaQueued
      <4> QED
        BY <2>5, <2>6, <3>1, <4>1, <4>2
    <3> QED
      BY <3>2, <3>3
  <2> HIDE DEF last, box, place
  <2>10. DmaQueued'
    BY <1>1, <1>3, <2>5, <2>8, <2>9 DEF DmaQueued
  <2> QED
    BY <2>4, <2>10
<1>8. DmaTypeOK' /\ DmaQueued'
  BY <1>1, <1>6, <1>7
<1> QED
  BY <1>4, <1>5, <1>8 DEF DmaInv, Ways

\* The oldest entry leaves the queue; what is in the region behind it stays.
DmaOldest == dmaArray[Head(dmaQueue)][1]
DmaTakes(S) ==
    /\ dmaQueue # <<>> /\ dmaQueue' = Tail(dmaQueue)
    /\ dmaArray' = [dmaArray EXCEPT ![Head(dmaQueue)] = <<>>]
    /\ dmaRegion' = [dmaRegion EXCEPT !["down"] = S]
    /\ UNCHANGED <<dmaMailbox, dmaQueueIdx, dmaExists, dmaWritten>>
    /\ UNCHANGED <<dmaLock, dmaAt, dmaMsg>>

LEMMA DmaOldestIn ==
  ASSUME DmaInv, dmaQueue # <<>>
  PROVE  DmaOldest \in DmaMsgs /\ DmaIn(dmaRegion["down"], DmaOldest) /\ dmaRegion["down"] \in DmaRegions
<1>1. DmaTypeOK /\ DmaQueued
  BY DEF DmaInv
<1>2. 1 \in DOMAIN dmaQueue /\ Head(dmaQueue) = dmaQueue[1]
  BY <1>1, HeadTailProperties DEF DmaTypeOK
<1>3. dmaArray[dmaQueue[1]] # <<>> /\ DmaIn(dmaRegion["down"], dmaArray[dmaQueue[1]][1])
  BY <1>1, <1>2 DEF DmaQueued
<1>4. dmaArray[dmaQueue[1]][1] \in DmaMsgs
  BY <1>1, <1>2, <1>3, DmaMessageOf
<1> QED
  BY <1>1, <1>2, <1>3, <1>4 DEF DmaOldest, DmaTypeOK, Ways

LEMMA DmaTakesKeeps ==
  ASSUME DmaInv, NEW S, DmaTakes(S), dmaOutcome'.data = dmaOutcome'.expected,
         S = dmaRegion["down"] \/ DmaReadIt(dmaRegion["down"], S, DmaOldest)
  PROVE  DmaInv'
<1> DEFINE R == dmaRegion["down"]
<1>1. DmaTypeOK /\ DmaQueued /\ DmaMailed("down")
  BY DEF DmaInv, Ways
<1>2. /\ dmaQueue # <<>> /\ dmaQueue' = Tail(dmaQueue)
      /\ dmaArray' = [dmaArray EXCEPT ![Head(dmaQueue)] = <<>>]
      /\ dmaRegion' = [dmaRegion EXCEPT !["down"] = S]
      /\ UNCHANGED <<dmaMailbox, dmaQueueIdx, dmaExists, dmaWritten>>
      /\ UNCHANGED <<dmaLock, dmaAt, dmaMsg>>
  BY DEF DmaTakes
<1>3. DmaOldest \in DmaMsgs /\ DmaIn(R, DmaOldest) /\ R \in DmaRegions
  BY <1>2, DmaOldestIn
<1>4. S \in DmaRegions
  BY <1>3 DEF DmaReadIt
<1>5. dmaRegion'["down"] = S /\ dmaRegion'["up"] = dmaRegion["up"] /\ dmaRegion' \in [Ways -> DmaRegions]
  BY <1>1, <1>2, <1>4 DEF DmaTypeOK, Ways
<1>6. /\ dmaQueue \in Seq(0..(DmaQueueLen - 1)) /\ Len(dmaQueue) \in Nat
      /\ DOMAIN dmaQueue = 1..Len(dmaQueue) /\ 1 \in DOMAIN dmaQueue
      /\ Head(dmaQueue) = dmaQueue[1] /\ dmaQueue[1] \in 0..(DmaQueueLen - 1)
      /\ dmaQueue' \in Seq(0..(DmaQueueLen - 1))
      /\ DOMAIN dmaQueue' = 1..(Len(dmaQueue) - 1)
      /\ \A k \in 1..(Len(dmaQueue) - 1) : dmaQueue'[k] = dmaQueue[k + 1]
  <2>1. dmaQueue \in Seq(0..(DmaQueueLen - 1))
    BY <1>1 DEF DmaTypeOK
  <2>2. /\ Tail(dmaQueue) \in Seq(0..(DmaQueueLen - 1)) /\ Len(Tail(dmaQueue)) = Len(dmaQueue) - 1
        /\ \A k \in 1..Len(Tail(dmaQueue)) : Tail(dmaQueue)[k] = dmaQueue[k + 1]
        /\ Head(dmaQueue) \in 0..(DmaQueueLen - 1)
    BY <1>2, <2>1, HeadTailProperties
  <2>3. Len(dmaQueue) \in Nat /\ Len(dmaQueue) # 0 /\ DOMAIN dmaQueue = 1..Len(dmaQueue)
        /\ Head(dmaQueue) = dmaQueue[1]
    BY <1>2, <2>1, EmptySeq
  <2>4. DOMAIN Tail(dmaQueue) = 1..Len(Tail(dmaQueue))
    BY <2>2
  <2> QED
    BY <1>2, <2>1, <2>2, <2>3, <2>4
<1>7. DmaTypeOK'
  <2>1. dmaArray' \in [0..(DmaQueueLen - 1) -> {<<>>} \cup {<<m>> : m \in DmaMsgs}]
    BY <1>1, <1>2 DEF DmaTypeOK
  <2> QED
    BY <1>1, <1>2, <1>5, <1>6, <2>1 DEF DmaTypeOK
<1>8. ASSUME NEW x \in DmaMsgs, DmaIn(R, x), DmaBefore(R, DmaOldest, x) PROVE DmaIn(S, x)
  BY <1>3, <1>8, DmaReadKeeps
<1>9. ASSUME NEW x \in DmaMsgs, NEW y \in DmaMsgs, DmaIn(R, x), DmaBefore(R, DmaOldest, x),
             DmaIn(R, y), DmaBefore(R, DmaOldest, y), DmaBefore(R, x, y)
      PROVE  DmaBefore(S, x, y)
  BY <1>3, <1>9, DmaReadKeeps
<1>10. ASSUME dmaMailbox["down"] # <<>>
       PROVE  /\ dmaMailbox["down"][1] \in DmaMsgs /\ DmaIn(R, dmaMailbox["down"][1])
              /\ DmaBefore(R, DmaOldest, dmaMailbox["down"][1])
  BY <1>1, <1>6, <1>10, DmaMessageOf DEF DmaMailed, DmaQueued, DmaOldest, Ways
<1>11. DmaMailed("down")'
  BY <1>2, <1>5, <1>8, <1>10 DEF DmaMailed
<1>12. ASSUME NEW k \in 2..Len(dmaQueue)
       PROVE  /\ dmaArray'[dmaQueue[k]] = dmaArray[dmaQueue[k]]
              /\ dmaArray[dmaQueue[k]] # <<>>
              /\ dmaArray[dmaQueue[k]][1] \in DmaMsgs
              /\ DmaIn(R, dmaArray[dmaQueue[k]][1])
              /\ DmaBefore(R, DmaOldest, dmaArray[dmaQueue[k]][1])
              /\ dmaMailbox["down"] # <<>> =>
                    DmaBefore(R, dmaArray[dmaQueue[k]][1], dmaMailbox["down"][1])
  <2>1. k \in DOMAIN dmaQueue /\ 1 < k
    BY <1>6
  <2>2. /\ dmaQueue[1] # dmaQueue[k]
        /\ DmaBefore(R, dmaArray[dmaQueue[1]][1], dmaArray[dmaQueue[k]][1])
        /\ dmaArray[dmaQueue[k]] # <<>> /\ DmaIn(R, dmaArray[dmaQueue[k]][1])
        /\ dmaMailbox["down"] # <<>> =>
              DmaBefore(R, dmaArray[dmaQueue[k]][1], dmaMailbox["down"][1])
    BY <1>1, <1>6, <2>1 DEF DmaQueued
  <2>3. dmaQueue[k] \in 0..(DmaQueueLen - 1) /\ dmaArray[dmaQueue[k]][1] \in DmaMsgs
    BY <1>1, <2>1, <2>2, DmaMessageOf
  <2>4. dmaArray'[dmaQueue[k]] = dmaArray[dmaQueue[k]]
    BY <1>1, <1>2, <1>6, <2>2, <2>3 DEF DmaTypeOK
  <2> QED
    BY <1>6, <2>2, <2>3, <2>4 DEF DmaOldest
<1>13. ASSUME NEW k \in DOMAIN dmaQueue'
       PROVE  k \in 1..(Len(dmaQueue) - 1) /\ k + 1 \in 2..Len(dmaQueue) /\ dmaQueue'[k] = dmaQueue[k + 1]
  BY <1>6
<1>14. ASSUME NEW k \in DOMAIN dmaQueue'
       PROVE  /\ dmaArray'[dmaQueue'[k]] # <<>>
              /\ DmaIn(S, dmaArray'[dmaQueue'[k]][1])
              /\ dmaMailbox["down"] # <<>> =>
                    DmaBefore(S, dmaArray'[dmaQueue'[k]][1], dmaMailbox["down"][1])
  <2>1. k + 1 \in 2..Len(dmaQueue) /\ dmaQueue'[k] = dmaQueue[k + 1]
    BY <1>13
  <2> QED
    BY <1>8, <1>9, <1>10, <1>12, <2>1
<1>15. ASSUME NEW j \in DOMAIN dmaQueue', NEW k \in DOMAIN dmaQueue', j < k
       PROVE  /\ dmaQueue'[j] # dmaQueue'[k]
              /\ DmaBefore(S, dmaArray'[dmaQueue'[j]][1], dmaArray'[dmaQueue'[k]][1])
  <2>1. /\ j + 1 \in 2..Len(dmaQueue) /\ dmaQueue'[j] = dmaQueue[j + 1]
        /\ k + 1 \in 2..Len(dmaQueue) /\ dmaQueue'[k] = dmaQueue[k + 1]
        /\ j + 1 < k + 1 /\ j + 1 \in DOMAIN dmaQueue /\ k + 1 \in DOMAIN dmaQueue
    BY <1>6, <1>13, <1>15
  <2>2. /\ dmaQueue[j + 1] # dmaQueue[k + 1]
        /\ DmaBefore(R, dmaArray[dmaQueue[j + 1]][1], dmaArray[dmaQueue[k + 1]][1])
    BY <1>1, <2>1 DEF DmaQueued
  <2> QED
    BY <1>9, <1>12, <2>1, <2>2
<1>16. DmaQueued'
  BY <1>2, <1>5, <1>14, <1>15 DEF DmaQueued
<1>17. (\A t \in DmaTasks : DmaSends(t)') /\ DmaMailed("up")'
  BY <1>2, <1>5, DmaUpSame
<1> QED
  BY <1>7, <1>11, <1>16, <1>17 DEF DmaInv, Ways, DmaWhole

LEMMA DmaTaskReceivesKeeps ==
  ASSUME DmaInv, DmaTaskReceives
  PROVE  DmaInv'
<1> DEFINE R == dmaRegion["down"]
<1>1. dmaQueue # <<>>
  BY DEF DmaTaskReceives
<1>2. DmaReadIt(R, DmaReadFrom(R, DmaOldest).region, DmaOldest) /\ DmaReadFrom(R, DmaOldest).data = {DmaOldest.id}
  BY <1>1, DmaOldestIn, DmaReads
<1>3. ASSUME DmaRead("down", DmaOldest) PROVE DmaInv'
  <2>1. DmaTakes(DmaReadFrom(R, DmaOldest).region)
    BY <1>3 DEF DmaTaskReceives, DmaTakes, DmaRead, DmaUpRest
  <2>2. dmaOutcome'.data = dmaOutcome'.expected
    BY <1>2, <1>3 DEF DmaRead
  <2> QED
    BY <1>2, <2>1, <2>2, DmaTakesKeeps
<1>4. ASSUME UNCHANGED <<dmaRegion, dmaOutcome>> PROVE DmaInv'
  <2>1. dmaRegion' = [dmaRegion EXCEPT !["down"] = R]
    BY <1>4 DEF DmaInv, DmaTypeOK
  <2>2. DmaTakes(R)
    BY <2>1 DEF DmaTaskReceives, DmaTakes, DmaUpRest
  <2>3. dmaOutcome'.data = dmaOutcome'.expected
    BY <1>4 DEF DmaInv, DmaWhole
  <2> QED
    BY <2>2, <2>3, DmaTakesKeeps
<1> QED
  BY <1>3, <1>4 DEF DmaTaskReceives, DmaOldest

LEMMA DmaDropKeeps ==
  ASSUME DmaInv, DmaDrop
  PROVE  DmaInv'
<1> DEFINE R == dmaRegion["down"]
<1>1. dmaQueue # <<>>
  BY DEF DmaDrop
<1>2. DmaReadIt(R, DmaReadFrom(R, DmaOldest).region, DmaOldest)
  BY <1>1, DmaOldestIn, DmaReads
<1>3. DmaTakes(DmaReadFrom(R, DmaOldest).region)
  BY DEF DmaDrop, DmaTakes, DmaUpRest, DmaOldest
<1>4. dmaOutcome'.data = dmaOutcome'.expected
  BY DEF DmaDrop, DmaInv, DmaWhole
<1> QED
  BY <1>2, <1>3, <1>4, DmaTakesKeeps

LEMMA DmaTaskComesAndGoes ==
  ASSUME DmaInv, DmaCreateTask \/ DmaDestroyTask
  PROVE  DmaInv'
<1>1. DmaTypeOK /\ DmaWhole /\ DmaQueued /\ DmaMailed("down")
  BY DEF DmaInv, Ways
<1>2. UNCHANGED <<dmaRegion, dmaMailbox, dmaOutcome, dmaWritten>> /\ UNCHANGED <<dmaLock, dmaAt, dmaMsg>>
  BY DEF DmaCreateTask, DmaDestroyTask, DmaUpRest
<1>3. DmaTypeOK' /\ DmaQueued'
  <2>1. CASE DmaDestroyTask
    BY <1>1, <1>2, <2>1 DEF DmaTypeOK, DmaQueued, DmaDestroyTask
  <2>2. CASE DmaCreateTask
    <3>1. dmaArray' \in [0..(DmaQueueLen - 1) -> {<<>>} \cup {<<m>> : m \in DmaMsgs}]
      BY <1>1, <2>2 DEF DmaTypeOK, DmaCreateTask
    <3>2. dmaQueue' = <<>> /\ dmaQueueIdx' = 0
      BY <2>2 DEF DmaCreateTask
    <3>3. <<>> \in Seq(0..(DmaQueueLen - 1)) /\ 0 \in 0..(DmaQueueLen - 1) /\ DOMAIN <<>> = {}
      BY DmaAssumption
    <3>4. dmaQueue' \in Seq(0..(DmaQueueLen - 1)) /\ dmaQueueIdx' \in 0..(DmaQueueLen - 1) /\ DOMAIN dmaQueue' = {}
      BY <3>2, <3>3
    <3> QED
      BY <1>1, <1>2, <3>1, <3>4 DEF DmaTypeOK, DmaQueued
  <2> QED
    BY <2>1, <2>2
<1>4. DmaMailed("down")' /\ DmaWhole'
  BY <1>1, <1>2 DEF DmaMailed, DmaWhole
<1>5. (\A t \in DmaTasks : DmaSends(t)') /\ DmaMailed("up")'
  BY <1>2, DmaUpSame
<1> QED
  BY <1>3, <1>4, <1>5 DEF DmaInv, Ways

LEMMA DmaInitInv == DmaInit => DmaInv
<1> SUFFICES ASSUME DmaInit PROVE DmaInv
  OBVIOUS
<1>1. DmaSize \in Nat \ {0} /\ DmaQueueLen \in Nat \ {0}
  BY DmaAssumption
<1>2. dmaRegion \in [Ways -> DmaRegions]
  BY <1>1 DEF DmaInit, DmaRegions, DmaPlaces
<1>3. dmaMsg \in [DmaTasks -> DmaMsgs] /\ dmaAt \in [DmaTasks -> {"out"}]
  BY DEF DmaInit, DmaMsgs
<1>4. /\ dmaMailbox \in [Ways -> {<<>>}] /\ dmaArray \in [0..(DmaQueueLen - 1) -> {<<>>}]
      /\ dmaQueueIdx \in 0..(DmaQueueLen - 1) /\ dmaWritten \in Nat
  BY <1>1 DEF DmaInit
<1>5. dmaQueue = <<>> /\ dmaOutcome.data = dmaOutcome.expected
  BY DEF DmaInit
<1>6. dmaQueue \in Seq(0..(DmaQueueLen - 1)) /\ DOMAIN dmaQueue = {}
  BY <1>5
<1>7. DmaTypeOK
  BY <1>2, <1>3, <1>4, <1>6 DEF DmaTypeOK
<1>8. (\A t \in DmaTasks : DmaSends(t)) /\ (\A w \in Ways : DmaMailed(w))
  BY <1>3, <1>4 DEF DmaSends, DmaMailed
<1> QED
  BY <1>5, <1>6, <1>7, <1>8 DEF DmaInv, DmaQueued, DmaWhole

LEMMA DmaInductive == DmaInv /\ [DmaUp \/ DmaDown]_dmaVars => DmaInv'
<1> SUFFICES ASSUME DmaInv, [DmaUp \/ DmaDown]_dmaVars PROVE DmaInv'
  OBVIOUS
<1>1. CASE DmaUp
  BY <1>1, DmaLockKeeps, DmaKeepIndexKeeps, DmaWriteRegionKeeps, DmaSendKeeps, DmaUnlockKeeps,
     DmaApReceivesKeeps DEF DmaUp
<1>2. CASE DmaDown
  BY <1>2, DmaApSendsKeeps, DmaDispatchKeeps, DmaTaskReceivesKeeps, DmaDropKeeps,
     DmaTaskComesAndGoes DEF DmaDown
<1>3. CASE UNCHANGED dmaVars
  BY <1>3 DEF dmaVars, DmaInv, DmaTypeOK, DmaWhole, DmaQueued, DmaSends, DmaMailed
<1> QED
  BY <1>1, <1>2, <1>3

(* Whatever is lost with its data, given up or dropped, whoever reads the  *)
(* data of a message in shared memory gets all of it and nothing else.     *)
THEOREM DmaWholeHolds == DmaSpec => []DmaWhole
<1>1. DmaInv => DmaWhole
  BY DEF DmaInv
<1> QED
  BY DmaInitInv, DmaInductive, <1>1, PTL DEF DmaSpec
=============================================================================
