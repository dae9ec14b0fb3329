---------------------------- MODULE SwMixerProofs ----------------------------
(***************************************************************************)
(* Proofs about SwMixer, for any sources and any setup: who holds a lock   *)
(* is where its control point says; from that, nothing that is freed is    *)
(* used, no launch, no change of mode and no exit is slept through, the    *)
(* thread mixes no less than a buffer, and a synchronous write returns     *)
(* when its data has been with the target.                                 *)
(***************************************************************************)
EXTENDS SwMixer, FiniteSetTheorems, SequenceTheorems, TLAPS

\* LOCK_ALOCK waits for as long as it takes, and the thread has run once before a
\* target is attached: without the first a target is freed while it is mixed for,
\* without the second its launch is lost (a finding).
Patient == \A u \in Setups : ~u.idleTimeout /\ u.booted

Away == {"idle", "launch", "dead"}
Works == {"lock", "mixing", "enter", "ready", "waiting", "asleep", "woken", "roused", "settle",
          "waited", "mix", "select", "copy", "writing", "signal"}
Writes == {"mode", "direct", "mine", "direct_writing", "put", "fill", "signal", "sleep", "done",
           "late"}
Changes == {"attach", "detach", "unlinked", "free"}
Detaches == {"unassign", "unlink", "unlinked", "free"}
Stays == {"paths", "up", "exit", "terminate", "wait_idle", "wait_target", "unassign"}

Flags == [up : BOOLEAN, listed : BOOLEAN, sync : BOOLEAN, inSync : BOOLEAN, start : BOOLEAN,
          underflow : BOOLEAN, enough : BOOLEAN, doMix : BOOLEAN, isWait : BOOLEAN, buf : Seq(Nat)]
PointsOK ==
  /\ pc = [p \in Procs |-> pc[p]]
  /\ pc[Mixer] \in Away \cup Works
  /\ pc[Control] \in Detaches \cup Stays \cup {"off", "thread", "target", "deinit", "over"}
  /\ \A s \in Sources : pc[s] \in Writes \cup Changes \cup {"off", "idle"}
LocksOK ==
  /\ lock \in [{"manager", "thread", "target", "list", "mix", "direct"} -> Procs \cup {Free}]
  /\ plock \in [Sources -> Procs \cup {Free}] /\ slock \in [Sources -> Procs \cup {Free}]
  /\ cond \in [thread : {0, 1}, mix : {0, 1}] /\ pcond \in [Sources -> {0, 1}]
ThreadOK ==
  /\ thread \in [alive : BOOLEAN, idle : BOOLEAN, target : BOOLEAN]
  /\ target \in [up : BOOLEAN, exit : BOOLEAN, start : BOOLEAN, waitToMix : BOOLEAN, direct : BOOLEAN]
PathsOK ==
  /\ path \in [Sources -> Flags]
  /\ listed \subseteq Sources /\ scan \subseteq Sources
  /\ todo \in [{Mixer, Control} -> SUBSET Sources]
DataOK ==
  /\ outbuf \in [Sources -> Seq(Nat)] /\ out \in [Sources -> Seq(Nat)]
  /\ written \in [Sources -> Nat]
TypeOK == setup \in Setups /\ PointsOK /\ LocksOK /\ ThreadOK /\ PathsOK /\ DataOK

\* The locks of the mixer thread, of Control, and of a source.
MixerHolds ==
  /\ lock["thread"] = Mixer <=> pc[Mixer] \in Works
  /\ lock["target"] = Mixer <=> pc[Mixer] \in Works \ {"lock"}
  /\ lock["mix"] = (IF pc[Mixer] \in {"ready", "settle"} THEN Mixer ELSE Free)
  /\ lock["list"] = Mixer <=> pc[Mixer] \in {"select", "copy", "signal"}
ControlHolds ==
  /\ lock["thread"] = Control <=> pc[Control] \in Detaches \cup {"target", "paths", "wait_target"}
  /\ lock["target"] = Control <=> pc[Control] \in Detaches \cup {"paths"}
  /\ lock["manager"] = Control <=> pc[Control] \notin {"off", "up", "exit", "deinit", "over"}
  /\ lock["list"] = Control <=> pc[Control] = "unlinked"
SourceHolds(s) ==
  /\ lock["manager"] = s <=> pc[s] \in Changes
  /\ lock["list"] = s <=> pc[s] = "unlinked"

\* The path of s is being freed: unlinked, or that and out of the sight of the thread.
FreedAt(s, points) ==
  \/ pc[s] \in points
  \/ pc[Control] \in points /\ todo[Control] # {} /\ s = First(todo[Control])
Paths(s) ==
  /\ path[s].listed => path[s].up
  /\ path[s].up /\ ~path[s].listed => FreedAt(s, {"unlinked", "free"})
  /\ FreedAt(s, {"unlinked", "free"}) => ~path[s].listed
  /\ FreedAt(s, {"free"}) /\ pc[Mixer] = "ready" => s \notin scan
SourceLock(s) ==
  /\ slock[s] = s <=> pc[s] \in Writes \cup {"unlinked"}
  /\ slock[s] = Control => FreedAt(s, {"unlinked"}) /\ pc[Control] = "unlinked"

\* The thread and the target are what Control has made of them.
Target ==
  /\ thread.target <=> pc[Control] \in Stays
  /\ target.up <=> pc[Control] \notin {"off", "deinit", "over"}
  /\ pc[Mixer] \in Works => thread.target
  /\ pc[Control] \in {"unlinked", "free"} => todo[Control] # {}

\* Whoever sleeps is known to sleep, or signalled.
Sleeps ==
  /\ pc[Mixer] = "asleep" => target.waitToMix \/ cond.mix = 1
  /\ pc[Mixer] = "idle" => thread.idle \/ cond.thread = 1

\* The loops of the thread over the paths.
Loops ==
  /\ pc[Mixer] = "ready" => \A s \in scan : path[s].up
  /\ todo[Mixer] \subseteq PathList
  /\ todo[Mixer] # {} => pc[Mixer] \in {"select", "copy", "signal"}
Mixes(s) ==
  path[s].listed =>
    /\ path[s].doMix => pc[Mixer] \in {"select", "copy", "writing", "signal"}
    /\ pc[Mixer] = "select" /\ path[s].doMix => s \notin todo[Mixer] /\ Len(path[s].buf) >= TargetSize
    /\ pc[Mixer] = "copy" /\ s \in todo[Mixer] => path[s].doMix /\ Len(path[s].buf) >= TargetSize
    /\ pc[Mixer] = "signal" /\ path[s].doMix => s \in todo[Mixer]
    /\ path[s].enough => Len(path[s].buf) >= TargetSize

Holds == MixerHolds /\ ControlHolds /\ \A s \in Sources : SourceHolds(s)
Roles == Target /\ Loops /\ \A s \in Sources : Paths(s) /\ SourceLock(s)
Awake == Sleeps /\ NotLeftAsleep
Thick == \A s \in Sources : Mixes(s)
Inv == TypeOK /\ Holds /\ Roles /\ Awake /\ Thick

\* The units of a write of s are the last of s; they are in its ring buffer, in the
\* hands of the thread or with the target.
Early == {"mode", "direct", "mine", "put", "fill"}
Written == {"signal", "sleep", "done"}
Times(q, n) == Cardinality({k \in DOMAIN q : q[k] = n})
Upto(q, n) == \A k \in DOMAIN q : q[k] <= n
InHand(s) == IF pc[Mixer] = "copy" THEN outbuf[s] ELSE <<>>
Last(s) == IF pc[s] \in Early THEN written[s] - 1 ELSE written[s]
Known(s) == Upto(out[s], Last(s)) /\ Upto(outbuf[s], Last(s)) /\ Upto(path[s].buf, Last(s))
Whole(s) ==
  pc[s] \in Written =>
    Times(out[s], written[s]) + Times(InHand(s), written[s]) + Times(path[s].buf, written[s]) = Size[s]
Waits(s) ==
  /\ pcond[s] = 1 => pc[s] = "sleep"
  /\ path[s].isWait => pc[s] \in {"signal", "sleep"} /\ pcond[s] = 0
  /\ pc[s] # "late"
  /\ plock[s] = s <=> pc[s] \in {"signal", "direct_writing"}
  /\ pc[s] \in Writes => path[s].listed
  /\ pc[s] \in {"fill"} \cup Written /\ path[s].inSync => path[s].sync
  /\ path[s].inSync /\ (pcond[s] = 1 \/ pc[s] = "done") => Times(out[s], written[s]) = Size[s]
Untaken ==
  /\ pc[Mixer] = "select" => \A s \in Sources : outbuf[s] = <<>>
  /\ pc[Mixer] = "copy" => \A s \in todo[Mixer] : outbuf[s] = <<>>
DoneInv == Untaken /\ \A s \in Sources : Known(s) /\ Whole(s) /\ Waits(s)

\* A step leaves the units of s where they are.
Still(s) ==
  /\ out'[s] = out[s] /\ outbuf'[s] = outbuf[s] /\ path'[s].buf = path[s].buf
  /\ written'[s] = written[s] /\ InHand(s)' = InHand(s)
  /\ pc'[s] \in Early => pc[s] \in Early
  /\ pc'[s] \in Written => pc[s] \in Written
Kept(s) == Known(s)' /\ Whole(s)'

\* The branches of the steps that branch, each as a step of its own.
Launches ==
  /\ At(Mixer, "launch") /\ Go(Mixer, "lock") /\ Take("thread", Mixer)
  /\ thread.target /\ ~target.exit
  /\ thread' = [thread EXCEPT !.idle = FALSE]
  /\ UNCHANGED <<plock, slock, cond, pcond, target, path, listed, left, scan, todo, outbuf, hist>>
GoesIdle ==
  /\ At(Mixer, "launch") /\ Go(Mixer, "idle") /\ (thread.target => target.exit)
  /\ thread' = [thread EXCEPT !.idle = TRUE]
  /\ UNCHANGED <<locks, target, path, listed, left, scan, todo, outbuf, hist>>
Ends ==
  /\ At(Mixer, "launch") /\ Go(Mixer, "dead")
  /\ thread' = [thread EXCEPT !.idle = FALSE]
  /\ UNCHANGED <<locks, target, path, listed, left, scan, todo, outbuf, hist>>
LeavesTo(point, idle) ==
  /\ At(Mixer, "mixing") /\ Go(Mixer, point) /\ target.exit
  /\ lock' = [lock EXCEPT !["target"] = Free, !["thread"] = Free]
  /\ thread' = [thread EXCEPT !.idle = idle]
  /\ UNCHANGED <<plock, slock, cond, pcond, target, path, listed, left, scan, todo, outbuf, hist>>
Enters ==
  /\ At(Mixer, "mixing") /\ Go(Mixer, "enter")
  /\ UNCHANGED <<locks, thread, target, path, listed, left, scan, todo, outbuf, hist>>
LooksNoMore(point) ==
  /\ At(Mixer, "ready") /\ Go(Mixer, point) /\ Release("mix")
  /\ UNCHANGED <<plock, slock, cond, pcond, thread, target, path, listed, left, scan, todo, outbuf, hist>>
Pauses(point) ==
  /\ At(Mixer, "ready") /\ Go(Mixer, point) /\ Release("mix")
  /\ point = "asleep" => target.direct /\ ~target.exit
  /\ target' = [target EXCEPT !.waitToMix = TRUE]
  /\ UNCHANGED <<plock, slock, cond, pcond, thread, path, listed, left, scan, todo, outbuf, hist>>
Wakes(from, to) ==
  /\ At(Mixer, from) /\ Go(Mixer, to)
  /\ cond.mix = 1 /\ cond' = [cond EXCEPT !.mix = 0]
  /\ UNCHANGED <<lock, plock, slock, pcond, thread, target, path, listed, left, scan, todo, outbuf, hist>>
BreaksOff ==
  /\ At(Mixer, "woken") /\ Go(Mixer, "mixing")
  /\ scan' = PathList /\ target' = [target EXCEPT !.waitToMix = FALSE]
  /\ UNCHANGED <<locks, thread, path, listed, left, todo, outbuf, hist>>
TurnsDirect ==
  /\ At(Mixer, "woken") /\ Go(Mixer, "asleep")
  /\ target.direct /\ ~target.exit
  /\ scan' = PathList /\ target' = [target EXCEPT !.waitToMix = TRUE]
  /\ UNCHANGED <<locks, thread, path, listed, left, todo, outbuf, hist>>
LooksAgain ==
  /\ At(Mixer, "woken") /\ Go(Mixer, "ready") /\ Take("mix", Mixer)
  /\ scan' = PathList /\ target' = [target EXCEPT !.waitToMix = FALSE]
  /\ left' \in {left, FALSE}
  /\ UNCHANGED <<plock, slock, cond, pcond, thread, path, listed, todo, outbuf, hist>>
Chosen == {s \in PathList : path[s].doMix}
SelectsNone ==
  /\ At(Mixer, "select") /\ Go(Mixer, "mixing") /\ Release("list")
  /\ todo[Mixer] = {} /\ Chosen = {} /\ todo' = [todo EXCEPT ![Mixer] = {}]
  /\ UNCHANGED <<plock, slock, cond, pcond, thread, target, path, listed, left, scan, outbuf, hist>>
SelectsSome ==
  /\ At(Mixer, "select") /\ Go(Mixer, "copy")
  /\ todo[Mixer] = {} /\ todo' = [todo EXCEPT ![Mixer] = Chosen]
  /\ UNCHANGED <<locks, thread, target, path, listed, left, scan, outbuf, hist>>

SkipsPath(s) ==
  /\ At(Mixer, "select") /\ todo[Mixer] # {} /\ s = First(todo[Mixer])
  /\ todo' = [todo EXCEPT ![Mixer] = @ \ {s}]
  /\ UNCHANGED <<pc, locks, thread, target, path, listed, left, scan, outbuf, hist>>
Underflows(s) ==
  /\ At(Mixer, "select") /\ todo[Mixer] # {} /\ s = First(todo[Mixer])
  /\ path' = [path EXCEPT ![s] = [@ EXCEPT !.start = FALSE, !.underflow = TRUE]]
  /\ todo' = [todo EXCEPT ![Mixer] = @ \ {s}]
  /\ UNCHANGED <<pc, locks, thread, target, listed, left, scan, outbuf, hist>>
Picks(s) ==
  /\ At(Mixer, "select") /\ todo[Mixer] # {} /\ s = First(todo[Mixer])
  /\ ~(Len(path[s].buf) < TargetSize)
  /\ path' = [path EXCEPT ![s] = [@ EXCEPT !.doMix = TRUE]]
  /\ todo' = [todo EXCEPT ![Mixer] = @ \ {s}]
  /\ UNCHANGED <<pc, locks, thread, target, listed, left, scan, outbuf, hist>>
SignalsWriter(s) ==
  /\ At(Mixer, "signal") /\ todo[Mixer] # {} /\ s = First(todo[Mixer])
  /\ plock[s] = Free /\ path[s].isWait
  /\ Len(path[s].buf) <= (IF path[s].sync THEN 0 ELSE SafeCount(s))
  /\ path' = [path EXCEPT ![s] = [@ EXCEPT !.doMix = FALSE, !.isWait = FALSE]]
  /\ todo' = [todo EXCEPT ![Mixer] = @ \ {s}]
  /\ pcond' = [pcond EXCEPT ![s] = 1]
  /\ UNCHANGED <<pc, lock, plock, slock, cond, thread, target, listed, left, scan, outbuf, hist>>
PassesWriter(s) ==
  /\ At(Mixer, "signal") /\ todo[Mixer] # {} /\ s = First(todo[Mixer])
  /\ path' = [path EXCEPT ![s] = [@ EXCEPT !.doMix = FALSE]]
  /\ todo' = [todo EXCEPT ![Mixer] = @ \ {s}]
  /\ UNCHANGED <<pc, locks, thread, target, listed, left, scan, outbuf, hist>>

\* SignalMixer with a signal, and without.
Signals(d) ==
  /\ cond' = [cond EXCEPT !.mix = 1]
  /\ target' = [target EXCEPT !.waitToMix = FALSE, !.direct = d]
Silent(d) ==
  /\ ~target.waitToMix \/ (target.direct <=> d)
  /\ UNCHANGED cond
  /\ target' = [target EXCEPT !.direct = d]
ChoosesLoud(s, d, point) ==
  /\ At(s, "mode") /\ Go(s, point) /\ lock["mix"] = Free
  /\ Signals(d)
  /\ UNCHANGED <<lock, plock, slock, pcond, thread, path, listed, left, scan, todo, outbuf, hist>>
ChoosesSilent(s, d, point) ==
  /\ At(s, "mode") /\ Go(s, point) /\ lock["mix"] = Free
  /\ Silent(d)
  /\ UNCHANGED <<lock, plock, slock, pcond, thread, path, listed, left, scan, todo, outbuf, hist>>
SleepsLoud(s) ==
  /\ At(s, "signal") /\ Go(s, "sleep") /\ path[s].isWait /\ Signals(target.direct)
  /\ plock' = [plock EXCEPT ![s] = Free]
  /\ UNCHANGED <<lock, slock, pcond, thread, path, listed, left, scan, todo, outbuf, hist>>
SleepsSilent(s) ==
  /\ At(s, "signal") /\ Go(s, "sleep") /\ path[s].isWait
  /\ plock' = [plock EXCEPT ![s] = Free]
  /\ UNCHANGED <<lock, slock, cond, pcond, thread, target, path, listed, left, scan, todo, outbuf, hist>>
ReturnsLoud(s) ==
  /\ At(s, "signal") /\ Go(s, "idle") /\ ~path[s].isWait /\ Signals(target.direct)
  /\ plock' = [plock EXCEPT ![s] = Free] /\ slock' = [slock EXCEPT ![s] = Free]
  /\ UNCHANGED <<lock, pcond, thread, path, listed, left, scan, todo, outbuf, hist>>
ReturnsSilent(s) ==
  /\ At(s, "signal") /\ Go(s, "idle") /\ ~path[s].isWait
  /\ plock' = [plock EXCEPT ![s] = Free] /\ slock' = [slock EXCEPT ![s] = Free]
  /\ UNCHANGED <<lock, cond, pcond, thread, target, path, listed, left, scan, todo, outbuf, hist>>
BroadcastsLoud(p, s) ==
  /\ At(p, "unlinked") /\ slock[s] = p /\ Go(p, "free") /\ lock["mix"] = Free
  /\ Signals(target.direct)
  /\ slock' = [slock EXCEPT ![s] = Free] /\ Release("list")
  /\ UNCHANGED <<plock, pcond, thread, path, listed, left, scan, todo, outbuf, hist>>
BroadcastsSilent(p, s) ==
  /\ At(p, "unlinked") /\ slock[s] = p /\ Go(p, "free") /\ lock["mix"] = Free
  /\ slock' = [slock EXCEPT ![s] = Free] /\ Release("list")
  /\ UNCHANGED <<plock, cond, pcond, thread, target, path, listed, left, scan, todo, outbuf, hist>>
TerminatesLoud ==
  /\ At(Control, "terminate") /\ Go(Control, "wait_idle") /\ Signals(target.direct)
  /\ UNCHANGED <<lock, plock, slock, pcond, thread, path, listed, left, scan, todo, outbuf, hist>>
TerminatesSilent ==
  /\ At(Control, "terminate") /\ Go(Control, "wait_idle") /\ ~target.waitToMix
  /\ UNCHANGED <<lock, plock, slock, cond, pcond, thread, target, path, listed, left, scan, todo, outbuf, hist>>

AwaitsLock(from, l, to) ==
  /\ At(Control, from) /\ Take(l, Control) /\ Go(Control, to)
  /\ UNCHANGED <<plock, slock, cond, pcond, thread, target, path, listed, left, scan, todo, outbuf, hist>>
Knows(s) ==
  /\ At(s, "attach") /\ Go(s, "idle") /\ Release("manager") /\ ~thread.target
  /\ listed' = listed \cup {s}
  /\ UNCHANGED <<plock, slock, cond, pcond, thread, target, path, left, scan, todo, outbuf, hist>>
Joins(s) ==
  /\ At(s, "attach") /\ Go(s, "idle") /\ Release("manager") /\ thread.target /\ lock["list"] = Free
  /\ listed' = listed \cup {s}
  /\ CreatePath(s)
  /\ UNCHANGED <<plock, slock, cond, thread, target, left, scan, todo, outbuf, hist>>
Returned(s) ==
  /\ At(s, "sleep") /\ Go(s, "done") /\ pcond[s] = 1 /\ pcond' = [pcond EXCEPT ![s] = 0]
  /\ UNCHANGED <<lock, plock, slock, cond, thread, target, path, listed, left, scan, todo, outbuf, hist>>
TooLate(s) ==
  /\ At(s, "sleep") /\ Go(s, "late") /\ WaitTimeout
  /\ UNCHANGED <<locks, thread, target, path, listed, left, scan, todo, outbuf, hist>>
Frees(s, point) ==
  /\ At(s, point) /\ Go(s, "off") /\ Release("manager")
  /\ point = "free" \/ ~path[s].listed
  /\ path' = [path EXCEPT ![s] = NoPath]
  /\ listed' = listed \ {s}
  /\ UNCHANGED <<plock, slock, cond, pcond, thread, target, left, scan, todo, outbuf, hist>>
\* The steps of the thread, of a source and of Control.
MixerMove ==
  \/ ThreadWake \/ Launches \/ GoesIdle \/ Ends \/ ThreadLock \/ LeavesTo("idle", TRUE)
     \/ LeavesTo("dead", FALSE) \/ Enters \/ MixEnter \/ LooksNoMore("waited")
     \/ LooksNoMore("mixing") \/ Pauses("asleep") \/ Pauses("waiting")
     \/ Wakes("waiting", "woken") \/ Wakes("asleep", "roused") \/ MixerTimesOut \/ BreaksOff
     \/ TurnsDirect \/ LooksAgain \/ AfterSleep \/ AwaitDirect \/ AfterLook \/ StartMix
     \/ SelectsNone \/ SelectsSome \/ BeginWrite \/ EndWrite \/ MixDone
  \/ \E x \in Sources : SkipsPath(x) \/ Underflows(x) \/ Picks(x) \/ Copy(x)
       \/ SignalsWriter(x) \/ PassesWriter(x)
SourceMove(x) ==
  \/ SourceAttach(x) \/ Knows(x) \/ Joins(x) \/ CallWrite(x)
     \/ ChoosesLoud(x, TRUE, "direct") \/ ChoosesLoud(x, FALSE, "put")
     \/ ChoosesSilent(x, TRUE, "direct") \/ ChoosesSilent(x, FALSE, "put") \/ TakeDirect(x)
     \/ DirectWrite(x) \/ DirectDone(x) \/ CallPut(x) \/ Suspend(x) \/ Drop(x) \/ Fill(x)
     \/ SleepsLoud(x) \/ SleepsSilent(x) \/ ReturnsLoud(x) \/ ReturnsSilent(x) \/ Returned(x)
     \/ TooLate(x) \/ WriteReturns(x) \/ SourceDetach(x) \/ SourceUnlink(x)
     \/ BroadcastsLoud(x, x) \/ BroadcastsSilent(x, x) \/ Frees(x, "free") \/ Frees(x, "detach")
ControlMove ==
  \/ TargetAttach \/ TakeThread \/ AssignTarget \/ Attached \/ TargetDetach \/ TakeManager
     \/ TerminatesLoud \/ TerminatesSilent \/ AwaitsLock("wait_idle", "thread", "wait_target")
     \/ AwaitsLock("wait_target", "target", "unassign") \/ UnassignTarget \/ Detached
     \/ Deinit \/ DeinitSignal
  \/ \E x \in Sources : AttachPath(x) \/ DetachPath(x) \/ BroadcastsLoud(Control, x)
       \/ BroadcastsSilent(Control, x) \/ FreePath(x)
Move == MixerMove \/ (\E x \in Sources : SourceMove(x)) \/ ControlMove

\* A path as it is made.
Fresh(s) == [NoPath EXCEPT !.up = TRUE, !.listed = TRUE, !.sync = s \in Sync]

(* Of a set of sources there is a first: the one below which there is the  *)
(* smallest part of the set.                                               *)
LEMMA FirstIsIn ==
  ASSUME NEW S \in SUBSET Sources, S # {}
  PROVE  First(S) \in S
<1> DEFINE Below(x) == {y \in S : y < x}
           Parts == {Below(x) : x \in S}
           R == StrictSubsetOrdering(S)
<1>1. S \subseteq Nat /\ IsFiniteSet(S)
  BY FS_Subset, SetupAssumption
<1>2. Parts \subseteq FiniteSubsetsOf(S)
  BY <1>1, FS_Subset DEF FiniteSubsetsOf
<1>3. IsWellFoundedOn(R, FiniteSubsetsOf(S))
  BY <1>1, FS_StrictSubsetOrderingWellFounded
<1>4. PICK T \in Parts : \A U \in Parts : ~(<<U, T>> \in R)
  <2>1. Parts # {}
    OBVIOUS
  <2> HIDE DEF Parts, R
  <2> QED BY <1>2, <1>3, <2>1, WFMin
<1>5. PICK x \in S : T = Below(x)
  BY <1>4
<1>6. ASSUME NEW y \in S, y < x
      PROVE  FALSE
  <2>1. x \in Nat /\ y \in Nat /\ \A z \in S : z \in Nat
    BY <1>1
  <2>2. \A z \in S : z < y => z < x
    BY <1>6, <2>1
  <2>3. ~(y < y)
    BY <2>1
  <2>4. Below(y) \subseteq Below(x)
    BY <2>2
  <2>5. y \in Below(x) /\ y \notin Below(y)
    BY <1>6, <2>3
  <2>6. <<Below(y), Below(x)>> \in R
    BY <2>4, <2>5 DEF StrictSubsetOrdering
  <2> QED BY <1>4, <1>5, <2>6
<1> HIDE DEF Below, Parts, R
<1>7. x \in S /\ \A r \in S : x <= r
  <2>1. x \in Nat /\ \A r \in S : r \in Nat /\ ~(r < x)
    BY <1>1, <1>6
  <2> QED BY <2>1
<1> QED BY <1>7 DEF First

\* The ring buffer cut after n units, and a chunk of n units.
LEMMA Cut ==
  ASSUME NEW q \in Seq(Nat), NEW n \in Nat, n <= Len(q)
  PROVE  /\ SubSeq(q, 1, n) \in Seq(Nat) /\ Len(SubSeq(q, 1, n)) = n
         /\ SubSeq(q, n + 1, Len(q)) \in Seq(Nat) /\ Len(SubSeq(q, n + 1, Len(q))) = Len(q) - n
  BY SubSeqProperties

\* A chunk of n units, and a sequence with it at its end.
LEMMA Chunk ==
  ASSUME NEW n \in Nat, NEW v \in Nat, NEW q \in Seq(Nat)
  PROVE  /\ [k \in 1..n |-> v] \in Seq(Nat) /\ Len([k \in 1..n |-> v]) = n
         /\ q \o [k \in 1..n |-> v] \in Seq(Nat)
         /\ Len(q \o [k \in 1..n |-> v]) = Len(q) + n
  OBVIOUS

\* The sizes of the setup.
LEMMA Sizes ==
  ASSUME Inv
  PROVE  /\ TargetSize \in Nat \ {0} /\ Size \in [Sources -> Nat \ {0}]
         /\ Limit \in Nat /\ MaxWrites \in Nat /\ WaitTimeout \in BOOLEAN
  BY SetupAssumption DEF Inv, TypeOK, TargetSize, Size, Limit, MaxWrites, WaitTimeout

(* A well-formed path with one field set anew. *)
LEMMA FlagsEdited ==
  ASSUME NEW f \in Flags, NEW b \in BOOLEAN, NEW q \in Seq(Nat)
  PROVE  /\ [f EXCEPT !.up = b] \in Flags /\ [f EXCEPT !.listed = b] \in Flags
         /\ [f EXCEPT !.sync = b] \in Flags /\ [f EXCEPT !.inSync = b] \in Flags
         /\ [f EXCEPT !.start = b] \in Flags /\ [f EXCEPT !.underflow = b] \in Flags
         /\ [f EXCEPT !.enough = b] \in Flags /\ [f EXCEPT !.doMix = b] \in Flags
         /\ [f EXCEPT !.isWait = b] \in Flags /\ [f EXCEPT !.buf = q] \in Flags
<1> USE DEF Flags
<1>1. [f EXCEPT !.up = b] \in Flags /\ [f EXCEPT !.listed = b] \in Flags
  OBVIOUS
<1>2. [f EXCEPT !.sync = b] \in Flags /\ [f EXCEPT !.inSync = b] \in Flags
  OBVIOUS
<1>3. [f EXCEPT !.start = b] \in Flags /\ [f EXCEPT !.underflow = b] \in Flags
  OBVIOUS
<1>4. [f EXCEPT !.enough = b] \in Flags /\ [f EXCEPT !.doMix = b] \in Flags
  OBVIOUS
<1>5. [f EXCEPT !.isWait = b] \in Flags /\ [f EXCEPT !.buf = q] \in Flags
  OBVIOUS
<1> QED BY <1>1, <1>2, <1>3, <1>4, <1>5

\* No path is well formed,
LEMMA NoPathFlags ==
  NoPath \in Flags
<1>1. <<>> \in Seq(Nat)
  OBVIOUS
<1> QED BY <1>1 DEF NoPath, Flags

\* One path replaced by a well-formed record.
LEMMA PathReplaced ==
  ASSUME PathsOK, NEW x \in Sources, NEW f \in Flags, path' = [path EXCEPT ![x] = f],
         UNCHANGED <<listed, scan>>, todo' \in [{Mixer, Control} -> SUBSET Sources]
  PROVE  PathsOK'
  BY DEF PathsOK

\* and so is a new one.
LEMMA FreshFlags ==
  ASSUME NEW s \in Sources
  PROVE  Fresh(s) \in Flags
<1>1. <<>> \in Seq(Nat) /\ (s \in Sync) \in BOOLEAN
  OBVIOUS
<1>2. \A b \in BOOLEAN : [NoPath EXCEPT !.up = TRUE, !.listed = TRUE, !.sync = b] \in Flags
  BY <1>1, NoPathFlags, FlagsEdited
<1> QED BY <1>1, <1>2, Zenon DEF Fresh

(* The paths after one of them was unlinked.                               *)
LEMMA UnlinkedFlags ==
  ASSUME Inv, NEW p, NEW s \in Sources, Unlink(p, s)
  PROVE  path' \in [Sources -> Flags]
<1>1. ASSUME NEW r \in Sources
      PROVE  /\ path[r] \in Flags /\ [path[r] EXCEPT !.listed = FALSE] \in Flags
             /\ [path[r] EXCEPT !.sync = @ \/ r \in Sync] \in Flags
  <2>1. path[r] \in Flags
    BY DEF Inv, TypeOK, PathsOK
  <2>2. \A b \in BOOLEAN : [path[r] EXCEPT !.sync = b] \in Flags
    BY <2>1 DEF Flags
  <2>3. [path[r] EXCEPT !.listed = FALSE] \in Flags
    BY <2>1 DEF Flags
  <2>4. (path[r].sync \/ r \in Sync) \in BOOLEAN
    OBVIOUS
  <2> QED BY <2>1, <2>2, <2>3, <2>4
<1> QED BY <1>1 DEF Unlink

(* A path that is copied from holds a whole mix.                           *)
LEMMA CopyHasAll ==
  ASSUME Inv, NEW x \in Sources, Copy(x)
  PROVE  TargetSize \in Nat /\ TargetSize <= Len(path[x].buf)
<1>1. path[x].buf \in Seq(Nat) /\ todo[Mixer] \in SUBSET Sources
  BY DEF Inv, TypeOK, PathsOK, Flags
<1>2. pc[Mixer] = "copy" /\ x \in todo[Mixer]
  BY <1>1, FirstIsIn DEF Copy, Visit, At
<1>3. x \in PathList
  BY <1>2 DEF Inv, Roles, Loops
<1> QED BY <1>1, <1>2, <1>3, Sizes DEF Inv, Thick, Mixes, PathList

(* The control points and the locks stay what they can be.                 *)
LEMMA TypesKept ==
  ASSUME Inv, UNCHANGED setup, Move
  PROVE  PointsOK' /\ LocksOK'
<1> USE NameAssumption DEF Inv, TypeOK, Procs, At, Go, Take, Release, locks, hist, PointsOK,
        Works, Away, Writes, Changes, Detaches, Stays, LocksOK
<1>1. ASSUME MixerMove
      PROVE  PointsOK' /\ LocksOK'
  <2>1. ASSUME NEW x \in Sources, SkipsPath(x) \/ Underflows(x) \/ Picks(x) \/ Copy(x) \/
        PassesWriter(x) PROVE PointsOK' /\ LocksOK'
    BY <2>1 DEF SkipsPath, Underflows, Picks, Copy, Visit, PassesWriter
  <2>2. CASE ThreadWake
    BY <2>2 DEF ThreadWake
  <2>3. CASE Launches
    BY <2>3 DEF Launches
  <2>4. CASE GoesIdle
    BY <2>4 DEF GoesIdle
  <2>5. CASE Ends
    BY <2>5 DEF Ends
  <2>6. CASE ThreadLock
    BY <2>6 DEF ThreadLock
  <2>7. CASE LeavesTo("idle", TRUE)
    BY <2>7 DEF LeavesTo
  <2>8. CASE LeavesTo("dead", FALSE)
    BY <2>8 DEF LeavesTo
  <2>9. CASE Enters
    BY <2>9 DEF Enters
  <2>10. CASE MixEnter
    BY <2>10 DEF MixEnter
  <2>11. CASE LooksNoMore("waited")
    BY <2>11 DEF LooksNoMore
  <2>12. CASE LooksNoMore("mixing")
    BY <2>12 DEF LooksNoMore
  <2>13. CASE Pauses("asleep")
    BY <2>13 DEF Pauses
  <2>14. CASE Pauses("waiting")
    BY <2>14 DEF Pauses
  <2>15. CASE Wakes("waiting", "woken")
    BY <2>15 DEF Wakes
  <2>16. CASE Wakes("asleep", "roused")
    BY <2>16 DEF Wakes
  <2>17. CASE MixerTimesOut
    BY <2>17 DEF MixerTimesOut
  <2>18. CASE BreaksOff
    BY <2>18 DEF BreaksOff
  <2>19. CASE TurnsDirect
    BY <2>19 DEF TurnsDirect
  <2>20. CASE LooksAgain
    BY <2>20 DEF LooksAgain
  <2>21. CASE AfterSleep
    BY <2>21 DEF AfterSleep
  <2>22. CASE AwaitDirect
    BY <2>22 DEF AwaitDirect
  <2>23. CASE AfterLook
    BY <2>23 DEF AfterLook
  <2>24. CASE StartMix
    BY <2>24 DEF StartMix
  <2>25. CASE SelectsNone
    BY <2>25 DEF SelectsNone, Chosen
  <2>26. CASE SelectsSome
    BY <2>26 DEF SelectsSome, Chosen
  <2>27. CASE BeginWrite
    BY <2>27 DEF BeginWrite
  <2>28. CASE EndWrite
    BY <2>28 DEF EndWrite
  <2>29. CASE MixDone
    BY <2>29 DEF MixDone
  <2>30. ASSUME NEW x \in Sources, SignalsWriter(x) PROVE PointsOK' /\ LocksOK'
    BY <2>30 DEF SignalsWriter
  <2> HIDE DEF Inv, PointsOK, LocksOK
  <2> QED BY <1>1, <2>1, <2>2, <2>3, <2>4, <2>5, <2>6, <2>7, <2>8, <2>9, <2>10, <2>11, <2>12,
      <2>13, <2>14, <2>15, <2>16, <2>17, <2>18, <2>19, <2>20, <2>21, <2>22, <2>23, <2>24,
      <2>25, <2>26, <2>27, <2>28, <2>29, <2>30 DEF MixerMove
<1>2. ASSUME NEW x \in Sources, SourceMove(x)
      PROVE  PointsOK' /\ LocksOK'
  <2>1. CASE SourceAttach(x)
    BY <2>1 DEF SourceAttach
  <2>2. CASE Knows(x)
    BY <2>2 DEF Knows
  <2>3. CASE Joins(x)
    BY <2>3 DEF Joins, CreatePath, NoPath
  <2>4. CASE CallWrite(x)
    BY <2>4 DEF CallWrite
  <2>5. CASE ChoosesLoud(x, TRUE, "direct")
    BY <2>5 DEF ChoosesLoud, Signals
  <2>6. CASE ChoosesLoud(x, FALSE, "put")
    BY <2>6 DEF ChoosesLoud, Signals
  <2>7. CASE ChoosesSilent(x, TRUE, "direct")
    BY <2>7 DEF ChoosesSilent, Silent
  <2>8. CASE ChoosesSilent(x, FALSE, "put")
    BY <2>8 DEF ChoosesSilent, Silent
  <2>9. CASE TakeDirect(x)
    BY <2>9 DEF TakeDirect
  <2>10. CASE DirectWrite(x)
    BY <2>10 DEF DirectWrite
  <2>11. CASE DirectDone(x)
    BY <2>11 DEF DirectDone
  <2>12. CASE CallPut(x)
    BY <2>12 DEF CallPut
  <2>13. CASE Suspend(x)
    BY <2>13 DEF Suspend
  <2>14. CASE Drop(x)
    BY <2>14 DEF Drop
  <2>15. CASE Fill(x)
    BY <2>15 DEF Fill
  <2>16. CASE SleepsLoud(x)
    BY <2>16 DEF SleepsLoud, Signals
  <2>17. CASE SleepsSilent(x)
    BY <2>17 DEF SleepsSilent
  <2>18. CASE ReturnsLoud(x)
    BY <2>18 DEF ReturnsLoud, Signals
  <2>19. CASE ReturnsSilent(x)
    BY <2>19 DEF ReturnsSilent
  <2>20. CASE Returned(x)
    BY <2>20 DEF Returned
  <2>21. CASE TooLate(x)
    BY <2>21 DEF TooLate
  <2>22. CASE WriteReturns(x)
    BY <2>22 DEF WriteReturns
  <2>23. CASE SourceDetach(x)
    BY <2>23 DEF SourceDetach
  <2>24. CASE SourceUnlink(x)
    BY <2>24 DEF SourceUnlink, Unlink
  <2>25. CASE BroadcastsLoud(x, x)
    BY <2>25 DEF BroadcastsLoud, Signals
  <2>26. CASE BroadcastsSilent(x, x)
    BY <2>26 DEF BroadcastsSilent
  <2>27. CASE Frees(x, "free")
    BY <2>27 DEF Frees, NoPath
  <2>28. CASE Frees(x, "detach")
    BY <2>28 DEF Frees, NoPath
  <2> HIDE DEF Inv, PointsOK, LocksOK
  <2> QED BY <1>2, <2>1, <2>2, <2>3, <2>4, <2>5, <2>6, <2>7, <2>8, <2>9, <2>10, <2>11, <2>12,
      <2>13, <2>14, <2>15, <2>16, <2>17, <2>18, <2>19, <2>20, <2>21, <2>22, <2>23, <2>24,
      <2>25, <2>26, <2>27, <2>28 DEF SourceMove
<1>3. ASSUME ControlMove
      PROVE  PointsOK' /\ LocksOK'
  <2>1. CASE TargetAttach
    BY <2>1 DEF TargetAttach, NoTarget
  <2>2. CASE TakeThread
    BY <2>2 DEF TakeThread
  <2>3. CASE AssignTarget
    BY <2>3 DEF AssignTarget, WakeThread
  <2>4. ASSUME NEW x \in Sources, AttachPath(x) PROVE PointsOK' /\ LocksOK'
    BY <2>4 DEF AttachPath, CreatePath, NoPath
  <2>5. CASE Attached
    BY <2>5 DEF Attached, ReleaseAll
  <2>6. CASE TargetDetach
    BY <2>6 DEF TargetDetach
  <2>7. CASE TakeManager
    BY <2>7 DEF TakeManager
  <2>8. CASE TerminatesLoud
    BY <2>8 DEF TerminatesLoud, Signals
  <2>9. CASE TerminatesSilent
    BY <2>9 DEF TerminatesSilent
  <2>10. CASE AwaitsLock("wait_idle", "thread", "wait_target")
    BY <2>10 DEF AwaitsLock
  <2>11. CASE AwaitsLock("wait_target", "target", "unassign")
    BY <2>11 DEF AwaitsLock
  <2>12. CASE UnassignTarget
    BY <2>12 DEF UnassignTarget
  <2>13. ASSUME NEW x \in Sources, DetachPath(x) PROVE PointsOK' /\ LocksOK'
    BY <2>13 DEF DetachPath, Unlink
  <2>14. ASSUME NEW x \in Sources, BroadcastsLoud(Control, x) PROVE PointsOK' /\ LocksOK'
    BY <2>14 DEF BroadcastsLoud, Signals
  <2>15. ASSUME NEW x \in Sources, BroadcastsSilent(Control, x) PROVE PointsOK' /\ LocksOK'
    BY <2>15 DEF BroadcastsSilent
  <2>16. ASSUME NEW x \in Sources, FreePath(x) PROVE PointsOK' /\ LocksOK'
    BY <2>16 DEF FreePath, NoPath
  <2>17. CASE Detached
    BY <2>17 DEF Detached, ReleaseAll, NoTarget
  <2>18. CASE Deinit
    BY <2>18 DEF Deinit
  <2>19. CASE DeinitSignal
    BY <2>19 DEF DeinitSignal, WakeThread
  <2> HIDE DEF Inv, PointsOK, LocksOK
  <2> QED BY <1>3, <2>1, <2>2, <2>3, <2>4, <2>5, <2>6, <2>7, <2>8, <2>9, <2>10, <2>11, <2>12,
      <2>13, <2>14, <2>15, <2>16, <2>17, <2>18, <2>19 DEF ControlMove
<1> HIDE DEF Inv, PointsOK, LocksOK
<1> QED BY <1>1, <1>2, <1>3 DEF Move

(* Nobody takes or gives back the lock of another.                         *)
LEMMA HoldsKept ==
  ASSUME Inv, UNCHANGED setup, Move
  PROVE  Holds'
<1> USE NameAssumption DEF Inv, TypeOK, Procs, At, Go, Take, Release, locks, hist, Holds,
        PointsOK, Works, Away, Writes, Changes, Detaches, Stays, LocksOK, MixerHolds,
        ControlHolds, SourceHolds
<1>1. ASSUME MixerMove
      PROVE  Holds'
  <2>1. ASSUME NEW x \in Sources, SkipsPath(x) \/ Underflows(x) \/ Picks(x) \/ Copy(x) \/
        SignalsWriter(x) \/ PassesWriter(x) PROVE Holds'
    BY <2>1 DEF SkipsPath, Underflows, Picks, Copy, Visit, SignalsWriter, PassesWriter
  <2>2. CASE ThreadWake
    BY <2>2 DEF ThreadWake
  <2>3. CASE Launches
    BY <2>3 DEF Launches
  <2>4. CASE GoesIdle
    BY <2>4 DEF GoesIdle
  <2>5. CASE Ends
    BY <2>5 DEF Ends
  <2>6. CASE ThreadLock
    BY <2>6 DEF ThreadLock
  <2>7. CASE LeavesTo("idle", TRUE)
    BY <2>7 DEF LeavesTo
  <2>8. CASE LeavesTo("dead", FALSE)
    BY <2>8 DEF LeavesTo
  <2>9. CASE Enters
    BY <2>9 DEF Enters
  <2>10. CASE MixEnter
    BY <2>10 DEF MixEnter
  <2>11. CASE LooksNoMore("waited")
    BY <2>11 DEF LooksNoMore
  <2>12. CASE LooksNoMore("mixing")
    BY <2>12 DEF LooksNoMore
  <2>13. CASE Pauses("asleep")
    BY <2>13 DEF Pauses
  <2>14. CASE Pauses("waiting")
    BY <2>14 DEF Pauses
  <2>15. CASE Wakes("waiting", "woken")
    BY <2>15 DEF Wakes
  <2>16. CASE Wakes("asleep", "roused")
    BY <2>16 DEF Wakes
  <2>17. CASE MixerTimesOut
    BY <2>17 DEF MixerTimesOut
  <2>18. CASE BreaksOff
    BY <2>18 DEF BreaksOff
  <2>19. CASE TurnsDirect
    BY <2>19 DEF TurnsDirect
  <2>20. CASE LooksAgain
    BY <2>20 DEF LooksAgain
  <2>21. CASE AfterSleep
    BY <2>21 DEF AfterSleep
  <2>22. CASE AwaitDirect
    BY <2>22 DEF AwaitDirect
  <2>23. CASE AfterLook
    BY <2>23 DEF AfterLook
  <2>24. CASE StartMix
    BY <2>24 DEF StartMix
  <2>25. CASE SelectsNone
    BY <2>25 DEF SelectsNone, Chosen
  <2>26. CASE SelectsSome
    BY <2>26 DEF SelectsSome, Chosen
  <2>27. CASE BeginWrite
    BY <2>27 DEF BeginWrite
  <2>28. CASE EndWrite
    BY <2>28 DEF EndWrite
  <2>29. CASE MixDone
    BY <2>29 DEF MixDone
  <2> HIDE DEF Inv, Holds, PointsOK, LocksOK
  <2> QED BY <1>1, <2>1, <2>2, <2>3, <2>4, <2>5, <2>6, <2>7, <2>8, <2>9, <2>10, <2>11, <2>12,
      <2>13, <2>14, <2>15, <2>16, <2>17, <2>18, <2>19, <2>20, <2>21, <2>22, <2>23, <2>24,
      <2>25, <2>26, <2>27, <2>28, <2>29 DEF MixerMove
<1>2. ASSUME NEW x \in Sources, SourceMove(x)
      PROVE  Holds'
  <2>1. CASE SourceAttach(x)
    BY <2>1 DEF SourceAttach
  <2>2. CASE Knows(x)
    BY <2>2 DEF Knows
  <2>3. CASE Joins(x)
    BY <2>3 DEF Joins, CreatePath, NoPath
  <2>4. CASE CallWrite(x)
    BY <2>4 DEF CallWrite
  <2>5. CASE ChoosesLoud(x, TRUE, "direct")
    BY <2>5 DEF ChoosesLoud, Signals
  <2>6. CASE ChoosesLoud(x, FALSE, "put")
    BY <2>6 DEF ChoosesLoud, Signals
  <2>7. CASE ChoosesSilent(x, TRUE, "direct")
    BY <2>7 DEF ChoosesSilent, Silent
  <2>8. CASE ChoosesSilent(x, FALSE, "put")
    BY <2>8 DEF ChoosesSilent, Silent
  <2>9. CASE TakeDirect(x)
    BY <2>9 DEF TakeDirect
  <2>10. CASE DirectWrite(x)
    BY <2>10 DEF DirectWrite
  <2>11. CASE DirectDone(x)
    BY <2>11 DEF DirectDone
  <2>12. CASE CallPut(x)
    BY <2>12 DEF CallPut
  <2>13. CASE Suspend(x)
    BY <2>13 DEF Suspend
  <2>14. CASE Drop(x)
    BY <2>14 DEF Drop
  <2>15. CASE Fill(x)
    BY <2>15 DEF Fill
  <2>16. CASE SleepsLoud(x)
    BY <2>16 DEF SleepsLoud, Signals
  <2>17. CASE SleepsSilent(x)
    BY <2>17 DEF SleepsSilent
  <2>18. CASE ReturnsLoud(x)
    BY <2>18 DEF ReturnsLoud, Signals
  <2>19. CASE ReturnsSilent(x)
    BY <2>19 DEF ReturnsSilent
  <2>20. CASE Returned(x)
    BY <2>20 DEF Returned
  <2>21. CASE TooLate(x)
    BY <2>21 DEF TooLate
  <2>22. CASE WriteReturns(x)
    BY <2>22 DEF WriteReturns
  <2>23. CASE SourceDetach(x)
    BY <2>23 DEF SourceDetach
  <2>24. CASE SourceUnlink(x)
    BY <2>24 DEF SourceUnlink, Unlink
  <2>25. CASE BroadcastsLoud(x, x)
    BY <2>25 DEF BroadcastsLoud, Signals
  <2>26. CASE BroadcastsSilent(x, x)
    BY <2>26 DEF BroadcastsSilent
  <2>27. CASE Frees(x, "free")
    BY <2>27 DEF Frees, NoPath
  <2>28. CASE Frees(x, "detach")
    BY <2>28 DEF Frees, NoPath
  <2> HIDE DEF Inv, Holds, PointsOK, LocksOK
  <2> QED BY <1>2, <2>1, <2>2, <2>3, <2>4, <2>5, <2>6, <2>7, <2>8, <2>9, <2>10, <2>11, <2>12,
      <2>13, <2>14, <2>15, <2>16, <2>17, <2>18, <2>19, <2>20, <2>21, <2>22, <2>23, <2>24,
      <2>25, <2>26, <2>27, <2>28 DEF SourceMove
<1>3. ASSUME ControlMove
      PROVE  Holds'
  <2>1. ASSUME NEW x \in Sources, AttachPath(x) PROVE Holds'
    BY <2>1 DEF AttachPath, CreatePath, NoPath
  <2>2. CASE TargetAttach
    BY <2>2 DEF TargetAttach, NoTarget
  <2>3. CASE TakeThread
    BY <2>3 DEF TakeThread
  <2>4. CASE AssignTarget
    BY <2>4 DEF AssignTarget, WakeThread
  <2>5. CASE Attached
    BY <2>5 DEF Attached, ReleaseAll
  <2>6. CASE TargetDetach
    BY <2>6 DEF TargetDetach
  <2>7. CASE TakeManager
    BY <2>7 DEF TakeManager
  <2>8. CASE TerminatesLoud
    BY <2>8 DEF TerminatesLoud, Signals
  <2>9. CASE TerminatesSilent
    BY <2>9 DEF TerminatesSilent
  <2>10. CASE AwaitsLock("wait_idle", "thread", "wait_target")
    BY <2>10 DEF AwaitsLock
  <2>11. CASE AwaitsLock("wait_target", "target", "unassign")
    BY <2>11 DEF AwaitsLock
  <2>12. CASE UnassignTarget
    BY <2>12 DEF UnassignTarget
  <2>13. ASSUME NEW x \in Sources, DetachPath(x) PROVE Holds'
    BY <2>13 DEF DetachPath, Unlink
  <2>14. ASSUME NEW x \in Sources, BroadcastsLoud(Control, x) PROVE Holds'
    BY <2>14 DEF BroadcastsLoud, Signals
  <2>15. ASSUME NEW x \in Sources, BroadcastsSilent(Control, x) PROVE Holds'
    BY <2>15 DEF BroadcastsSilent
  <2>16. ASSUME NEW x \in Sources, FreePath(x) PROVE Holds'
    BY <2>16 DEF FreePath, NoPath
  <2>17. CASE Detached
    BY <2>17 DEF Detached, ReleaseAll, NoTarget
  <2>18. CASE Deinit
    BY <2>18 DEF Deinit
  <2>19. CASE DeinitSignal
    BY <2>19 DEF DeinitSignal, WakeThread
  <2> HIDE DEF Inv, Holds, PointsOK, LocksOK
  <2> QED BY <1>3, <2>1, <2>2, <2>3, <2>4, <2>5, <2>6, <2>7, <2>8, <2>9, <2>10, <2>11, <2>12,
      <2>13, <2>14, <2>15, <2>16, <2>17, <2>18, <2>19 DEF ControlMove
<1> HIDE DEF Inv, Holds, PointsOK, LocksOK
<1> QED BY <1>1, <1>2, <1>3 DEF Move

(* The target, the paths and the loops over them stay in step with Control. *)
LEMMA RolesKept ==
  ASSUME Inv, UNCHANGED setup, Move
  PROVE  Roles'
<1> USE NameAssumption DEF Inv, TypeOK, Procs, At, Go, Take, Release, locks, hist, Roles,
        Holds, PointsOK, Works, Away, Writes, Changes, Detaches, Stays, LocksOK, ThreadOK,
        PathsOK, Flags, Target, Loops, Paths, SourceLock, FreedAt, PathList, MixerHolds,
        ControlHolds, SourceHolds
<1>1. ASSUME MixerMove
      PROVE  Roles'
  <2>1. CASE ThreadWake
    BY <2>1 DEF ThreadWake
  <2>2. CASE Launches
    BY <2>2 DEF Launches
  <2>3. CASE GoesIdle
    BY <2>3 DEF GoesIdle
  <2>4. CASE Ends
    BY <2>4 DEF Ends
  <2>5. CASE ThreadLock
    BY <2>5 DEF ThreadLock
  <2>6. CASE LeavesTo("idle", TRUE)
    BY <2>6 DEF LeavesTo
  <2>7. CASE LeavesTo("dead", FALSE)
    BY <2>7 DEF LeavesTo
  <2>8. CASE Enters
    BY <2>8 DEF Enters
  <2>9. CASE MixEnter
    BY <2>9 DEF MixEnter
  <2>10. CASE LooksNoMore("waited")
    BY <2>10 DEF LooksNoMore
  <2>11. CASE LooksNoMore("mixing")
    BY <2>11 DEF LooksNoMore
  <2>12. CASE Pauses("asleep")
    BY <2>12 DEF Pauses
  <2>13. CASE Pauses("waiting")
    BY <2>13 DEF Pauses
  <2>14. CASE Wakes("waiting", "woken")
    BY <2>14 DEF Wakes
  <2>15. CASE Wakes("asleep", "roused")
    BY <2>15 DEF Wakes
  <2>16. CASE MixerTimesOut
    BY <2>16 DEF MixerTimesOut
  <2>17. CASE BreaksOff
    BY <2>17 DEF BreaksOff
  <2>18. CASE TurnsDirect
    BY <2>18 DEF TurnsDirect
  <2>19. CASE LooksAgain
    BY <2>19 DEF LooksAgain
  <2>20. CASE AfterSleep
    BY <2>20 DEF AfterSleep
  <2>21. CASE AwaitDirect
    BY <2>21 DEF AwaitDirect
  <2>22. CASE AfterLook
    BY <2>22 DEF AfterLook
  <2>23. CASE StartMix
    BY <2>23 DEF StartMix
  <2>24. CASE SelectsNone
    BY <2>24 DEF SelectsNone, Chosen
  <2>25. CASE SelectsSome
    BY <2>25 DEF SelectsSome, Chosen
  <2>26. CASE BeginWrite
    BY <2>26 DEF BeginWrite
  <2>27. CASE EndWrite
    BY <2>27 DEF EndWrite
  <2>28. CASE MixDone
    BY <2>28 DEF MixDone
  <2>29. ASSUME NEW x \in Sources, SkipsPath(x) PROVE Roles'
    BY <2>29 DEF SkipsPath
  <2>30. ASSUME NEW x \in Sources, Underflows(x) PROVE Roles'
    BY <2>30 DEF Underflows
  <2>31. ASSUME NEW x \in Sources, Picks(x) PROVE Roles'
    BY <2>31 DEF Picks
  <2>32. ASSUME NEW x \in Sources, Copy(x) PROVE Roles'
    BY <2>32 DEF Copy, Visit
  <2>33. ASSUME NEW x \in Sources, SignalsWriter(x) PROVE Roles'
    BY <2>33 DEF SignalsWriter
  <2>34. ASSUME NEW x \in Sources, PassesWriter(x) PROVE Roles'
    BY <2>34 DEF PassesWriter
  <2> HIDE DEF Inv, Roles, Holds, PointsOK, LocksOK, ThreadOK, PathsOK
  <2> QED BY <1>1, <2>1, <2>2, <2>3, <2>4, <2>5, <2>6, <2>7, <2>8, <2>9, <2>10, <2>11, <2>12,
      <2>13, <2>14, <2>15, <2>16, <2>17, <2>18, <2>19, <2>20, <2>21, <2>22, <2>23, <2>24,
      <2>25, <2>26, <2>27, <2>28, <2>29, <2>30, <2>31, <2>32, <2>33, <2>34 DEF MixerMove
<1>2. ASSUME NEW x \in Sources, SourceMove(x)
      PROVE  Roles'
  <2>1. CASE SourceAttach(x)
    BY <2>1 DEF SourceAttach
  <2>2. CASE Knows(x)
    BY <2>2 DEF Knows
  <2>3. CASE Joins(x)
    BY <2>3 DEF Joins, CreatePath, NoPath
  <2>4. CASE CallWrite(x)
    BY <2>4 DEF CallWrite
  <2>5. CASE ChoosesLoud(x, TRUE, "direct")
    BY <2>5 DEF ChoosesLoud, Signals
  <2>6. CASE ChoosesLoud(x, FALSE, "put")
    BY <2>6 DEF ChoosesLoud, Signals
  <2>7. CASE ChoosesSilent(x, TRUE, "direct")
    BY <2>7 DEF ChoosesSilent, Silent
  <2>8. CASE ChoosesSilent(x, FALSE, "put")
    BY <2>8 DEF ChoosesSilent, Silent
  <2>9. CASE TakeDirect(x)
    BY <2>9 DEF TakeDirect
  <2>10. CASE DirectWrite(x)
    BY <2>10 DEF DirectWrite
  <2>11. CASE DirectDone(x)
    BY <2>11 DEF DirectDone
  <2>12. CASE CallPut(x)
    BY <2>12 DEF CallPut
  <2>13. CASE Suspend(x)
    BY <2>13 DEF Suspend
  <2>14. CASE Drop(x)
    BY <2>14 DEF Drop
  <2>15. CASE Fill(x)
    BY <2>15 DEF Fill
  <2>16. CASE SleepsLoud(x)
    BY <2>16 DEF SleepsLoud, Signals
  <2>17. CASE SleepsSilent(x)
    BY <2>17 DEF SleepsSilent
  <2>18. CASE ReturnsLoud(x)
    BY <2>18 DEF ReturnsLoud, Signals
  <2>19. CASE ReturnsSilent(x)
    BY <2>19 DEF ReturnsSilent
  <2>20. CASE Returned(x)
    BY <2>20 DEF Returned
  <2>21. CASE TooLate(x)
    BY <2>21 DEF TooLate
  <2>22. CASE WriteReturns(x)
    BY <2>22 DEF WriteReturns
  <2>23. CASE SourceDetach(x)
    BY <2>23 DEF SourceDetach
  <2>24. CASE SourceUnlink(x)
    BY <2>24 DEF SourceUnlink, Unlink
  <2>25. CASE BroadcastsLoud(x, x)
    BY <2>25 DEF BroadcastsLoud, Signals
  <2>26. CASE BroadcastsSilent(x, x)
    BY <2>26 DEF BroadcastsSilent
  <2>27. CASE Frees(x, "free")
    BY <2>27 DEF Frees, NoPath
  <2>28. CASE Frees(x, "detach")
    BY <2>28 DEF Frees, NoPath
  <2> HIDE DEF Inv, Roles, Holds, PointsOK, LocksOK, ThreadOK, PathsOK
  <2> QED BY <1>2, <2>1, <2>2, <2>3, <2>4, <2>5, <2>6, <2>7, <2>8, <2>9, <2>10, <2>11, <2>12,
      <2>13, <2>14, <2>15, <2>16, <2>17, <2>18, <2>19, <2>20, <2>21, <2>22, <2>23, <2>24,
      <2>25, <2>26, <2>27, <2>28 DEF SourceMove
<1>3. ASSUME ControlMove
      PROVE  Roles'
  <2>1. CASE TargetAttach
    BY <2>1 DEF TargetAttach, NoTarget
  <2>2. CASE TakeThread
    BY <2>2 DEF TakeThread
  <2>3. CASE AssignTarget
    BY <2>3 DEF AssignTarget, WakeThread
  <2>4. ASSUME NEW x \in Sources, AttachPath(x) PROVE Roles'
    BY <2>4 DEF AttachPath, CreatePath, NoPath
  <2>5. CASE Attached
    BY <2>5 DEF Attached, ReleaseAll
  <2>6. CASE TargetDetach
    BY <2>6 DEF TargetDetach
  <2>7. CASE TakeManager
    BY <2>7 DEF TakeManager
  <2>8. CASE TerminatesLoud
    BY <2>8 DEF TerminatesLoud, Signals
  <2>9. CASE TerminatesSilent
    BY <2>9 DEF TerminatesSilent
  <2>10. CASE AwaitsLock("wait_idle", "thread", "wait_target")
    BY <2>10 DEF AwaitsLock
  <2>11. CASE AwaitsLock("wait_target", "target", "unassign")
    BY <2>11 DEF AwaitsLock
  <2>12. CASE UnassignTarget
    BY <2>12 DEF UnassignTarget
  <2>13. ASSUME NEW x \in Sources, DetachPath(x) PROVE Roles'
    BY <2>13 DEF DetachPath, Unlink
  <2>14. ASSUME NEW x \in Sources, BroadcastsLoud(Control, x) PROVE Roles'
    BY <2>14 DEF BroadcastsLoud, Signals
  <2>15. ASSUME NEW x \in Sources, BroadcastsSilent(Control, x) PROVE Roles'
    BY <2>15 DEF BroadcastsSilent
  <2>16. ASSUME NEW x \in Sources, FreePath(x) PROVE Roles'
    BY <2>16 DEF FreePath, NoPath
  <2>17. CASE Detached
    BY <2>17 DEF Detached, ReleaseAll, NoTarget
  <2>18. CASE Deinit
    BY <2>18 DEF Deinit
  <2>19. CASE DeinitSignal
    BY <2>19 DEF DeinitSignal, WakeThread
  <2> HIDE DEF Inv, Roles, Holds, PointsOK, LocksOK, ThreadOK, PathsOK
  <2> QED BY <1>3, <2>1, <2>2, <2>3, <2>4, <2>5, <2>6, <2>7, <2>8, <2>9, <2>10, <2>11, <2>12,
      <2>13, <2>14, <2>15, <2>16, <2>17, <2>18, <2>19 DEF ControlMove
<1> HIDE DEF Inv, Roles, Holds, PointsOK, LocksOK, ThreadOK, PathsOK
<1> QED BY <1>1, <1>2, <1>3 DEF Move

(* No launch, change of mode or exit is slept through.                     *)
LEMMA AwakeKept ==
  ASSUME Inv, UNCHANGED setup, Move
  PROVE  ThreadOK' /\ Awake'
<1> USE NameAssumption DEF Inv, TypeOK, Procs, At, Go, Take, Release, locks, hist, Awake,
        Roles, PointsOK, Works, Away, Writes, Changes, Detaches, Stays, LocksOK, ThreadOK,
        Sleeps, NotLeftAsleep, LaunchNotLost, Target
<1>1. ASSUME MixerMove
      PROVE  ThreadOK' /\ Awake'
  <2>1. ASSUME NEW x \in Sources, SkipsPath(x) \/ Underflows(x) \/ Picks(x) \/ Copy(x) \/
        SignalsWriter(x) \/ PassesWriter(x) PROVE ThreadOK' /\ Awake'
    BY <2>1 DEF SkipsPath, Underflows, Picks, Copy, Visit, SignalsWriter, PassesWriter
  <2>2. CASE ThreadWake
    BY <2>2 DEF ThreadWake
  <2>3. CASE Launches
    BY <2>3 DEF Launches
  <2>4. CASE GoesIdle
    BY <2>4 DEF GoesIdle
  <2>5. CASE Ends
    BY <2>5 DEF Ends
  <2>6. CASE ThreadLock
    BY <2>6 DEF ThreadLock
  <2>7. CASE LeavesTo("idle", TRUE)
    BY <2>7 DEF LeavesTo
  <2>8. CASE LeavesTo("dead", FALSE)
    BY <2>8 DEF LeavesTo
  <2>9. CASE Enters
    BY <2>9 DEF Enters
  <2>10. CASE MixEnter
    BY <2>10 DEF MixEnter
  <2>11. CASE LooksNoMore("waited")
    BY <2>11 DEF LooksNoMore
  <2>12. CASE LooksNoMore("mixing")
    BY <2>12 DEF LooksNoMore
  <2>13. CASE Pauses("asleep")
    BY <2>13 DEF Pauses
  <2>14. CASE Pauses("waiting")
    BY <2>14 DEF Pauses
  <2>15. CASE Wakes("waiting", "woken")
    BY <2>15 DEF Wakes
  <2>16. CASE Wakes("asleep", "roused")
    BY <2>16 DEF Wakes
  <2>17. CASE MixerTimesOut
    BY <2>17 DEF MixerTimesOut
  <2>18. CASE BreaksOff
    BY <2>18 DEF BreaksOff
  <2>19. CASE TurnsDirect
    BY <2>19 DEF TurnsDirect
  <2>20. CASE LooksAgain
    BY <2>20 DEF LooksAgain
  <2>21. CASE AfterSleep
    BY <2>21 DEF AfterSleep
  <2>22. CASE AwaitDirect
    BY <2>22 DEF AwaitDirect
  <2>23. CASE AfterLook
    BY <2>23 DEF AfterLook
  <2>24. CASE StartMix
    BY <2>24 DEF StartMix
  <2>25. CASE SelectsNone
    BY <2>25 DEF SelectsNone, Chosen
  <2>26. CASE SelectsSome
    BY <2>26 DEF SelectsSome, Chosen
  <2>27. CASE BeginWrite
    BY <2>27 DEF BeginWrite
  <2>28. CASE EndWrite
    BY <2>28 DEF EndWrite
  <2>29. CASE MixDone
    BY <2>29 DEF MixDone
  <2> HIDE DEF Inv, Awake, Roles, PointsOK, LocksOK, ThreadOK
  <2> QED BY <1>1, <2>1, <2>2, <2>3, <2>4, <2>5, <2>6, <2>7, <2>8, <2>9, <2>10, <2>11, <2>12,
      <2>13, <2>14, <2>15, <2>16, <2>17, <2>18, <2>19, <2>20, <2>21, <2>22, <2>23, <2>24,
      <2>25, <2>26, <2>27, <2>28, <2>29 DEF MixerMove
<1>2. ASSUME NEW x \in Sources, SourceMove(x)
      PROVE  ThreadOK' /\ Awake'
  <2>1. CASE SourceAttach(x)
    BY <2>1 DEF SourceAttach
  <2>2. CASE Knows(x)
    BY <2>2 DEF Knows
  <2>3. CASE Joins(x)
    BY <2>3 DEF Joins, CreatePath, NoPath
  <2>4. CASE CallWrite(x)
    BY <2>4 DEF CallWrite
  <2>5. CASE ChoosesLoud(x, TRUE, "direct")
    BY <2>5 DEF ChoosesLoud, Signals
  <2>6. CASE ChoosesLoud(x, FALSE, "put")
    <3>1. pc'[Mixer] = pc[Mixer] /\ pc'[Control] = pc[Control] /\ thread' = thread
      BY <2>6 DEF ChoosesLoud
    <3>2. /\ target' = [target EXCEPT !.waitToMix = FALSE, !.direct = FALSE]
          /\ cond' = [cond EXCEPT !.mix = 1]
      BY <2>6 DEF ChoosesLoud, Signals
    <3>3. /\ target'.exit = target.exit /\ ~target'.waitToMix /\ ~target'.direct
          /\ cond'.mix = 1 /\ cond'.thread = cond.thread
      BY <3>1, <3>2
    <3>4. ThreadOK'
      BY <3>1, <3>2
    <3>5. Awake'
      <4> HIDE DEF LocksOK, ThreadOK
      <4> QED BY <3>1, <3>3
    <3> QED BY <3>4, <3>5
  <2>7. CASE ChoosesSilent(x, TRUE, "direct")
    BY <2>7 DEF ChoosesSilent, Silent
  <2>8. CASE ChoosesSilent(x, FALSE, "put")
    <3>1. pc'[Mixer] = pc[Mixer] /\ pc'[Control] = pc[Control] /\ thread' = thread /\ cond' = cond
      BY <2>8 DEF ChoosesSilent, Silent
    <3>2. target' = [target EXCEPT !.direct = FALSE] /\ (~target.waitToMix \/ ~target.direct)
      BY <2>8 DEF ChoosesSilent, Silent
    <3>3. /\ target'.exit = target.exit /\ target'.waitToMix = target.waitToMix /\ ~target'.direct
          /\ ~target.waitToMix \/ ~target.direct
      BY <3>1, <3>2
    <3>4. ThreadOK'
      BY <3>1, <3>2
    <3>5. Awake'
      <4> HIDE DEF LocksOK, ThreadOK
      <4> QED BY <3>1, <3>3
    <3> QED BY <3>4, <3>5
  <2>9. CASE TakeDirect(x)
    BY <2>9 DEF TakeDirect
  <2>10. CASE DirectWrite(x)
    BY <2>10 DEF DirectWrite
  <2>11. CASE DirectDone(x)
    BY <2>11 DEF DirectDone
  <2>12. CASE CallPut(x)
    BY <2>12 DEF CallPut
  <2>13. CASE Suspend(x)
    BY <2>13 DEF Suspend
  <2>14. CASE Drop(x)
    BY <2>14 DEF Drop
  <2>15. CASE Fill(x)
    BY <2>15 DEF Fill
  <2>16. CASE SleepsLoud(x)
    BY <2>16 DEF SleepsLoud, Signals
  <2>17. CASE SleepsSilent(x)
    BY <2>17 DEF SleepsSilent
  <2>18. CASE ReturnsLoud(x)
    BY <2>18 DEF ReturnsLoud, Signals
  <2>19. CASE ReturnsSilent(x)
    BY <2>19 DEF ReturnsSilent
  <2>20. CASE Returned(x)
    BY <2>20 DEF Returned
  <2>21. CASE TooLate(x)
    BY <2>21 DEF TooLate
  <2>22. CASE WriteReturns(x)
    BY <2>22 DEF WriteReturns
  <2>23. CASE SourceDetach(x)
    BY <2>23 DEF SourceDetach
  <2>24. CASE SourceUnlink(x)
    <3>1. pc'[Mixer] = pc[Mixer] /\ pc'[Control] = pc[Control] /\ thread' = thread /\ cond' = cond
      BY <2>24 DEF SourceUnlink, Unlink
    <3>2. PICK b \in BOOLEAN : target' = [target EXCEPT !.start = b]
      <4>1. (target.start /\ PathList \ {x} # {}) \in BOOLEAN
        OBVIOUS
      <4>2. target' = [target EXCEPT !.start = target.start /\ PathList \ {x} # {}]
        BY <2>24 DEF SourceUnlink, Unlink
      <4> QED BY <4>1, <4>2, Zenon
    <3> QED BY <3>1, <3>2
  <2>25. CASE BroadcastsLoud(x, x)
    BY <2>25 DEF BroadcastsLoud, Signals
  <2>26. CASE BroadcastsSilent(x, x)
    BY <2>26 DEF BroadcastsSilent
  <2>27. CASE Frees(x, "free")
    BY <2>27 DEF Frees, NoPath
  <2>28. CASE Frees(x, "detach")
    BY <2>28 DEF Frees, NoPath
  <2> HIDE DEF Inv, Awake, Roles, PointsOK, LocksOK, ThreadOK
  <2> QED BY <1>2, <2>1, <2>2, <2>3, <2>4, <2>5, <2>6, <2>7, <2>8, <2>9, <2>10, <2>11, <2>12,
      <2>13, <2>14, <2>15, <2>16, <2>17, <2>18, <2>19, <2>20, <2>21, <2>22, <2>23, <2>24,
      <2>25, <2>26, <2>27, <2>28 DEF SourceMove
<1>3. ASSUME ControlMove
      PROVE  ThreadOK' /\ Awake'
  <2>1. ASSUME NEW x \in Sources, AttachPath(x) PROVE ThreadOK' /\ Awake'
    BY <2>1 DEF AttachPath, CreatePath, NoPath
  <2>2. CASE TargetAttach
    BY <2>2 DEF TargetAttach, NoTarget
  <2>3. CASE TakeThread
    BY <2>3 DEF TakeThread
  <2>4. CASE AssignTarget
    BY <2>4 DEF AssignTarget, WakeThread
  <2>5. CASE Attached
    BY <2>5 DEF Attached, ReleaseAll
  <2>6. CASE TargetDetach
    BY <2>6 DEF TargetDetach
  <2>7. CASE TakeManager
    BY <2>7 DEF TakeManager
  <2>8. CASE TerminatesLoud
    <3>1. pc'[Mixer] = pc[Mixer] /\ pc'[Control] = "wait_idle" /\ thread' = thread
      BY <2>8 DEF TerminatesLoud
    <3>2. /\ target' = [target EXCEPT !.waitToMix = FALSE, !.direct = target.direct]
          /\ cond' = [cond EXCEPT !.mix = 1]
      BY <2>8 DEF TerminatesLoud, Signals
    <3>3. /\ target'.exit = target.exit /\ ~target'.waitToMix /\ target'.direct = target.direct
          /\ cond'.mix = 1 /\ cond'.thread = cond.thread
      BY <3>1, <3>2
    <3>4. ThreadOK'
      BY <3>1, <3>2
    <3>5. Awake'
      <4> HIDE DEF LocksOK, ThreadOK
      <4> QED BY <3>1, <3>3
    <3> QED BY <3>4, <3>5
  <2>9. CASE TerminatesSilent
    BY <2>9 DEF TerminatesSilent
  <2>10. CASE AwaitsLock("wait_idle", "thread", "wait_target")
    BY <2>10 DEF AwaitsLock
  <2>11. CASE AwaitsLock("wait_target", "target", "unassign")
    BY <2>11 DEF AwaitsLock
  <2>12. CASE UnassignTarget
    BY <2>12 DEF UnassignTarget
  <2>13. ASSUME NEW x \in Sources, DetachPath(x) PROVE ThreadOK' /\ Awake'
    BY <2>13 DEF DetachPath, Unlink
  <2>14. ASSUME NEW x \in Sources, BroadcastsLoud(Control, x) PROVE ThreadOK' /\ Awake'
    BY <2>14 DEF BroadcastsLoud, Signals
  <2>15. ASSUME NEW x \in Sources, BroadcastsSilent(Control, x) PROVE ThreadOK' /\ Awake'
    BY <2>15 DEF BroadcastsSilent
  <2>16. ASSUME NEW x \in Sources, FreePath(x) PROVE ThreadOK' /\ Awake'
    BY <2>16 DEF FreePath, NoPath
  <2>17. CASE Detached
    BY <2>17 DEF Detached, ReleaseAll, NoTarget
  <2>18. CASE Deinit
    BY <2>18 DEF Deinit
  <2>19. CASE DeinitSignal
    BY <2>19 DEF DeinitSignal, WakeThread
  <2> HIDE DEF Inv, Awake, Roles, PointsOK, LocksOK, ThreadOK
  <2> QED BY <1>3, <2>1, <2>2, <2>3, <2>4, <2>5, <2>6, <2>7, <2>8, <2>9, <2>10, <2>11, <2>12,
      <2>13, <2>14, <2>15, <2>16, <2>17, <2>18, <2>19 DEF ControlMove
<1> HIDE DEF Inv, Awake, Roles, PointsOK, LocksOK, ThreadOK
<1> QED BY <1>1, <1>2, <1>3 DEF Move

(* The paths stay well formed,                                             *)
LEMMA PathsKept ==
  ASSUME Inv, UNCHANGED setup, Move
  PROVE  PathsOK'
<1> USE NameAssumption DEF Inv, TypeOK, Procs, At, Go, Take, Release, locks, hist, PathsOK,
        Flags, PathList
<1>1. ASSUME MixerMove
      PROVE  PathsOK'
  <2>1. CASE ThreadWake \/ Launches \/ GoesIdle \/ Ends \/ ThreadLock \/
        LeavesTo("idle", TRUE) \/ LeavesTo("dead", FALSE) \/ Enters \/
        LooksNoMore("waited") \/ LooksNoMore("mixing")
    BY <2>1 DEF ThreadWake, Launches, GoesIdle, Ends, ThreadLock, LeavesTo, Enters, LooksNoMore
  <2>2. CASE Pauses("asleep") \/ Pauses("waiting") \/ Wakes("waiting", "woken") \/
        Wakes("asleep", "roused") \/ MixerTimesOut \/ AfterSleep \/ AfterLook \/ BeginWrite \/
        MixDone
    BY <2>2 DEF Pauses, Wakes, MixerTimesOut, AfterSleep, AfterLook, BeginWrite, MixDone
  <2>3. CASE MixEnter
    BY <2>3 DEF MixEnter
  <2>4. CASE BreaksOff
    BY <2>4 DEF BreaksOff
  <2>5. CASE TurnsDirect
    BY <2>5 DEF TurnsDirect
  <2>6. CASE LooksAgain
    BY <2>6 DEF LooksAgain
  <2>7. CASE AwaitDirect
    BY <2>7 DEF AwaitDirect
  <2>8. CASE StartMix
    BY <2>8 DEF StartMix
  <2>9. CASE SelectsNone
    BY <2>9 DEF SelectsNone, Chosen
  <2>10. CASE SelectsSome
    BY <2>10 DEF SelectsSome, Chosen
  <2>11. CASE EndWrite
    BY <2>11 DEF EndWrite
  <2>12. ASSUME NEW x \in Sources, SkipsPath(x) PROVE PathsOK'
    BY <2>12 DEF SkipsPath
  <2>13. ASSUME NEW x \in Sources, Underflows(x) PROVE PathsOK'
    <3>1. PathsOK /\ path[x] \in Flags
      BY DEF Inv, TypeOK, PathsOK
    <3> DEFINE f == [path[x] EXCEPT !.start = FALSE, !.underflow = TRUE]
    <3>2. f \in Flags
      BY <3>1 DEF Flags
    <3> QED BY <2>13, <3>1, <3>2, PathReplaced DEF Underflows, PathsOK
  <2>14. ASSUME NEW x \in Sources, Picks(x) PROVE PathsOK'
    <3>1. PathsOK /\ path[x] \in Flags
      BY DEF Inv, TypeOK, PathsOK
    <3> DEFINE f == [path[x] EXCEPT !.doMix = TRUE]
    <3>2. f \in Flags
      BY <3>1 DEF Flags
    <3> QED BY <2>14, <3>1, <3>2, PathReplaced DEF Picks, PathsOK
  <2>15. ASSUME NEW x \in Sources, Copy(x) PROVE PathsOK'
    <3>1. PathsOK /\ path[x] \in Flags /\ path[x].buf \in Seq(Nat)
      BY DEF Inv, TypeOK, PathsOK, Flags
    <3>2. TargetSize \in Nat /\ TargetSize <= Len(path[x].buf)
      BY <2>15, CopyHasAll
    <3> DEFINE rest == SubSeq(path[x].buf, TargetSize + 1, Len(path[x].buf))
               f == [path[x] EXCEPT !.buf = rest, !.enough = @ /\ Len(rest) >= TargetSize]
    <3>3. rest \in Seq(Nat)
      BY <3>1, <3>2, Cut
    <3>4. f \in Flags
      BY <3>1, <3>3 DEF Flags
    <3>5. path' = [path EXCEPT ![x] = f] /\ UNCHANGED <<listed, scan>>
      BY <2>15 DEF Copy, Visit
    <3>6. todo' \in [{Mixer, Control} -> SUBSET Sources]
      BY <2>15, <3>1 DEF PathsOK, Copy, Visit
    <3> QED BY <3>1, <3>4, <3>5, <3>6, PathReplaced
  <2>16. ASSUME NEW x \in Sources, SignalsWriter(x) PROVE PathsOK'
    <3>1. PathsOK /\ path[x] \in Flags
      BY DEF Inv, TypeOK, PathsOK
    <3> DEFINE f == [path[x] EXCEPT !.doMix = FALSE, !.isWait = FALSE]
    <3>2. f \in Flags
      BY <3>1 DEF Flags
    <3> QED BY <2>16, <3>1, <3>2, PathReplaced DEF SignalsWriter, PathsOK
  <2>17. ASSUME NEW x \in Sources, PassesWriter(x) PROVE PathsOK'
    <3>1. PathsOK /\ path[x] \in Flags
      BY DEF Inv, TypeOK, PathsOK
    <3> DEFINE f == [path[x] EXCEPT !.doMix = FALSE]
    <3>2. f \in Flags
      BY <3>1 DEF Flags
    <3> QED BY <2>17, <3>1, <3>2, PathReplaced DEF PassesWriter, PathsOK
  <2> HIDE DEF Inv, PathsOK
  <2> QED BY <1>1, <2>1, <2>2, <2>3, <2>4, <2>5, <2>6, <2>7, <2>8, <2>9, <2>10, <2>11, <2>12,
      <2>13, <2>14, <2>15, <2>16, <2>17 DEF MixerMove
<1>2. ASSUME NEW x \in Sources, SourceMove(x)
      PROVE  PathsOK'
  <2>1. CASE SourceAttach(x) \/ CallWrite(x) \/ ChoosesLoud(x, TRUE, "direct") \/
        ChoosesLoud(x, FALSE, "put") \/ ChoosesSilent(x, TRUE, "direct") \/
        ChoosesSilent(x, FALSE, "put") \/ TakeDirect(x) \/ DirectDone(x) \/ Drop(x) \/
        SleepsLoud(x)
    BY <2>1 DEF SourceAttach, CallWrite, ChoosesLoud, Signals, ChoosesSilent, Silent, TakeDirect,
        DirectDone, Drop, SleepsLoud
  <2>2. CASE SleepsSilent(x) \/ ReturnsLoud(x) \/ ReturnsSilent(x) \/ Returned(x) \/
        TooLate(x) \/ SourceDetach(x) \/ BroadcastsLoud(x, x) \/ BroadcastsSilent(x, x)
    BY <2>2 DEF SleepsSilent, ReturnsLoud, Signals, ReturnsSilent, Returned, TooLate,
        SourceDetach, BroadcastsLoud, BroadcastsSilent
  <2>3. CASE Knows(x)
    BY <2>3 DEF Knows
  <2>4. CASE Joins(x)
    <3>1. PathsOK /\ Fresh(x) \in Flags
      BY FreshFlags DEF Inv, TypeOK
    <3>2. path' \in [Sources -> Flags]
      BY <2>4, <3>1 DEF PathsOK, Joins, CreatePath, Fresh
    <3> QED BY <2>4, <3>1, <3>2 DEF Joins, PathsOK
  <2>5. CASE DirectWrite(x)
    <3>1. PathsOK /\ path[x] \in Flags
      BY DEF Inv, TypeOK, PathsOK
    <3> DEFINE f == [path[x] EXCEPT !.start = TRUE, !.underflow = FALSE, !.enough = FALSE, !.isWait = FALSE]
    <3>2. f \in Flags
      BY <3>1 DEF Flags
    <3>3. path' = [path EXCEPT ![x] = f]
      BY <2>5, <3>1 DEF DirectWrite, PathsOK, Flags
    <3> QED BY <2>5, <3>1, <3>2, <3>3, PathReplaced DEF DirectWrite, PathsOK
  <2>6. CASE CallPut(x)
    <3> HIDE DEF Inv, TypeOK, PathsOK, Flags, PathList
    <3>1. PathsOK /\ path[x] \in Flags
      BY DEF Inv, TypeOK, PathsOK
    <3> DEFINE sync == path[x].sync /\ ~(path[x].underflow /\ Cardinality(PathList) > 1)
               f(b) == [path[x] EXCEPT !.sync = b, !.inSync = b]
    <3>2. \A b \in BOOLEAN : f(b) \in Flags
      BY <3>1 DEF Flags
    <3>3. path' = [path EXCEPT ![x] = f(sync)]
      BY <2>6, <3>1 DEF CallPut, PathsOK, Flags
    <3>4. sync \in BOOLEAN
      OBVIOUS
    <3> HIDE DEF f, sync
    <3> QED BY <2>6, <3>1, <3>2, <3>3, <3>4, PathReplaced DEF CallPut, PathsOK
  <2>7. CASE Suspend(x)
    <3>1. PathsOK /\ path[x] \in Flags
      BY DEF Inv, TypeOK, PathsOK
    <3> DEFINE f == [path[x] EXCEPT !.start = FALSE]
    <3>2. f \in Flags
      BY <3>1 DEF Flags
    <3>3. path' = [path EXCEPT ![x] = f]
      BY <2>7, <3>1 DEF Suspend, PathsOK, Flags
    <3> QED BY <2>7, <3>1, <3>2, <3>3, PathReplaced DEF Suspend, PathsOK
  <2>8. CASE Fill(x)
    <3> HIDE DEF Inv, TypeOK, PathsOK, Flags, PathList
    <3>1. PathsOK /\ DataOK /\ path[x] \in Flags /\ path[x].buf \in Seq(Nat)
      BY DEF Inv, TypeOK, PathsOK, Flags
    <3> DEFINE buf == path[x].buf \o [n \in 1..Size[x] |-> written[x]]
               enough == Len(buf) >= TargetSize
               f(wait) == [path[x] EXCEPT !.buf = buf, !.start = @ \/ enough,
                             !.underflow = @ /\ ~enough, !.enough = @ \/ enough, !.isWait = wait]
    <3>2. buf \in Seq(Nat)
      <4>1. Size[x] \in Nat /\ written[x] \in Nat
        BY <3>1, Sizes DEF DataOK
      <4> QED BY <3>1, <4>1, Chunk
    <3>3. PICK wait \in BOOLEAN : path' = [path EXCEPT ![x] = f(wait)]
      BY <2>8 DEF Fill
    <3>4. f(wait) \in Flags
      <4> HIDE DEF buf, enough
      <4>1. /\ (path[x].start \/ enough) \in BOOLEAN /\ (path[x].underflow /\ ~enough) \in BOOLEAN
            /\ (path[x].enough \/ enough) \in BOOLEAN
        OBVIOUS
      <4>2. \A a, b, c, d \in BOOLEAN : [path[x] EXCEPT !.buf = buf, !.start = a, !.underflow = b,
                                                        !.enough = c, !.isWait = d] \in Flags
        BY <3>1, <3>2, FlagsEdited
      <4> QED BY <4>1, <4>2, Zenon
    <3>5. todo' \in [{Mixer, Control} -> SUBSET Sources]
      BY <2>8, <3>1 DEF PathsOK, Fill
    <3> HIDE DEF f
    <3> QED BY <2>8, <3>1, <3>3, <3>4, <3>5, PathReplaced DEF Fill
  <2>9. CASE WriteReturns(x)
    <3>1. PathsOK /\ path[x] \in Flags
      BY DEF Inv, TypeOK, PathsOK
    <3> DEFINE f == [path[x] EXCEPT !.isWait = FALSE]
    <3>2. f \in Flags
      BY <3>1 DEF Flags
    <3>3. path' = [path EXCEPT ![x] = f]
      BY <2>9, <3>1 DEF WriteReturns, PathsOK, Flags
    <3> QED BY <2>9, <3>1, <3>2, <3>3, PathReplaced DEF WriteReturns, PathsOK
  <2>10. CASE SourceUnlink(x)
    <3>1. path' \in [Sources -> Flags]
      BY <2>10, UnlinkedFlags DEF SourceUnlink
    <3> QED BY <2>10, <3>1 DEF SourceUnlink, Unlink, Inv, TypeOK, PathsOK
  <2>11. CASE Frees(x, "free")
    BY <2>11 DEF Frees, NoPath
  <2>12. CASE Frees(x, "detach")
    BY <2>12 DEF Frees, NoPath
  <2> HIDE DEF Inv, PathsOK
  <2> QED BY <1>2, <2>1, <2>2, <2>3, <2>4, <2>5, <2>6, <2>7, <2>8, <2>9, <2>10, <2>11, <2>12 DEF SourceMove
<1>3. ASSUME ControlMove
      PROVE  PathsOK'
  <2>1. CASE TargetAttach \/ TakeThread \/ Attached \/ TargetDetach \/ TakeManager \/
        TerminatesLoud \/ TerminatesSilent \/
        AwaitsLock("wait_idle", "thread", "wait_target") \/
        AwaitsLock("wait_target", "target", "unassign") \/ Detached
    BY <2>1 DEF TargetAttach, NoTarget, TakeThread, Attached, ReleaseAll, TargetDetach,
        TakeManager, TerminatesLoud, Signals, TerminatesSilent, AwaitsLock, Detached
  <2>2. CASE Deinit \/ DeinitSignal
    BY <2>2 DEF Deinit, DeinitSignal, WakeThread
  <2>3. ASSUME NEW x \in Sources, BroadcastsLoud(Control, x) \/ BroadcastsSilent(Control, x) PROVE PathsOK'
    BY <2>3 DEF BroadcastsLoud, Signals, BroadcastsSilent
  <2>4. CASE AssignTarget
    BY <2>4 DEF AssignTarget, WakeThread
  <2>5. ASSUME NEW x \in Sources, AttachPath(x) PROVE PathsOK'
    <3>1. PathsOK /\ Fresh(x) \in Flags
      BY FreshFlags DEF Inv, TypeOK
    <3>2. path' \in [Sources -> Flags]
      BY <2>5, <3>1 DEF PathsOK, AttachPath, CreatePath, Fresh
    <3> QED BY <2>5, <3>1, <3>2 DEF AttachPath, PathsOK
  <2>6. CASE UnassignTarget
    BY <2>6 DEF UnassignTarget
  <2>7. ASSUME NEW x \in Sources, DetachPath(x) PROVE PathsOK'
    <3>1. path' \in [Sources -> Flags]
      BY <2>7, UnlinkedFlags DEF DetachPath
    <3> QED BY <2>7, <3>1 DEF DetachPath, Unlink, Inv, TypeOK, PathsOK
  <2>8. ASSUME NEW x \in Sources, FreePath(x) PROVE PathsOK'
    BY <2>8 DEF FreePath, NoPath
  <2> HIDE DEF Inv, PathsOK
  <2> QED BY <1>3, <2>1, <2>2, <2>3, <2>4, <2>5, <2>6, <2>7, <2>8 DEF ControlMove
<1> HIDE DEF Inv, PathsOK
<1> QED BY <1>1, <1>2, <1>3 DEF Move

(* and so does the data.                                                   *)
LEMMA DataKept ==
  ASSUME Inv, UNCHANGED setup, Move
  PROVE  DataOK'
<1> USE NameAssumption DEF Inv, TypeOK, Procs, At, Go, Take, Release, locks, hist, DataOK,
        PathsOK, Flags
<1>1. ASSUME MixerMove
      PROVE  DataOK'
  <2>1. CASE ThreadWake \/ Launches \/ GoesIdle \/ Ends \/ ThreadLock \/
        LeavesTo("idle", TRUE) \/ LeavesTo("dead", FALSE) \/ Enters \/ MixEnter \/
        LooksNoMore("waited")
    BY <2>1 DEF ThreadWake, Launches, GoesIdle, Ends, ThreadLock, LeavesTo, Enters, MixEnter,
        LooksNoMore
  <2>2. CASE LooksNoMore("mixing") \/ Pauses("asleep") \/ Pauses("waiting") \/
        Wakes("waiting", "woken") \/ Wakes("asleep", "roused") \/ MixerTimesOut \/
        BreaksOff \/ TurnsDirect \/ LooksAgain \/ AfterSleep
    BY <2>2 DEF LooksNoMore, Pauses, Wakes, MixerTimesOut, BreaksOff, TurnsDirect, LooksAgain,
        AfterSleep
  <2>3. CASE AwaitDirect \/ AfterLook \/ SelectsNone \/ SelectsSome \/ EndWrite \/ MixDone
    BY <2>3 DEF AwaitDirect, AfterLook, SelectsNone, Chosen, SelectsSome, EndWrite, MixDone
  <2>4. ASSUME NEW x \in Sources, SkipsPath(x) \/ Underflows(x) \/ Picks(x) \/
        SignalsWriter(x) \/ PassesWriter(x) PROVE DataOK'
    BY <2>4 DEF SkipsPath, Underflows, Picks, SignalsWriter, PassesWriter
  <2>5. CASE StartMix
    BY <2>5 DEF StartMix
  <2>6. CASE BeginWrite
    BY <2>6 DEF BeginWrite
  <2>7. ASSUME NEW x \in Sources, Copy(x) PROVE DataOK'
    <3>1. path[x].buf \in Seq(Nat)
      BY DEF Inv, TypeOK, PathsOK, Flags
    <3>2. TargetSize \in Nat /\ TargetSize <= Len(path[x].buf)
      BY <2>7, CopyHasAll
    <3>3. SubSeq(path[x].buf, 1, TargetSize) \in Seq(Nat)
      BY <3>1, <3>2, Cut
    <3> QED BY <2>7, <3>3 DEF Inv, TypeOK, DataOK, Copy, Visit, hist
  <2> HIDE DEF Inv, DataOK, PathsOK
  <2> QED BY <1>1, <2>1, <2>2, <2>3, <2>4, <2>5, <2>6, <2>7 DEF MixerMove
<1>2. ASSUME NEW x \in Sources, SourceMove(x)
      PROVE  DataOK'
  <2>1. CASE SourceAttach(x) \/ Knows(x) \/ Joins(x) \/ ChoosesLoud(x, TRUE, "direct") \/
        ChoosesLoud(x, FALSE, "put") \/ ChoosesSilent(x, TRUE, "direct") \/
        ChoosesSilent(x, FALSE, "put") \/ TakeDirect(x) \/ DirectDone(x) \/ CallPut(x)
    BY <2>1 DEF SourceAttach, Knows, Joins, CreatePath, NoPath, ChoosesLoud, Signals,
        ChoosesSilent, Silent, TakeDirect, DirectDone, CallPut
  <2>2. CASE Suspend(x) \/ Drop(x) \/ Fill(x) \/ SleepsLoud(x) \/ SleepsSilent(x) \/
        ReturnsLoud(x) \/ ReturnsSilent(x) \/ Returned(x) \/ TooLate(x) \/ WriteReturns(x)
    BY <2>2 DEF Suspend, Drop, Fill, SleepsLoud, Signals, SleepsSilent, ReturnsLoud,
        ReturnsSilent, Returned, TooLate, WriteReturns
  <2>3. CASE SourceDetach(x) \/ SourceUnlink(x) \/ BroadcastsLoud(x, x) \/
        BroadcastsSilent(x, x) \/ Frees(x, "free") \/ Frees(x, "detach")
    BY <2>3 DEF SourceDetach, SourceUnlink, Unlink, BroadcastsLoud, Signals, BroadcastsSilent,
        Frees, NoPath
  <2>4. CASE CallWrite(x)
    BY <2>4 DEF CallWrite
  <2>5. CASE DirectWrite(x)
    <3> HIDE DEF Inv, TypeOK, PathsOK, DataOK, Flags
    <3>1. out[x] \o [n \in 1..Size[x] |-> written[x]] \in Seq(Nat)
      <4>1. Size[x] \in Nat /\ written[x] \in Nat /\ out[x] \in Seq(Nat)
        BY Sizes DEF Inv, TypeOK, DataOK
      <4> QED BY <4>1, Chunk
    <3> QED BY <2>5, <3>1 DEF Inv, TypeOK, DataOK, DirectWrite
  <2> HIDE DEF Inv, DataOK, PathsOK
  <2> QED BY <1>2, <2>1, <2>2, <2>3, <2>4, <2>5 DEF SourceMove
<1>3. ASSUME ControlMove
      PROVE  DataOK'
  <2>1. CASE TargetAttach \/ TakeThread \/ AssignTarget \/ Attached \/ TargetDetach \/
        TakeManager \/ TerminatesLoud \/ TerminatesSilent \/
        AwaitsLock("wait_idle", "thread", "wait_target") \/
        AwaitsLock("wait_target", "target", "unassign")
    BY <2>1 DEF TargetAttach, NoTarget, TakeThread, AssignTarget, WakeThread, Attached,
        ReleaseAll, TargetDetach, TakeManager, TerminatesLoud, Signals, TerminatesSilent,
        AwaitsLock
  <2>2. CASE UnassignTarget \/ Detached \/ Deinit \/ DeinitSignal
    BY <2>2 DEF UnassignTarget, Detached, ReleaseAll, NoTarget, Deinit, DeinitSignal, WakeThread
  <2>3. ASSUME NEW x \in Sources, AttachPath(x) \/ DetachPath(x) \/
        BroadcastsLoud(Control, x) \/ BroadcastsSilent(Control, x) \/ FreePath(x) PROVE DataOK'
    BY <2>3 DEF AttachPath, CreatePath, NoPath, DetachPath, Unlink, BroadcastsLoud, Signals,
        BroadcastsSilent, FreePath
  <2> HIDE DEF Inv, DataOK, PathsOK
  <2> QED BY <1>3, <2>1, <2>2, <2>3 DEF ControlMove
<1> HIDE DEF Inv, DataOK, PathsOK
<1> QED BY <1>1, <1>2, <1>3 DEF Move

(* What is mixed, and what says that there is enough, is a whole mix.      *)
LEMMA MixesKept ==
  ASSUME Inv, UNCHANGED setup, Move
  PROVE  Thick'
<1> USE NameAssumption DEF Inv, TypeOK, Procs, At, Go, Take, Release, locks, hist, Thick,
        Holds, Roles, PointsOK, Works, Away, Writes, Changes, Detaches, Stays, LocksOK,
        PathsOK, DataOK, Flags, Mixes, Loops, PathList, TargetSize, MixerHolds, ControlHolds,
        SourceHolds
<1>1. ASSUME MixerMove
      PROVE  Thick'
  <2>1. CASE ThreadWake
    BY <2>1 DEF ThreadWake
  <2>2. CASE Launches
    BY <2>2 DEF Launches
  <2>3. CASE GoesIdle
    BY <2>3 DEF GoesIdle
  <2>4. CASE Ends
    BY <2>4 DEF Ends
  <2>5. CASE ThreadLock
    BY <2>5 DEF ThreadLock
  <2>6. CASE LeavesTo("idle", TRUE)
    BY <2>6 DEF LeavesTo
  <2>7. CASE LeavesTo("dead", FALSE)
    BY <2>7 DEF LeavesTo
  <2>8. CASE Enters
    BY <2>8 DEF Enters
  <2>9. CASE MixEnter
    BY <2>9 DEF MixEnter
  <2>10. CASE LooksNoMore("waited")
    BY <2>10 DEF LooksNoMore
  <2>11. CASE LooksNoMore("mixing")
    BY <2>11 DEF LooksNoMore
  <2>12. CASE Pauses("asleep")
    BY <2>12 DEF Pauses
  <2>13. CASE Pauses("waiting")
    BY <2>13 DEF Pauses
  <2>14. CASE Wakes("waiting", "woken")
    BY <2>14 DEF Wakes
  <2>15. CASE Wakes("asleep", "roused")
    BY <2>15 DEF Wakes
  <2>16. CASE MixerTimesOut
    BY <2>16 DEF MixerTimesOut
  <2>17. CASE BreaksOff
    BY <2>17 DEF BreaksOff
  <2>18. CASE TurnsDirect
    BY <2>18 DEF TurnsDirect
  <2>19. CASE LooksAgain
    BY <2>19 DEF LooksAgain
  <2>20. CASE AfterSleep
    BY <2>20 DEF AfterSleep
  <2>21. CASE AwaitDirect
    BY <2>21 DEF AwaitDirect
  <2>22. CASE AfterLook
    BY <2>22 DEF AfterLook
  <2>23. CASE StartMix
    BY <2>23 DEF StartMix
  <2>24. CASE SelectsNone
    BY <2>24 DEF SelectsNone, Chosen
  <2>25. CASE SelectsSome
    BY <2>25 DEF SelectsSome, Chosen
  <2>26. CASE BeginWrite
    BY <2>26 DEF BeginWrite
  <2>27. CASE EndWrite
    BY <2>27 DEF EndWrite
  <2>28. CASE MixDone
    BY <2>28 DEF MixDone
  <2>29. ASSUME NEW x \in Sources, SkipsPath(x) PROVE Thick'
    BY <2>29 DEF SkipsPath
  <2>30. ASSUME NEW x \in Sources, Underflows(x) PROVE Thick'
    <3>1. path \in [Sources -> Flags] /\ todo \in [{Mixer, Control} -> SUBSET Sources]
      BY DEF Inv, TypeOK, PathsOK
    <3>2. /\ \A s \in Sources \ {x} : path'[s] = path[s]
          /\ path'[x].listed = path[x].listed /\ path'[x].doMix = path[x].doMix
          /\ path'[x].enough = path[x].enough /\ path'[x].buf = path[x].buf
          /\ todo'[Mixer] = todo[Mixer] \ {x} /\ pc' = pc /\ TargetSize' = TargetSize
      BY <2>30, <3>1 DEF Underflows, Flags, TargetSize
    <3>3. pc[Mixer] = "select"
      BY <2>30 DEF Underflows, At
    <3>4. ASSUME NEW s \in Sources PROVE Mixes(s)'
      <4>1. Mixes(s)
        BY DEF Inv, Thick
      <4>2. CASE s = x
        BY <3>2, <3>3, <4>1, <4>2 DEF Mixes
      <4>3. CASE s # x
        BY <3>2, <3>3, <4>1, <4>3 DEF Mixes
      <4> QED BY <4>2, <4>3
    <3> QED BY <3>4 DEF Thick
  <2>31. ASSUME NEW x \in Sources, Picks(x) PROVE Thick'
    <3>1. /\ path \in [Sources -> Flags] /\ todo \in [{Mixer, Control} -> SUBSET Sources]
          /\ path[x].buf \in Seq(Nat) /\ TargetSize \in Nat
      BY Sizes DEF Inv, TypeOK, PathsOK, Flags
    <3>2. /\ \A s \in Sources \ {x} : path'[s] = path[s]
          /\ path'[x].listed = path[x].listed /\ path'[x].doMix = TRUE
          /\ path'[x].enough = path[x].enough /\ path'[x].buf = path[x].buf
          /\ todo'[Mixer] = todo[Mixer] \ {x} /\ pc' = pc /\ TargetSize' = TargetSize
      BY <2>31, <3>1 DEF Picks, Flags, TargetSize
    <3>3. pc[Mixer] = "select" /\ Len(path[x].buf) >= TargetSize
      BY <2>31, <3>1 DEF Picks, At
    <3> QED BY <3>2, <3>3 DEF Inv, Thick, Mixes
  <2>32. ASSUME NEW x \in Sources, Copy(x) PROVE Thick'
    <3> HIDE DEF Inv, TypeOK, Holds, Roles, Thick, Mixes, PointsOK, LocksOK, PathsOK, DataOK, Flags, TargetSize
    <3>1. path \in [Sources -> Flags] /\ todo \in [{Mixer, Control} -> SUBSET Sources]
      BY Sizes DEF Inv, TypeOK, PathsOK, Flags
    <3> DEFINE rest == SubSeq(path[x].buf, TargetSize + 1, Len(path[x].buf))
    <3>2. /\ \A s \in Sources \ {x} : path'[s] = path[s]
          /\ path'[x].listed = path[x].listed /\ path'[x].doMix = path[x].doMix
          /\ path'[x].enough = (path[x].enough /\ Len(rest) >= TargetSize)
          /\ path'[x].buf = rest
          /\ todo'[Mixer] = todo[Mixer] \ {x} /\ pc' = pc /\ TargetSize' = TargetSize
      <4>1. path' = [path EXCEPT ![x] = [path[x] EXCEPT !.buf = rest,
                                                        !.enough = @ /\ Len(rest) >= TargetSize]]
        BY <2>32 DEF Copy, Visit
      <4>2. todo' = [todo EXCEPT ![Mixer] = @ \ {x}] /\ pc' = pc /\ TargetSize' = TargetSize
        BY <2>32 DEF Copy, Visit, TargetSize
      <4> HIDE DEF rest
      <4> QED BY <3>1, <4>1, <4>2 DEF Flags
    <3>3. pc[Mixer] = "copy"
      BY <2>32 DEF Copy, Visit, At
    <3> QED BY <3>2, <3>3 DEF Inv, Thick, Mixes
  <2>33. ASSUME NEW x \in Sources, SignalsWriter(x) PROVE Thick'
    BY <2>33 DEF SignalsWriter
  <2>34. ASSUME NEW x \in Sources, PassesWriter(x) PROVE Thick'
    <3>1. path \in [Sources -> Flags] /\ todo \in [{Mixer, Control} -> SUBSET Sources]
      BY Sizes DEF Inv, TypeOK, PathsOK, Flags
    <3>2. /\ \A s \in Sources \ {x} : path'[s] = path[s]
          /\ path'[x].listed = path[x].listed /\ path'[x].doMix = FALSE
          /\ path'[x].enough = path[x].enough /\ path'[x].buf = path[x].buf
          /\ todo'[Mixer] = todo[Mixer] \ {x} /\ pc' = pc /\ TargetSize' = TargetSize
      BY <2>34, <3>1 DEF PassesWriter, Flags, TargetSize
    <3>3. pc[Mixer] = "signal"
      BY <2>34 DEF PassesWriter, At
    <3> QED BY <3>2, <3>3 DEF Inv, Thick, Mixes
  <2> HIDE DEF Inv, Thick, Holds, Roles, PointsOK, LocksOK, PathsOK, DataOK
  <2> QED BY <1>1, <2>1, <2>2, <2>3, <2>4, <2>5, <2>6, <2>7, <2>8, <2>9, <2>10, <2>11, <2>12,
      <2>13, <2>14, <2>15, <2>16, <2>17, <2>18, <2>19, <2>20, <2>21, <2>22, <2>23, <2>24,
      <2>25, <2>26, <2>27, <2>28, <2>29, <2>30, <2>31, <2>32, <2>33, <2>34 DEF MixerMove
<1>2. ASSUME NEW x \in Sources, SourceMove(x)
      PROVE  Thick'
  <2>1. CASE SourceAttach(x)
    BY <2>1 DEF SourceAttach
  <2>2. CASE Knows(x)
    BY <2>2 DEF Knows
  <2>3. CASE Joins(x)
    BY <2>3 DEF Joins, CreatePath, NoPath
  <2>4. CASE CallWrite(x)
    BY <2>4 DEF CallWrite
  <2>5. CASE ChoosesLoud(x, TRUE, "direct")
    BY <2>5 DEF ChoosesLoud, Signals
  <2>6. CASE ChoosesLoud(x, FALSE, "put")
    BY <2>6 DEF ChoosesLoud, Signals
  <2>7. CASE ChoosesSilent(x, TRUE, "direct")
    BY <2>7 DEF ChoosesSilent, Silent
  <2>8. CASE ChoosesSilent(x, FALSE, "put")
    BY <2>8 DEF ChoosesSilent, Silent
  <2>9. CASE TakeDirect(x)
    BY <2>9 DEF TakeDirect
  <2>10. CASE DirectWrite(x)
    BY <2>10 DEF DirectWrite
  <2>11. CASE DirectDone(x)
    BY <2>11 DEF DirectDone
  <2>12. CASE CallPut(x)
    BY <2>12 DEF CallPut
  <2>13. CASE Suspend(x)
    BY <2>13 DEF Suspend
  <2>14. CASE Drop(x)
    BY <2>14 DEF Drop
  <2>15. CASE Fill(x)
    <3> HIDE DEF Inv, TypeOK, Holds, Roles, Thick, Mixes, PointsOK, LocksOK, PathsOK, DataOK, Flags, TargetSize
    <3>1. /\ path \in [Sources -> Flags] /\ path[x].buf \in Seq(Nat)
          /\ TargetSize \in Nat /\ Size[x] \in Nat /\ written[x] \in Nat
      BY Sizes DEF Inv, TypeOK, PathsOK, Flags, DataOK
    <3> DEFINE buf == path[x].buf \o [n \in 1..Size[x] |-> written[x]]
               enough == Len(buf) >= TargetSize
    <3>2. Len(buf) \in Nat /\ Len(path[x].buf) \in Nat /\ Len(buf) >= Len(path[x].buf)
      BY <3>1, Chunk
    <3>3. /\ \A s \in Sources \ {x} : path'[s] = path[s]
          /\ path'[x].listed = path[x].listed /\ path'[x].doMix = path[x].doMix
          /\ path'[x].enough = (path[x].enough \/ enough) /\ path'[x].buf = buf
          /\ todo' = todo /\ pc'[Mixer] = pc[Mixer] /\ TargetSize' = TargetSize
      <4> HIDE DEF buf
      <4>1. PICK wait \in BOOLEAN : path' = [path EXCEPT ![x] =
              [path[x] EXCEPT !.buf = buf, !.start = @ \/ enough, !.underflow = @ /\ ~enough,
                              !.enough = @ \/ enough, !.isWait = wait]]
        BY <2>15 DEF Fill, buf
      <4>2. pc'[Mixer] = pc[Mixer]
        BY <2>15, NameAssumption DEF Fill, Go, Inv, TypeOK, PointsOK, Procs
      <4>3. todo' = todo /\ TargetSize' = TargetSize
        BY <2>15 DEF Fill, TargetSize
      <4> QED BY <3>1, <4>1, <4>2, <4>3 DEF Flags
    <3> HIDE DEF buf
    <3>4. ASSUME NEW s \in Sources PROVE Mixes(s)'
      <4>1. Mixes(s)
        BY DEF Inv, Thick
      <4>2. CASE s = x
        <5>1. Len(path[x].buf) >= TargetSize => Len(buf) >= TargetSize
          BY <3>1, <3>2
        <5>2. path'[x].listed /\ (path'[x].enough \/ Len(path[x].buf) >= TargetSize)
                => Len(path'[x].buf) >= TargetSize'
          BY <3>3, <4>1, <4>2, <5>1 DEF Mixes
        <5> QED BY <3>3, <4>1, <4>2, <5>2 DEF Mixes
      <4>3. CASE s # x
        BY <3>3, <4>1, <4>3 DEF Mixes
      <4> QED BY <4>2, <4>3
    <3> QED BY <3>4 DEF Thick
  <2>16. CASE SleepsLoud(x)
    BY <2>16 DEF SleepsLoud, Signals
  <2>17. CASE SleepsSilent(x)
    BY <2>17 DEF SleepsSilent
  <2>18. CASE ReturnsLoud(x)
    BY <2>18 DEF ReturnsLoud, Signals
  <2>19. CASE ReturnsSilent(x)
    BY <2>19 DEF ReturnsSilent
  <2>20. CASE Returned(x)
    BY <2>20 DEF Returned
  <2>21. CASE TooLate(x)
    BY <2>21 DEF TooLate
  <2>22. CASE WriteReturns(x)
    BY <2>22 DEF WriteReturns
  <2>23. CASE SourceDetach(x)
    BY <2>23 DEF SourceDetach
  <2>24. CASE SourceUnlink(x)
    BY <2>24 DEF SourceUnlink, Unlink
  <2>25. CASE BroadcastsLoud(x, x)
    BY <2>25 DEF BroadcastsLoud, Signals
  <2>26. CASE BroadcastsSilent(x, x)
    BY <2>26 DEF BroadcastsSilent
  <2>27. CASE Frees(x, "free")
    BY <2>27 DEF Frees, NoPath
  <2>28. CASE Frees(x, "detach")
    BY <2>28 DEF Frees, NoPath
  <2> HIDE DEF Inv, Thick, Holds, Roles, PointsOK, LocksOK, PathsOK, DataOK
  <2> QED BY <1>2, <2>1, <2>2, <2>3, <2>4, <2>5, <2>6, <2>7, <2>8, <2>9, <2>10, <2>11, <2>12,
      <2>13, <2>14, <2>15, <2>16, <2>17, <2>18, <2>19, <2>20, <2>21, <2>22, <2>23, <2>24,
      <2>25, <2>26, <2>27, <2>28 DEF SourceMove
<1>3. ASSUME ControlMove
      PROVE  Thick'
  <2>1. CASE TargetAttach
    BY <2>1 DEF TargetAttach, NoTarget
  <2>2. CASE TakeThread
    BY <2>2 DEF TakeThread
  <2>3. CASE AssignTarget
    BY <2>3 DEF AssignTarget, WakeThread
  <2>4. ASSUME NEW x \in Sources, AttachPath(x) PROVE Thick'
    BY <2>4 DEF AttachPath, CreatePath, NoPath
  <2>5. CASE Attached
    BY <2>5 DEF Attached, ReleaseAll
  <2>6. CASE TargetDetach
    BY <2>6 DEF TargetDetach
  <2>7. CASE TakeManager
    BY <2>7 DEF TakeManager
  <2>8. CASE TerminatesLoud
    BY <2>8 DEF TerminatesLoud, Signals
  <2>9. CASE TerminatesSilent
    BY <2>9 DEF TerminatesSilent
  <2>10. CASE AwaitsLock("wait_idle", "thread", "wait_target")
    BY <2>10 DEF AwaitsLock
  <2>11. CASE AwaitsLock("wait_target", "target", "unassign")
    BY <2>11 DEF AwaitsLock
  <2>12. CASE UnassignTarget
    BY <2>12 DEF UnassignTarget
  <2>13. ASSUME NEW x \in Sources, DetachPath(x) PROVE Thick'
    BY <2>13 DEF DetachPath, Unlink
  <2>14. ASSUME NEW x \in Sources, BroadcastsLoud(Control, x) PROVE Thick'
    BY <2>14 DEF BroadcastsLoud, Signals
  <2>15. ASSUME NEW x \in Sources, BroadcastsSilent(Control, x) PROVE Thick'
    BY <2>15 DEF BroadcastsSilent
  <2>16. ASSUME NEW x \in Sources, FreePath(x) PROVE Thick'
    BY <2>16 DEF FreePath, NoPath
  <2>17. CASE Detached
    BY <2>17 DEF Detached, ReleaseAll, NoTarget
  <2>18. CASE Deinit
    BY <2>18 DEF Deinit
  <2>19. CASE DeinitSignal
    BY <2>19 DEF DeinitSignal, WakeThread
  <2> HIDE DEF Inv, Thick, Holds, Roles, PointsOK, LocksOK, PathsOK, DataOK
  <2> QED BY <1>3, <2>1, <2>2, <2>3, <2>4, <2>5, <2>6, <2>7, <2>8, <2>9, <2>10, <2>11, <2>12,
      <2>13, <2>14, <2>15, <2>16, <2>17, <2>18, <2>19 DEF ControlMove
<1> HIDE DEF Inv, Thick, Holds, Roles, PointsOK, LocksOK, PathsOK, DataOK
<1> QED BY <1>1, <1>2, <1>3 DEF Move

(* Every step is one of the moves.                                         *)
LEMMA MixerMoves ==
  ASSUME Inv, MixerStep
  PROVE  MixerMove
<1> USE DEF MixerMove
<1>1. CASE ThreadBoot
  BY <1>1 DEF ThreadBoot, At, Inv, TypeOK, PointsOK, Away, Works
<1>2. CASE ThreadLaunch
  <2>1. CASE thread.alive /\ thread.target /\ ~target.exit
    <3>1. Launches
      BY <1>2, <2>1 DEF ThreadLaunch, Launches
    <3> QED BY <3>1
  <2>2. CASE thread.alive /\ ~(thread.target /\ ~target.exit)
    <3>1. GoesIdle
      BY <1>2, <2>2 DEF ThreadLaunch, ThreadTop, GoesIdle, locks
    <3> QED BY <3>1
  <2>3. CASE ~thread.alive
    <3>1. thread.alive = FALSE
      BY <2>3 DEF Inv, TypeOK, ThreadOK
    <3>2. Ends
      BY <1>2, <2>3, <3>1 DEF ThreadLaunch, ThreadTop, Ends, locks
    <3> QED BY <3>2
  <2> QED BY <2>1, <2>2, <2>3
<1>3. CASE MixTop
  <2>1. CASE target.exit /\ thread.alive
    <3>1. thread.alive = TRUE
      BY <2>1 DEF Inv, TypeOK, ThreadOK
    <3>2. LeavesTo("idle", TRUE)
      BY <1>3, <2>1, <3>1 DEF MixTop, ThreadTop, LeavesTo
    <3> QED BY <3>2
  <2>2. CASE target.exit /\ ~thread.alive
    <3>1. thread.alive = FALSE
      BY <2>2 DEF Inv, TypeOK, ThreadOK
    <3>2. LeavesTo("dead", FALSE)
      BY <1>3, <2>2, <3>1 DEF MixTop, ThreadTop, LeavesTo
    <3> QED BY <3>2
  <2>3. CASE ~target.exit
    <3>1. Enters
      BY <1>3, <2>3 DEF MixTop, Enters, locks
    <3> QED BY <3>1
  <2> QED BY <2>1, <2>2, <2>3
<1>4. CASE WaitToMix
  <2>1. CASE Release("mix") /\ Go(Mixer, "waited") /\ UNCHANGED target
    <3>1. LooksNoMore("waited")
      BY <1>4, <2>1 DEF WaitToMix, LooksNoMore
    <3> QED BY <3>1
  <2>2. CASE Sleep
    <3>1. CASE target.direct /\ target.exit
      <4>1. LooksNoMore("mixing")
        BY <1>4, <2>2, <3>1 DEF WaitToMix, Sleep, LooksNoMore
      <4> QED BY <4>1
    <3>2. CASE target.direct /\ ~target.exit
      <4>1. Pauses("asleep")
        BY <1>4, <2>2, <3>2 DEF WaitToMix, Sleep, Pauses
      <4> QED BY <4>1
    <3>3. CASE ~target.direct
      <4>1. Pauses("waiting")
        BY <1>4, <2>2, <3>3 DEF WaitToMix, Sleep, Pauses
      <4> QED BY <4>1
    <3> QED BY <3>1, <3>2, <3>3
  <2> QED BY <1>4, <2>1, <2>2 DEF WaitToMix
<1>5. CASE MixerWakes
  <2>1. CASE At(Mixer, "waiting") /\ Go(Mixer, "woken")
    <3>1. Wakes("waiting", "woken")
      BY <1>5, <2>1 DEF MixerWakes, Wakes
    <3> QED BY <3>1
  <2>2. CASE At(Mixer, "asleep") /\ Go(Mixer, "roused")
    <3>1. Wakes("asleep", "roused")
      BY <1>5, <2>2 DEF MixerWakes, Wakes
    <3> QED BY <3>1
  <2> QED BY <1>5, <2>1, <2>2 DEF MixerWakes
<1>6. CASE AfterWait
  <2>1. CASE target.exit
    <3>1. BreaksOff
      BY <1>6, <2>1 DEF AfterWait, BreaksOff, locks
    <3> QED BY <3>1
  <2>2. CASE ~target.exit /\ target.direct
    <3>1. TurnsDirect
      BY <1>6, <2>2 DEF AfterWait, TurnsDirect, locks
    <3> QED BY <3>1
  <2>3. CASE ~target.exit /\ ~target.direct
    <3>1. LooksAgain
      BY <1>6, <2>3 DEF AfterWait, LooksAgain
    <3> QED BY <3>1
  <2> QED BY <2>1, <2>2, <2>3
<1>7. CASE Selected
  <2>1. CASE Chosen = {}
    <3>1. SelectsNone
      BY <1>7, <2>1 DEF Selected, SelectsNone, Chosen
    <3> QED BY <3>1
  <2>2. CASE Chosen # {}
    <3>1. SelectsSome
      BY <1>7, <2>2 DEF Selected, SelectsSome, Chosen, locks
    <3> QED BY <3>1
  <2> QED BY <2>1, <2>2
<1>8. ASSUME NEW x \in Sources, Select(x)
      PROVE  MixerMove
  <2> USE DEF Select, Visit, locks
  <2>1. CASE ~path[x].start
    <3>1. [path EXCEPT ![x] = path[x]] = path
      BY DEF Inv, TypeOK, PathsOK
    <3>2. SkipsPath(x)
      BY <1>8, <2>1, <3>1 DEF SkipsPath
    <3> QED BY <3>2
  <2>2. CASE path[x].start /\ Len(path[x].buf) < TargetSize
    <3>1. Underflows(x)
      BY <1>8, <2>2 DEF Underflows
    <3> QED BY <3>1
  <2>3. CASE path[x].start /\ ~(Len(path[x].buf) < TargetSize)
    <3>1. Picks(x)
      BY <1>8, <2>3 DEF Picks
    <3> QED BY <3>1
  <2> QED BY <2>1, <2>2, <2>3
<1>9. ASSUME NEW x \in Sources, SignalDone(x)
      PROVE  MixerMove
  <2> DEFINE wake == /\ path[x].isWait
                     /\ Len(path[x].buf) <= (IF path[x].sync THEN 0 ELSE SafeCount(x))
  <2>1. path[x] \in Flags /\ path \in [Sources -> Flags] /\ pcond \in [Sources -> {0, 1}]
    BY DEF Inv, TypeOK, PathsOK, LocksOK
  <2>2. /\ Visit("signal", x, [path[x] EXCEPT !.doMix = FALSE, !.isWait = @ /\ ~wake])
        /\ pcond' = [pcond EXCEPT ![x] = IF wake THEN 1 ELSE @]
        /\ UNCHANGED <<cond, outbuf>>
    BY <1>9 DEF SignalDone
  <2>3. CASE wake
    <3>1. (path[x].isWait /\ ~wake) = FALSE
      BY <2>3
    <3>2. SignalsWriter(x)
      BY <2>2, <2>3, <3>1 DEF SignalsWriter, Visit
    <3> QED BY <3>2
  <2>4. CASE ~wake
    <3> HIDE DEF wake
    <3>1. (path[x].isWait /\ ~wake) = path[x].isWait
      BY <2>1, <2>4 DEF Flags
    <3>2. [path[x] EXCEPT !.doMix = FALSE, !.isWait = path[x].isWait] = [path[x] EXCEPT !.doMix = FALSE]
      BY <2>1 DEF Flags
    <3>3. pcond' = pcond
      BY <2>1, <2>2, <2>4
    <3>4. PassesWriter(x)
      BY <2>2, <3>1, <3>2, <3>3 DEF PassesWriter, Visit, locks
    <3> QED BY <3>4
  <2> QED BY <2>3, <2>4
<1>10. ASSUME NEW x \in Sources, Copy(x)
       PROVE  MixerMove
  BY <1>10
<1>11. CASE \/ ThreadWake \/ ThreadLock \/ MixEnter \/ MixerTimesOut \/ AfterSleep \/ AwaitDirect
            \/ AfterLook \/ StartMix \/ BeginWrite \/ EndWrite \/ MixDone
  BY <1>11
<1> HIDE DEF MixerMove
<1> QED BY <1>1, <1>2, <1>3, <1>4, <1>5, <1>6, <1>7, <1>8, <1>9, <1>10, <1>11 DEF MixerStep

\* SignalMixer, with the values it sets.
LEMMA SignalMixerDoes ==
  ASSUME Inv, NEW when \in BOOLEAN, NEW d \in BOOLEAN, SignalMixer(when, d)
  PROVE  IF target.waitToMix /\ when THEN Signals(d)
         ELSE UNCHANGED cond /\ target' = [target EXCEPT !.direct = d]
<1>1. /\ cond \in [thread : {0, 1}, mix : {0, 1}] /\ target.waitToMix \in BOOLEAN
      /\ target \in [up : BOOLEAN, exit : BOOLEAN, start : BOOLEAN, waitToMix : BOOLEAN, direct : BOOLEAN]
  BY DEF Inv, TypeOK, LocksOK, ThreadOK
<1>2. CASE target.waitToMix /\ when
  <2>1. (target.waitToMix /\ ~(target.waitToMix /\ when)) = FALSE
    BY <1>2
  <2> QED BY <1>1, <1>2, <2>1 DEF SignalMixer, Signals
<1>3. CASE ~(target.waitToMix /\ when)
  <2>1. (target.waitToMix /\ ~(target.waitToMix /\ when)) = target.waitToMix
    BY <1>1, <1>3
  <2>2. cond' = cond
    BY <1>1, <1>3 DEF SignalMixer
  <2>3. target' = [target EXCEPT !.waitToMix = target.waitToMix, !.direct = d]
    BY <1>3, <2>1 DEF SignalMixer
  <2>4. target' = [target EXCEPT !.direct = d]
    BY <1>1, <2>3
  <2> QED BY <1>3, <2>2, <2>4
<1> QED BY <1>2, <1>3

\* The steps of a source, each one of the moves.
LEMMA SourceMoves ==
  ASSUME Inv, NEW x \in Sources, SourceStep(x) \/ SourceAttach(x) \/ CallWrite(x) \/ SourceDetach(x)
  PROVE  SourceMove(x)
<1> USE DEF SourceMove
<1>0. /\ target.direct \in BOOLEAN /\ [target EXCEPT !.direct = target.direct] = target
      /\ Ready \in BOOLEAN /\ path[x].enough \in BOOLEAN
  BY DEF Inv, TypeOK, ThreadOK, PathsOK, Flags, Ready, ReadyOn
<1>1. CASE SourceListed(x)
  <2>1. CASE thread.target
    <3>1. Joins(x)
      BY <1>1, <2>1 DEF SourceListed, Joins
    <3> QED BY <3>1
  <2>2. CASE ~thread.target
    <3>1. Knows(x)
      BY <1>1, <2>2 DEF SourceListed, Knows
    <3> QED BY <3>1
  <2> QED BY <2>1, <2>2
<1>2. CASE ChooseMode(x)
  <2> DEFINE direct == Cardinality(PathList) = 1 /\ path[x].sync /\ path[x].buf = <<>>
             when == target.direct # direct
  <2>1. direct \in BOOLEAN /\ when \in BOOLEAN
    OBVIOUS
  <2>2. /\ At(x, "mode") /\ lock["mix"] = Free
        /\ SignalMixer(when, direct) /\ Go(x, IF direct THEN "direct" ELSE "put")
        /\ UNCHANGED <<lock, plock, slock, pcond, thread, path, listed, left, scan, todo, outbuf, hist>>
    BY <1>2 DEF ChooseMode
  <2>3. when <=> ~(target.direct <=> direct)
    BY <1>0, <2>1
  <2> HIDE DEF direct, when
  <2>4. IF target.waitToMix /\ when THEN Signals(direct)
        ELSE UNCHANGED cond /\ target' = [target EXCEPT !.direct = direct]
    BY <2>1, <2>2, SignalMixerDoes
  <2>5. CASE target.waitToMix /\ when
    <3>1. CASE direct
      <4>1. direct = TRUE
        BY <2>1, <3>1
      <4>2. ChoosesLoud(x, TRUE, "direct")
        BY <2>2, <2>4, <2>5, <4>1 DEF ChoosesLoud
      <4> QED BY <4>2
    <3>2. CASE ~direct
      <4>1. direct = FALSE
        BY <2>1, <3>2
      <4>2. ChoosesLoud(x, FALSE, "put")
        BY <2>2, <2>4, <2>5, <4>1 DEF ChoosesLoud
      <4> QED BY <4>2
    <3> QED BY <3>1, <3>2
  <2>6. CASE ~(target.waitToMix /\ when)
    <3>1. CASE direct
      <4>1. direct = TRUE
        BY <2>1, <3>1
      <4>2. ChoosesSilent(x, TRUE, "direct")
        BY <2>2, <2>3, <2>4, <2>6, <4>1 DEF ChoosesSilent, Silent
      <4> QED BY <4>2
    <3>2. CASE ~direct
      <4>1. direct = FALSE
        BY <2>1, <3>2
      <4>2. ChoosesSilent(x, FALSE, "put")
        BY <2>2, <2>3, <2>4, <2>6, <4>1 DEF ChoosesSilent, Silent
      <4> QED BY <4>2
    <3> QED BY <3>1, <3>2
  <2> QED BY <2>5, <2>6
<1>3. CASE SignalToMix(x)
  <2> DEFINE when == path[x].enough /\ Ready
  <2>1. when \in BOOLEAN /\ SignalMixer(when, target.direct)
    BY <1>3 DEF SignalToMix
  <2> HIDE DEF when
  <2>2. IF target.waitToMix /\ when THEN Signals(target.direct) ELSE UNCHANGED <<cond, target>>
    BY <1>0, <2>1, SignalMixerDoes
  <2>3. CASE target.waitToMix /\ when
    <3>1. CASE path[x].isWait
      <4>1. SleepsLoud(x)
        BY <1>3, <2>2, <2>3, <3>1 DEF SignalToMix, SleepsLoud
      <4> QED BY <4>1
    <3>2. CASE ~path[x].isWait
      <4>1. ReturnsLoud(x)
        BY <1>3, <2>2, <2>3, <3>2 DEF SignalToMix, ReturnsLoud
      <4> QED BY <4>1
    <3> QED BY <3>1, <3>2
  <2>4. CASE ~(target.waitToMix /\ when)
    <3>1. CASE path[x].isWait
      <4>1. SleepsSilent(x)
        BY <1>3, <2>2, <2>4, <3>1 DEF SignalToMix, SleepsSilent
      <4> QED BY <4>1
    <3>2. CASE ~path[x].isWait
      <4>1. ReturnsSilent(x)
        BY <1>3, <2>2, <2>4, <3>2 DEF SignalToMix, ReturnsSilent
      <4> QED BY <4>1
    <3> QED BY <3>1, <3>2
  <2> QED BY <2>3, <2>4
<1>4. CASE WriterWakes(x)
  <2>1. CASE pcond[x] = 1 /\ pcond' = [pcond EXCEPT ![x] = 0] /\ Go(x, "done")
    <3>1. Returned(x)
      BY <1>4, <2>1 DEF WriterWakes, Returned
    <3> QED BY <3>1
  <2>2. CASE WaitTimeout /\ Go(x, "late") /\ UNCHANGED pcond
    <3>1. TooLate(x)
      BY <1>4, <2>2 DEF WriterWakes, TooLate, locks
    <3> QED BY <3>1
  <2> QED BY <1>4, <2>1, <2>2 DEF WriterWakes
<1>5. CASE Broadcast(x, x)
  <2>1. IF target.waitToMix /\ Ready THEN Signals(target.direct) ELSE UNCHANGED <<cond, target>>
    BY <1>0, <1>5, SignalMixerDoes DEF Broadcast
  <2>2. CASE target.waitToMix /\ Ready
    <3>1. BroadcastsLoud(x, x)
      BY <1>5, <2>1, <2>2 DEF Broadcast, BroadcastsLoud
    <3> QED BY <3>1
  <2>3. CASE ~(target.waitToMix /\ Ready)
    <3>1. BroadcastsSilent(x, x)
      BY <1>5, <2>1, <2>3 DEF Broadcast, BroadcastsSilent
    <3> QED BY <3>1
  <2> QED BY <2>2, <2>3
<1>6. CASE SourceFree(x)
  <2>1. CASE At(x, "free") /\ plock[x] = Free
    <3>1. Frees(x, "free")
      BY <1>6, <2>1 DEF SourceFree, Frees
    <3> QED BY <3>1
  <2>2. CASE At(x, "detach") /\ ~path[x].listed
    <3>1. Frees(x, "detach")
      BY <1>6, <2>2 DEF SourceFree, Frees
    <3> QED BY <3>1
  <2> QED BY <1>6, <2>1, <2>2 DEF SourceFree
<1>7. CASE \/ TakeDirect(x) \/ DirectWrite(x) \/ DirectDone(x) \/ CallPut(x) \/ Suspend(x) \/ Drop(x)
           \/ Fill(x) \/ WriteReturns(x) \/ SourceUnlink(x) \/ SourceAttach(x) \/ CallWrite(x)
           \/ SourceDetach(x)
  BY <1>7
<1> HIDE DEF SourceMove
<1> QED BY <1>1, <1>2, <1>3, <1>4, <1>5, <1>6, <1>7 DEF SourceStep

\* The steps of Control, each one of the moves.
LEMMA ControlMoves ==
  ASSUME Patient, Inv, ControlStep \/ TargetAttach \/ TargetDetach \/ Deinit
  PROVE  ControlMove
<1> USE DEF ControlMove
<1>0. /\ target.direct \in BOOLEAN /\ [target EXCEPT !.direct = target.direct] = target
      /\ Ready \in BOOLEAN /\ ~IdleTimeout
  BY DEF Inv, TypeOK, ThreadOK, Ready, ReadyOn, Patient, IdleTimeout
<1>1. CASE Terminate
  <2>1. IF target.waitToMix THEN Signals(target.direct) ELSE UNCHANGED <<cond, target>>
    BY <1>0, <1>1, SignalMixerDoes DEF Terminate
  <2>2. CASE target.waitToMix
    <3>1. TerminatesLoud
      BY <1>1, <2>1, <2>2 DEF Terminate, TerminatesLoud
    <3> QED BY <3>1
  <2>3. CASE ~target.waitToMix
    <3>1. TerminatesSilent
      BY <1>1, <2>1, <2>3 DEF Terminate, TerminatesSilent
    <3> QED BY <3>1
  <2> QED BY <2>2, <2>3
<1>2. CASE AwaitIdle
  <2>1. CASE At(Control, "wait_idle") /\ Go(Control, "wait_target")
    <3>1. AwaitsLock("wait_idle", "thread", "wait_target")
      BY <1>0, <1>2, <2>1 DEF AwaitIdle, AwaitsLock
    <3> QED BY <3>1
  <2>2. CASE At(Control, "wait_target") /\ Go(Control, "unassign")
    <3>1. ~At(Control, "wait_idle")
      BY <2>2 DEF At
    <3>2. AwaitsLock("wait_target", "target", "unassign")
      BY <1>0, <1>2, <2>2, <3>1 DEF AwaitIdle, AwaitsLock
    <3> QED BY <3>2
  <2> QED BY <1>2, <2>1, <2>2 DEF AwaitIdle
<1>3. ASSUME NEW x \in Sources, Broadcast(Control, x)
      PROVE  ControlMove
  <2>1. IF target.waitToMix /\ Ready THEN Signals(target.direct) ELSE UNCHANGED <<cond, target>>
    BY <1>0, <1>3, SignalMixerDoes DEF Broadcast
  <2>2. CASE target.waitToMix /\ Ready
    <3>1. BroadcastsLoud(Control, x)
      BY <1>3, <2>1, <2>2 DEF Broadcast, BroadcastsLoud
    <3> QED BY <3>1
  <2>3. CASE ~(target.waitToMix /\ Ready)
    <3>1. BroadcastsSilent(Control, x)
      BY <1>3, <2>1, <2>3 DEF Broadcast, BroadcastsSilent
    <3> QED BY <3>1
  <2> QED BY <2>2, <2>3
<1>4. ASSUME NEW x \in Sources, AttachPath(x) \/ DetachPath(x) \/ FreePath(x)
      PROVE  ControlMove
  BY <1>4
<1>5. CASE \/ TakeThread \/ AssignTarget \/ Attached \/ TakeManager \/ UnassignTarget \/ Detached
           \/ DeinitSignal \/ TargetAttach \/ TargetDetach \/ Deinit
  BY <1>5
<1> HIDE DEF ControlMove
<1> QED BY <1>1, <1>2, <1>3, <1>4, <1>5 DEF ControlStep

(* The inductive invariant.                                                *)
LEMMA InvInit ==
  ASSUME Patient, Init
  PROVE  Inv
<1>1. setup \in Setups /\ Booted
  BY DEF Init, Patient, Booted
<1>2. pc = [p \in Procs |-> IF p # Mixer THEN "off" ELSE "idle"]
  BY <1>1 DEF Init
<1>3. /\ pc[Mixer] = "idle" /\ pc[Control] = "off" /\ \A s \in Sources : pc[s] = "off"
      /\ pc = [p \in Procs |-> pc[p]]
  BY <1>2, NameAssumption DEF Procs
<1>4. PointsOK /\ LocksOK
  BY <1>3 DEF Init, PointsOK, Away, Works, Detaches, Stays, Writes, Changes, LocksOK, Procs
<1>5. ThreadOK
  BY <1>1 DEF Init, ThreadOK, NoTarget
<1>6. PathsOK /\ DataOK
  BY NoPathFlags DEF Init, PathsOK, DataOK
<1>7. Holds
  BY <1>3, NameAssumption DEF Init, Holds, MixerHolds, ControlHolds, SourceHolds, Works, Detaches,
     Stays, Changes
<1>8. Roles
  BY <1>1, <1>3, NameAssumption DEF Init, Roles, Target, Loops, Paths, SourceLock, FreedAt, NoTarget, NoPath,
     Works, Stays, Writes
<1>9. Awake
  BY <1>1, <1>3 DEF Init, Awake, Sleeps, NotLeftAsleep, LaunchNotLost
<1>10. Thick
  BY <1>3 DEF Init, Thick, Mixes, NoPath
<1> QED BY <1>1, <1>4, <1>5, <1>6, <1>7, <1>8, <1>9, <1>10 DEF Inv, TypeOK

\* Whatever is done is a move, or nothing.
LEMMA NextMoves ==
  ASSUME Patient, Inv, Next
  PROVE  (Move \/ UNCHANGED vars) /\ UNCHANGED setup
<1>1. CASE MixerStep
  BY <1>1, MixerMoves DEF Move, Next
<1>2. CASE ControlStep \/ TargetAttach \/ TargetDetach \/ Deinit
  BY <1>2, ControlMoves DEF Move, Next
<1>3. ASSUME NEW x \in Sources, SourceStep(x) \/ SourceAttach(x) \/ CallWrite(x) \/ SourceDetach(x)
      PROVE  Move
  BY <1>3, SourceMoves DEF Move
<1> QED BY <1>1, <1>2, <1>3 DEF Next

\* Nothing done, nothing lost.
LEMMA InvStutter ==
  ASSUME Inv, UNCHANGED vars
  PROVE  Inv'
<1>1. TypeOK'
  BY DEF Inv, TypeOK, PointsOK, LocksOK, ThreadOK, PathsOK, DataOK, vars
<1>2. Holds'
  BY DEF Inv, Holds, MixerHolds, ControlHolds, SourceHolds, vars
<1>3. Roles'
  BY DEF Inv, Roles, Target, Loops, Paths, SourceLock, FreedAt, PathList, vars
<1>4. Awake'
  BY DEF Inv, Awake, Sleeps, NotLeftAsleep, LaunchNotLost, vars
<1>5. Thick'
  BY DEF Inv, Thick, Mixes, TargetSize, vars
<1> QED BY <1>1, <1>2, <1>3, <1>4, <1>5 DEF Inv

\* Every move keeps the invariant.
LEMMA InvMove ==
  ASSUME Inv, UNCHANGED setup, Move
  PROVE  Inv'
<1>1. setup' \in Setups
  BY DEF Inv, TypeOK
<1> QED BY <1>1, TypesKept, HoldsKept, RolesKept, AwakeKept, PathsKept, DataKept, MixesKept
        DEF Inv, TypeOK

\* The invariant holds, as long as nobody gives up to wait for the thread.
LEMMA InvHolds ==
  ASSUME Patient
  PROVE  Spec => []Inv
<1>1. Init => Inv
  BY InvInit
<1>2. ASSUME Inv, [Next]_vars
      PROVE  Inv'
  <2>1. CASE Next
    BY <1>2, <2>1, NextMoves, InvMove, InvStutter
  <2>2. CASE UNCHANGED vars
    BY <1>2, <2>2, InvStutter
  <2> QED BY <1>2, <2>1, <2>2
<1> QED BY <1>1, <1>2, PTL DEF Spec

(* Nothing that the thread still works with is freed: no path one of its   *)
(* loops can meet, and not the target before the thread has left it.       *)
THEOREM FreedUnusedHolds ==
  ASSUME Patient
  PROVE  Spec => []FreedUnused
<1>1. Inv => FreedUnused
  <2>1. ASSUME Inv
        PROVE  FreedUnused
    <3>1. pc[Mixer] = "ready" => \A s \in scan : path[s].up
      BY <2>1 DEF Inv, Roles, Loops
    <3>2. \A s \in todo[Mixer] : path[s].up
      BY <2>1 DEF Inv, Roles, Loops, Paths, PathList
    <3>3. pc[Mixer] \notin {"boot", "idle", "launch", "dead"} => target.up
      BY <2>1 DEF Inv, TypeOK, PointsOK, Roles, Target, Away, Works, Stays
    <3> QED BY <3>1, <3>2, <3>3 DEF FreedUnused
  <2> QED BY <2>1
<1> QED BY <1>1, InvHolds, PTL

(* data_enough is only set while the ring buffer holds a whole mix, and    *)
(* the thread mixes no less.                                               *)
THEOREM EnoughIsEnoughHolds ==
  ASSUME Patient
  PROVE  Spec => []EnoughIsEnough
<1>1. Inv => EnoughIsEnough
  <2>1. ASSUME Inv, NEW s \in PathList
        PROVE  \/ ~path[s].enough /\ ~(pc[Mixer] = "copy" /\ s \in todo[Mixer])
               \/ Len(path[s].buf) >= TargetSize
    BY <2>1 DEF Inv, Thick, Mixes, PathList
  <2> QED BY <2>1 DEF EnoughIsEnough
<1> QED BY <1>1, InvHolds, PTL

(* The thread does not sleep without a time out when direct mode is over   *)
(* or the target is to be detached, and no launch is lost.                 *)
THEOREM NotLeftAsleepHolds ==
  ASSUME Patient
  PROVE  Spec => []NotLeftAsleep
<1>1. Inv => NotLeftAsleep
  BY DEF Inv, Awake
<1> QED BY <1>1, InvHolds, PTL

(* How often a number is in a sequence: counted by halves, in a chunk, and *)
(* where it is not.                                                        *)
LEMMA TimesNat ==
  ASSUME NEW q \in Seq(Nat), NEW n \in Nat
  PROVE  IsFiniteSet({k \in DOMAIN q : q[k] = n}) /\ Times(q, n) \in Nat
<1>1. IsFiniteSet(1..Len(q)) /\ DOMAIN q = 1..Len(q)
  BY FS_Interval
<1>2. {k \in DOMAIN q : q[k] = n} \in SUBSET (1..Len(q))
  BY <1>1
<1>3. IsFiniteSet({k \in DOMAIN q : q[k] = n})
  BY <1>1, <1>2, FS_Subset
<1> QED BY <1>3, FS_CardinalityType DEF Times

\* A number that is not in a sequence is in it no times,
LEMMA TimesNone ==
  ASSUME NEW q \in Seq(Nat), NEW n \in Nat, \A k \in DOMAIN q : q[k] # n
  PROVE  Times(q, n) = 0
<1>1. {k \in DOMAIN q : q[k] = n} = {}
  OBVIOUS
<1> QED BY <1>1, FS_EmptySet DEF Times

\* one of which it is made up as often as it is long,
LEMMA TimesAll ==
  ASSUME NEW m \in Nat, NEW n \in Nat
  PROVE  Times([k \in 1..m |-> n], n) = m
<1>1. {k \in DOMAIN [i \in 1..m |-> n] : [i \in 1..m |-> n][k] = n} = 1..m
  OBVIOUS
<1>2. Cardinality(1..m) = m
  BY FS_Interval
<1> QED BY <1>1, <1>2 DEF Times

\* and one of two parts as often as in both.
LEMMA TimesCat ==
  ASSUME NEW p \in Seq(Nat), NEW q \in Seq(Nat), NEW n \in Nat
  PROVE  Times(p \o q, n) = Times(p, n) + Times(q, n)
<1> DEFINE A == {k \in DOMAIN p : p[k] = n}
           B == {k \in DOMAIN q : q[k] = n}
           C == {k \in DOMAIN (p \o q) : (p \o q)[k] = n}
           D == {k \in Len(p) + 1 .. Len(p) + Len(q) : q[k - Len(p)] = n}
<1>1. /\ DOMAIN p = 1..Len(p) /\ DOMAIN q = 1..Len(q) /\ DOMAIN (p \o q) = 1..(Len(p) + Len(q))
      /\ Len(p) \in Nat /\ Len(q) \in Nat
      /\ \A k \in 1..Len(p) : (p \o q)[k] = p[k]
      /\ \A k \in Len(p) + 1 .. Len(p) + Len(q) : (p \o q)[k] = q[k - Len(p)]
  OBVIOUS
<1>2. IsFiniteSet(A) /\ IsFiniteSet(B)
  BY TimesNat
<1>3. C = A \cup D /\ A \cap D = {}
  BY <1>1
<1>4. ExistsBijection(B, D)
  <2> DEFINE f == [k \in B |-> k + Len(p)]
  <2>1. f \in [B -> D]
    BY <1>1
  <2>2. \A a, b \in B : f[a] = f[b] => a = b
    BY <1>1
  <2>3. \A d \in D : \E b \in B : f[b] = d
    <3>1. ASSUME NEW d \in D PROVE d - Len(p) \in B /\ f[d - Len(p)] = d
      BY <1>1
    <3> QED BY <3>1
  <2> HIDE DEF f
  <2>4. f \in Bijection(B, D)
    BY <2>1, <2>2, <2>3 DEF Bijection, Injection, Surjection, IsInjective
  <2> QED BY <2>4 DEF ExistsBijection
<1> HIDE DEF A, B, C, D
<1>5. IsFiniteSet(D) /\ Cardinality(D) = Cardinality(B)
  BY <1>2, <1>4, FS_Bijection
<1>6. Cardinality(C) = Cardinality(A) + Cardinality(D) - Cardinality(A \cap D)
  BY <1>2, <1>3, <1>5, FS_Union
<1>7. Cardinality(A \cap D) = 0 /\ Cardinality(A) \in Nat /\ Cardinality(D) \in Nat
  BY <1>2, <1>3, <1>5, FS_EmptySet, FS_CardinalityType
<1>8. Cardinality(C) = Cardinality(A) + Cardinality(B)
  BY <1>5, <1>6, <1>7
<1> QED BY <1>8 DEF Times, A, B, C

\* A sequence is its two parts after one another.
LEMMA CutParts ==
  ASSUME NEW q \in Seq(Nat), NEW m \in Nat, m <= Len(q)
  PROVE  /\ \A k \in DOMAIN SubSeq(q, 1, m) : k \in DOMAIN q /\ SubSeq(q, 1, m)[k] = q[k]
         /\ \A k \in DOMAIN SubSeq(q, m + 1, Len(q)) :
              m + k \in DOMAIN q /\ SubSeq(q, m + 1, Len(q))[k] = q[m + k]
         /\ q = SubSeq(q, 1, m) \o SubSeq(q, m + 1, Len(q))
<1> DEFINE a == SubSeq(q, 1, m)
           b == SubSeq(q, m + 1, Len(q))
<1>1. /\ a \in Seq(Nat) /\ Len(a) = m /\ b \in Seq(Nat) /\ Len(b) = Len(q) - m
  BY Cut
<1>2. \A k \in 1..m : a[k] = q[k]
  OBVIOUS
<1>3. \A k \in 1..(Len(q) - m) : b[k] = q[m + k]
  BY SubSeqProperties
<1> HIDE DEF a, b
<1>0. Len(q) \in Nat /\ DOMAIN q = 1..Len(q) /\ DOMAIN a = 1..m /\ DOMAIN b = 1..(Len(q) - m)
  BY <1>1
<1>4. Len(a \o b) = Len(q) /\ a \o b \in Seq(Nat)
  <2>1. a \o b \in Seq(Nat) /\ Len(a \o b) = Len(a) + Len(b)
    BY <1>1, ConcatProperties
  <2> QED BY <1>0, <1>1, <2>1
<1>5. \A k \in 1..Len(q) : (a \o b)[k] = q[k]
  <2>1. ASSUME NEW k \in 1..Len(q), k <= m PROVE (a \o b)[k] = q[k]
    BY <1>1, <1>2, <2>1
  <2>2. ASSUME NEW k \in 1..Len(q), ~(k <= m) PROVE (a \o b)[k] = q[k]
    <3>1. k - m \in 1..(Len(q) - m) /\ m + (k - m) = k /\ k \in 1..(Len(a) + Len(b)) /\ k > Len(a)
      BY <1>0, <1>1, <2>2
    <3>2. (a \o b)[k] = b[k - Len(a)]
      <4>1. \A i \in 1 .. Len(a) + Len(b) : (a \o b)[i] = IF i <= Len(a) THEN a[i] ELSE b[i - Len(a)]
        BY <1>1, ConcatProperties
      <4>2. ~(k <= Len(a))
        BY <1>1, <2>2
      <4> QED BY <3>1, <4>1, <4>2
    <3>3. b[k - m] = q[m + (k - m)]
      BY <1>3, <3>1
    <3> QED BY <1>1, <3>1, <3>2, <3>3
  <2> QED BY <2>1, <2>2
<1>6. a \o b = q
  BY <1>4, <1>5, SeqEqual
<1>7. \A k \in DOMAIN a : k \in DOMAIN q /\ a[k] = q[k]
  BY <1>0, <1>2
<1>8. \A k \in DOMAIN b : m + k \in DOMAIN q /\ b[k] = q[m + k]
  <2>1. ASSUME NEW k \in 1..(Len(q) - m) PROVE m + k \in 1..Len(q)
    BY <1>0
  <2> QED BY <1>0, <1>3, <2>1
<1> QED BY <1>6, <1>7, <1>8 DEF a, b

\* A number is in a sequence as often as in its two parts.
LEMMA TimesCut ==
  ASSUME NEW q \in Seq(Nat), NEW m \in Nat, m <= Len(q), NEW n \in Nat
  PROVE  Times(q, n) = Times(SubSeq(q, 1, m), n) + Times(SubSeq(q, m + 1, Len(q)), n)
<1> DEFINE a == SubSeq(q, 1, m)
           b == SubSeq(q, m + 1, Len(q))
<1>1. a \in Seq(Nat) /\ b \in Seq(Nat)
  BY Cut
<1>2. q = a \o b
  BY CutParts
<1> HIDE DEF a, b
<1>3. Times(a \o b, n) = Times(a, n) + Times(b, n)
  BY <1>1, TimesCat
<1>4. Times(q, n) = Times(a, n) + Times(b, n)
  BY <1>2, <1>3
<1> QED BY <1>4 DEF a, b

\* No unit beyond n: the empty sequence, a larger n, and n itself.
LEMMA UptoCases ==
  ASSUME NEW q \in Seq(Nat), NEW n \in Int
  PROVE  /\ Upto(<<>>, n)
         /\ \A m \in Int : n <= m /\ Upto(q, n) => Upto(q, m)
         /\ n \in Nat /\ Upto(q, n - 1) => Times(q, n) = 0
<1>1. Upto(<<>>, n)
  BY DEF Upto
<1>0. \A k \in DOMAIN q : q[k] \in Nat
  OBVIOUS
<1>2. \A m \in Int : n <= m /\ Upto(q, n) => Upto(q, m)
  BY <1>0 DEF Upto
<1>3. ASSUME n \in Nat, Upto(q, n - 1) PROVE Times(q, n) = 0
  <2>1. \A k \in DOMAIN q : q[k] # n
    BY <1>0, <1>3 DEF Upto
  <2> QED BY <1>3, <2>1, TimesNone
<1> QED BY <1>1, <1>2, <1>3

\* Two sequences after one another,
LEMMA UptoCat ==
  ASSUME NEW p \in Seq(Nat), NEW q \in Seq(Nat), NEW n \in Int, Upto(p, n), Upto(q, n)
  PROVE  Upto(p \o q, n)
<1>1. ASSUME NEW k \in DOMAIN (p \o q), k <= Len(p) PROVE (p \o q)[k] <= n
  BY <1>1 DEF Upto
<1>2. ASSUME NEW k \in DOMAIN (p \o q), ~(k <= Len(p)) PROVE (p \o q)[k] <= n
  <2>1. (p \o q)[k] = q[k - Len(p)] /\ k - Len(p) \in DOMAIN q
    BY <1>2
  <2> QED BY <2>1 DEF Upto
<1> QED BY <1>1, <1>2 DEF Upto

\* the two parts of one,
LEMMA UptoCut ==
  ASSUME NEW q \in Seq(Nat), NEW m \in Nat, m <= Len(q), NEW n \in Int, Upto(q, n)
  PROVE  Upto(SubSeq(q, 1, m), n) /\ Upto(SubSeq(q, m + 1, Len(q)), n)
<1> DEFINE a == SubSeq(q, 1, m)
           b == SubSeq(q, m + 1, Len(q))
<1>1. /\ \A k \in DOMAIN a : k \in DOMAIN q /\ a[k] = q[k]
      /\ \A k \in DOMAIN b : m + k \in DOMAIN q /\ b[k] = q[m + k]
  BY CutParts
<1> HIDE DEF a, b
<1>2. Upto(a, n) /\ Upto(b, n)
  BY <1>1 DEF Upto
<1> QED BY <1>2 DEF a, b

\* and a chunk.
LEMMA UptoChunk ==
  ASSUME NEW m \in Nat, NEW n \in Nat
  PROVE  Upto([k \in 1..m |-> n], n)
BY DEF Upto

\* Where no unit moves, nothing is lost.
LEMMA StillKeeps ==
  ASSUME Inv, NEW s \in Sources, Known(s), Whole(s), UNCHANGED setup, Still(s)
  PROVE  Kept(s)
<1>1. /\ out[s] \in Seq(Nat) /\ outbuf[s] \in Seq(Nat) /\ path[s].buf \in Seq(Nat)
      /\ written[s] \in Nat /\ Size' = Size
  BY DEF Inv, TypeOK, DataOK, PathsOK, Flags, Size
<1>2. Last(s) \in Int /\ Last(s)' \in Int /\ Last(s) <= Last(s)'
  BY <1>1 DEF Still, Last
<1>3. /\ Upto(out[s], Last(s)') /\ Upto(outbuf[s], Last(s)') /\ Upto(path[s].buf, Last(s)')
  BY <1>1, <1>2, UptoCases DEF Known
<1>4. Known(s)'
  <2>1. out'[s] = out[s] /\ outbuf'[s] = outbuf[s] /\ path'[s].buf = path[s].buf
    BY DEF Still
  <2> QED BY <1>3, <2>1 DEF Known
<1>5. Whole(s)'
  <2> HIDE DEF InHand
  <2> QED BY <1>1 DEF Still, Whole
<1> QED BY <1>4, <1>5 DEF Kept

\* The data of a source is well formed.
LEMMA Stuff ==
  ASSUME Inv, NEW s \in Sources
  PROVE  /\ out[s] \in Seq(Nat) /\ outbuf[s] \in Seq(Nat) /\ path[s].buf \in Seq(Nat)
         /\ written[s] \in Nat /\ Size[s] \in Nat /\ TargetSize \in Nat /\ Last(s) \in Int
         /\ path \in [Sources -> Flags] /\ InHand(s) \in Seq(Nat)
<1>1. /\ out[s] \in Seq(Nat) /\ outbuf[s] \in Seq(Nat) /\ path[s].buf \in Seq(Nat)
      /\ written[s] \in Nat /\ path \in [Sources -> Flags]
  BY DEF Inv, TypeOK, DataOK, PathsOK, Flags
<1>2. Last(s) \in Int
  BY <1>1 DEF Last
<1>3. InHand(s) \in Seq(Nat)
  BY <1>1 DEF InHand
<1> QED BY <1>1, <1>2, <1>3, Sizes

\* The step of another,
LEMMA Elsewhere ==
  ASSUME NEW s \in Sources, out'[s] = out[s], outbuf'[s] = outbuf[s], path'[s] = path[s],
         written'[s] = written[s], pc'[s] = pc[s], InHand(s)' = InHand(s)
  PROVE  Still(s)
BY DEF Still

\* and the end or the begin of a path that nobody writes to.
LEMMA Emptied ==
  ASSUME Inv, NEW s \in Sources, Known(s), UNCHANGED setup, out'[s] = out[s],
         outbuf'[s] = outbuf[s], written'[s] = written[s], path'[s].buf = <<>>, pc'[s] \notin Writes
  PROVE  Kept(s)
<1>1. pc'[s] \notin Early \cup Written
  BY DEF Writes, Early, Written
<1>2. Last(s)' = written[s] /\ Last(s) <= written[s]
  BY <1>1, Stuff DEF Last
<1>3. Upto(out[s], Last(s)') /\ Upto(outbuf[s], Last(s)') /\ Upto(<<>>, Last(s)')
  BY <1>2, Stuff, UptoCases DEF Known
<1>4. Known(s)' /\ Whole(s)'
  BY <1>1, <1>3 DEF Known, Whole
<1> QED BY <1>4 DEF Kept

(* What unlinking a path leaves as it is.                                  *)
LEMMA UnlinkLeaves ==
  ASSUME Inv, NEW p, NEW x \in Sources, Unlink(p, x), NEW s \in Sources
  PROVE  /\ path'[s].buf = path[s].buf /\ path'[s].isWait = path[s].isWait
         /\ path'[s].inSync = path[s].inSync /\ (path[s].sync => path'[s].sync)
         /\ s # x => path'[s].listed = path[s].listed
<1>1. path[s] \in Flags
  BY DEF Inv, TypeOK, PathsOK
<1>2. path' = [r \in Sources |->
                 IF r = x THEN [path[x] EXCEPT !.listed = FALSE]
                 ELSE IF PathList \ {x} = {r} THEN [path[r] EXCEPT !.sync = @ \/ r \in Sync]
                 ELSE path[r]]
  BY DEF Unlink
<1>3. CASE s = x
  BY <1>1, <1>2, <1>3 DEF Flags
<1>4. CASE s # x /\ PathList \ {x} = {s}
  <2>1. path'[s] = [path[s] EXCEPT !.sync = @ \/ s \in Sync]
    BY <1>2, <1>4
  <2> QED BY <1>1, <1>4, <2>1 DEF Flags
<1>5. CASE s # x /\ PathList \ {x} # {s}
  BY <1>2, <1>5
<1> QED BY <1>3, <1>4, <1>5

\* What the signal to a writer depends on is left alone.
LEMMA Unmoved ==
  ASSUME NEW s \in Sources, Waits(s), UNCHANGED setup, out'[s] = out[s], written'[s] = written[s],
         pc'[s] = pc[s], pcond'[s] = pcond[s], plock'[s] = plock[s],
         path'[s].isWait = path[s].isWait, path'[s].listed = path[s].listed,
         path'[s].inSync = path[s].inSync, path'[s].sync = path[s].sync
  PROVE  Waits(s)'
<1>1. Size' = Size
  BY DEF Size
<1> QED BY <1>1 DEF Waits

\* The functions over the sources are what they are said to be.
LEMMA Typed ==
  ASSUME Inv
  PROVE  /\ pc = [p \in Procs |-> pc[p]] /\ path \in [Sources -> Flags]
         /\ \A s \in Sources : path[s] \in Flags /\ pcond[s] \in {0, 1} /\ s \in Procs /\ s # Mixer /\ s # Free
         /\ plock \in [Sources -> Procs \cup {Free}] /\ pcond \in [Sources -> {0, 1}]
         /\ out \in [Sources -> Seq(Nat)] /\ written \in [Sources -> Nat]
BY NameAssumption DEF Inv, TypeOK, PointsOK, PathsOK, LocksOK, DataOK, Procs

(* What the thread takes of a source it takes when it holds nothing of it. *)
LEMMA UntakenKept ==
  ASSUME Inv, DoneInv, ~WaitTimeout, UNCHANGED setup, Move
  PROVE  Untaken'
<1> USE NameAssumption DEF Inv, DoneInv, TypeOK, Procs, At, Go, Take, Release, locks, hist, Untaken,
        PointsOK, DataOK, PathsOK, Works, Away, Writes, Changes, Detaches, Stays
<1>1. ASSUME MixerMove
      PROVE  Untaken'
  <2>1. CASE ThreadWake
    BY <2>1 DEF ThreadWake
  <2>2. CASE Launches
    BY <2>2 DEF Launches
  <2>3. CASE GoesIdle
    BY <2>3 DEF GoesIdle
  <2>4. CASE Ends
    BY <2>4 DEF Ends
  <2>5. CASE ThreadLock
    BY <2>5 DEF ThreadLock
  <2>6. CASE LeavesTo("idle", TRUE)
    BY <2>6 DEF LeavesTo
  <2>7. CASE LeavesTo("dead", FALSE)
    BY <2>7 DEF LeavesTo
  <2>8. CASE Enters
    BY <2>8 DEF Enters
  <2>9. CASE MixEnter
    BY <2>9 DEF MixEnter
  <2>10. CASE LooksNoMore("waited")
    BY <2>10 DEF LooksNoMore
  <2>11. CASE LooksNoMore("mixing")
    BY <2>11 DEF LooksNoMore
  <2>12. CASE Pauses("asleep")
    BY <2>12 DEF Pauses
  <2>13. CASE Pauses("waiting")
    BY <2>13 DEF Pauses
  <2>14. CASE Wakes("waiting", "woken")
    BY <2>14 DEF Wakes
  <2>15. CASE Wakes("asleep", "roused")
    BY <2>15 DEF Wakes
  <2>16. CASE MixerTimesOut
    BY <2>16 DEF MixerTimesOut
  <2>17. CASE BreaksOff
    BY <2>17 DEF BreaksOff
  <2>18. CASE TurnsDirect
    BY <2>18 DEF TurnsDirect
  <2>19. CASE LooksAgain
    BY <2>19 DEF LooksAgain
  <2>20. CASE AfterSleep
    BY <2>20 DEF AfterSleep
  <2>21. CASE AwaitDirect
    BY <2>21 DEF AwaitDirect
  <2>22. CASE AfterLook
    BY <2>22 DEF AfterLook
  <2>23. CASE StartMix
    BY <2>23 DEF StartMix
  <2>24. CASE SelectsNone
    BY <2>24 DEF SelectsNone, Chosen
  <2>25. CASE SelectsSome
    <3>1. \A s \in Sources : outbuf[s] = <<>>
      BY <2>25 DEF SelectsSome
    <3>2. Chosen \subseteq Sources
      BY DEF Chosen, PathList
    <3>3. outbuf' = outbuf /\ todo'[Mixer] = Chosen /\ pc'[Mixer] = "copy"
      BY <2>25 DEF SelectsSome
    <3> QED BY <3>1, <3>2, <3>3
  <2>26. CASE BeginWrite
    BY <2>26 DEF BeginWrite
  <2>27. CASE EndWrite
    BY <2>27 DEF EndWrite
  <2>28. CASE MixDone
    BY <2>28 DEF MixDone
  <2>29. ASSUME NEW x \in Sources, SkipsPath(x) PROVE Untaken'
    BY <2>29 DEF SkipsPath
  <2>30. ASSUME NEW x \in Sources, Underflows(x) PROVE Untaken'
    BY <2>30 DEF Underflows
  <2>31. ASSUME NEW x \in Sources, Picks(x) PROVE Untaken'
    BY <2>31 DEF Picks
  <2>32. ASSUME NEW x \in Sources, Copy(x) PROVE Untaken'
    BY <2>32 DEF Copy, Visit
  <2>33. ASSUME NEW x \in Sources, SignalsWriter(x) PROVE Untaken'
    BY <2>33 DEF SignalsWriter
  <2>34. ASSUME NEW x \in Sources, PassesWriter(x) PROVE Untaken'
    BY <2>34 DEF PassesWriter
  <2> HIDE DEF Inv, Untaken, PointsOK, DataOK, PathsOK
  <2> QED BY <1>1, <2>1, <2>2, <2>3, <2>4, <2>5, <2>6, <2>7, <2>8, <2>9, <2>10, <2>11, <2>12,
      <2>13, <2>14, <2>15, <2>16, <2>17, <2>18, <2>19, <2>20, <2>21, <2>22, <2>23, <2>24,
      <2>25, <2>26, <2>27, <2>28, <2>29, <2>30, <2>31, <2>32, <2>33, <2>34 DEF MixerMove
<1>2. ASSUME NEW x \in Sources, SourceMove(x)
      PROVE  Untaken'
  <2>1. CASE SourceAttach(x)
    BY <2>1 DEF SourceAttach
  <2>2. CASE Knows(x)
    BY <2>2 DEF Knows
  <2>3. CASE Joins(x)
    BY <2>3 DEF Joins, CreatePath, NoPath
  <2>4. CASE CallWrite(x)
    BY <2>4 DEF CallWrite
  <2>5. CASE ChoosesLoud(x, TRUE, "direct")
    BY <2>5 DEF ChoosesLoud, Signals
  <2>6. CASE ChoosesLoud(x, FALSE, "put")
    BY <2>6 DEF ChoosesLoud, Signals
  <2>7. CASE ChoosesSilent(x, TRUE, "direct")
    BY <2>7 DEF ChoosesSilent, Silent
  <2>8. CASE ChoosesSilent(x, FALSE, "put")
    BY <2>8 DEF ChoosesSilent, Silent
  <2>9. CASE TakeDirect(x)
    BY <2>9 DEF TakeDirect
  <2>10. CASE DirectWrite(x)
    BY <2>10 DEF DirectWrite
  <2>11. CASE DirectDone(x)
    BY <2>11 DEF DirectDone
  <2>12. CASE CallPut(x)
    BY <2>12 DEF CallPut
  <2>13. CASE Suspend(x)
    BY <2>13 DEF Suspend
  <2>14. CASE Drop(x)
    BY <2>14 DEF Drop
  <2>15. CASE Fill(x)
    BY <2>15 DEF Fill
  <2>16. CASE SleepsLoud(x)
    BY <2>16 DEF SleepsLoud, Signals
  <2>17. CASE SleepsSilent(x)
    BY <2>17 DEF SleepsSilent
  <2>18. CASE ReturnsLoud(x)
    BY <2>18 DEF ReturnsLoud, Signals
  <2>19. CASE ReturnsSilent(x)
    BY <2>19 DEF ReturnsSilent
  <2>20. CASE Returned(x)
    BY <2>20 DEF Returned
  <2>21. CASE TooLate(x)
    BY <2>21 DEF TooLate
  <2>22. CASE WriteReturns(x)
    BY <2>22 DEF WriteReturns
  <2>23. CASE SourceDetach(x)
    BY <2>23 DEF SourceDetach
  <2>24. CASE SourceUnlink(x)
    BY <2>24 DEF SourceUnlink, Unlink
  <2>25. CASE BroadcastsLoud(x, x)
    BY <2>25 DEF BroadcastsLoud, Signals
  <2>26. CASE BroadcastsSilent(x, x)
    BY <2>26 DEF BroadcastsSilent
  <2>27. CASE Frees(x, "free")
    BY <2>27 DEF Frees, NoPath
  <2>28. CASE Frees(x, "detach")
    BY <2>28 DEF Frees, NoPath
  <2> HIDE DEF Inv, Untaken, PointsOK, DataOK, PathsOK
  <2> QED BY <1>2, <2>1, <2>2, <2>3, <2>4, <2>5, <2>6, <2>7, <2>8, <2>9, <2>10, <2>11, <2>12,
      <2>13, <2>14, <2>15, <2>16, <2>17, <2>18, <2>19, <2>20, <2>21, <2>22, <2>23, <2>24,
      <2>25, <2>26, <2>27, <2>28 DEF SourceMove
<1>3. ASSUME ControlMove
      PROVE  Untaken'
  <2>1. CASE TargetAttach
    BY <2>1 DEF TargetAttach, NoTarget
  <2>2. CASE TakeThread
    BY <2>2 DEF TakeThread
  <2>3. CASE AssignTarget
    BY <2>3 DEF AssignTarget, WakeThread
  <2>4. ASSUME NEW x \in Sources, AttachPath(x) PROVE Untaken'
    BY <2>4 DEF AttachPath, CreatePath, NoPath
  <2>5. CASE Attached
    BY <2>5 DEF Attached, ReleaseAll
  <2>6. CASE TargetDetach
    BY <2>6 DEF TargetDetach
  <2>7. CASE TakeManager
    BY <2>7 DEF TakeManager
  <2>8. CASE TerminatesLoud
    BY <2>8 DEF TerminatesLoud, Signals
  <2>9. CASE TerminatesSilent
    BY <2>9 DEF TerminatesSilent
  <2>10. CASE AwaitsLock("wait_idle", "thread", "wait_target")
    BY <2>10 DEF AwaitsLock
  <2>11. CASE AwaitsLock("wait_target", "target", "unassign")
    BY <2>11 DEF AwaitsLock
  <2>12. CASE UnassignTarget
    BY <2>12 DEF UnassignTarget
  <2>13. ASSUME NEW x \in Sources, DetachPath(x) PROVE Untaken'
    BY <2>13 DEF DetachPath, Unlink
  <2>14. ASSUME NEW x \in Sources, BroadcastsLoud(Control, x) PROVE Untaken'
    BY <2>14 DEF BroadcastsLoud, Signals
  <2>15. ASSUME NEW x \in Sources, BroadcastsSilent(Control, x) PROVE Untaken'
    BY <2>15 DEF BroadcastsSilent
  <2>16. ASSUME NEW x \in Sources, FreePath(x) PROVE Untaken'
    BY <2>16 DEF FreePath, NoPath
  <2>17. CASE Detached
    BY <2>17 DEF Detached, ReleaseAll, NoTarget
  <2>18. CASE Deinit
    BY <2>18 DEF Deinit
  <2>19. CASE DeinitSignal
    BY <2>19 DEF DeinitSignal, WakeThread
  <2> HIDE DEF Inv, Untaken, PointsOK, DataOK, PathsOK
  <2> QED BY <1>3, <2>1, <2>2, <2>3, <2>4, <2>5, <2>6, <2>7, <2>8, <2>9, <2>10, <2>11, <2>12,
      <2>13, <2>14, <2>15, <2>16, <2>17, <2>18, <2>19 DEF ControlMove
<1> HIDE DEF Inv, Untaken, PointsOK, DataOK, PathsOK
<1> QED BY <1>1, <1>2, <1>3 DEF Move

(* No unit is lost, and none is in two places.                             *)
LEMMA UnitsKept ==
  ASSUME Inv, DoneInv, ~WaitTimeout, UNCHANGED setup, Move
  PROVE  \A s \in Sources : Still(s) \/ Kept(s)
<1> USE NameAssumption DEF Inv, DoneInv, TypeOK, Procs, At, Go, Take, Release, locks, hist, PointsOK,
        DataOK, PathsOK, Flags, Works, Away, Writes, Changes, Detaches, Stays, Still, InHand,
        Early, Written, Untaken
<1>1. ASSUME MixerMove
      PROVE  \A s \in Sources : Still(s) \/ Kept(s)
  <2>1. ASSUME NEW x \in Sources, SkipsPath(x) PROVE \A s \in Sources : Still(s) \/ Kept(s)
    BY <2>1 DEF SkipsPath
  <2>2. CASE ThreadWake
    BY <2>2 DEF ThreadWake
  <2>3. CASE Launches
    BY <2>3 DEF Launches
  <2>4. CASE GoesIdle
    BY <2>4 DEF GoesIdle
  <2>5. CASE Ends
    BY <2>5 DEF Ends
  <2>6. CASE ThreadLock
    BY <2>6 DEF ThreadLock
  <2>7. CASE LeavesTo("idle", TRUE)
    BY <2>7 DEF LeavesTo
  <2>8. CASE LeavesTo("dead", FALSE)
    BY <2>8 DEF LeavesTo
  <2>9. CASE Enters
    BY <2>9 DEF Enters
  <2>10. CASE MixEnter
    BY <2>10 DEF MixEnter
  <2>11. CASE LooksNoMore("waited")
    BY <2>11 DEF LooksNoMore
  <2>12. CASE LooksNoMore("mixing")
    BY <2>12 DEF LooksNoMore
  <2>13. CASE Pauses("asleep")
    BY <2>13 DEF Pauses
  <2>14. CASE Pauses("waiting")
    BY <2>14 DEF Pauses
  <2>15. CASE Wakes("waiting", "woken")
    BY <2>15 DEF Wakes
  <2>16. CASE Wakes("asleep", "roused")
    BY <2>16 DEF Wakes
  <2>17. CASE MixerTimesOut
    BY <2>17 DEF MixerTimesOut
  <2>18. CASE BreaksOff
    BY <2>18 DEF BreaksOff
  <2>19. CASE TurnsDirect
    BY <2>19 DEF TurnsDirect
  <2>20. CASE LooksAgain
    BY <2>20 DEF LooksAgain
  <2>21. CASE AfterSleep
    BY <2>21 DEF AfterSleep
  <2>22. CASE AwaitDirect
    BY <2>22 DEF AwaitDirect
  <2>23. CASE AfterLook
    BY <2>23 DEF AfterLook
  <2>24. CASE StartMix
    <3>1. ASSUME NEW s \in Sources PROVE Kept(s)
      <4>1. /\ out'[s] = out[s] /\ outbuf'[s] = <<>> /\ path'[s] = path[s] /\ pc'[s] = pc[s]
            /\ written'[s] = written[s] /\ InHand(s)' = InHand(s) /\ Size' = Size
        BY <2>24, NameAssumption DEF StartMix, Size
      <4> HIDE DEF Inv, DoneInv, TypeOK, PointsOK, DataOK, PathsOK, Flags, InHand, Untaken
      <4>2. Known(s) /\ Whole(s)
        BY DEF DoneInv
      <4>3. Last(s)' = Last(s) /\ Upto(<<>>, Last(s))
        BY <4>1, Stuff, UptoCases DEF Last
      <4>4. Known(s)'
        BY <4>1, <4>2, <4>3 DEF Known
      <4>5. Whole(s)'
        BY <4>1, <4>2 DEF Whole
      <4> QED BY <4>4, <4>5 DEF Kept
    <3> QED BY <3>1
  <2>25. CASE SelectsNone
    BY <2>25 DEF SelectsNone, Chosen
  <2>26. CASE SelectsSome
    BY <2>26 DEF SelectsSome, Chosen
  <2>27. CASE BeginWrite
    <3>1. ASSUME NEW s \in Sources PROVE Kept(s)
      <4>1. /\ out'[s] = out[s] \o outbuf[s] /\ outbuf'[s] = outbuf[s] /\ path'[s] = path[s] /\ pc'[s] = pc[s]
            /\ written'[s] = written[s] /\ InHand(s) = outbuf[s] /\ InHand(s)' = <<>> /\ Size' = Size
        BY <2>27, NameAssumption DEF BeginWrite, Size
      <4> HIDE DEF Inv, DoneInv, TypeOK, PointsOK, DataOK, PathsOK, Flags, InHand, Untaken
      <4>2. Known(s) /\ Whole(s)
        BY DEF DoneInv
      <4>3. Last(s)' = Last(s)
        BY <4>1 DEF Last
      <4>4. Upto(out[s] \o outbuf[s], Last(s))
        BY <4>2, Stuff, UptoCat DEF Known
      <4>5. Known(s)'
        BY <4>1, <4>2, <4>3, <4>4 DEF Known
      <4>6. /\ Times(out[s] \o outbuf[s], written[s]) = Times(out[s], written[s]) + Times(outbuf[s], written[s])
            /\ Times(<<>>, written[s]) = 0 /\ Times(out[s], written[s]) \in Nat
            /\ Times(outbuf[s], written[s]) \in Nat /\ Times(path[s].buf, written[s]) \in Nat
        <5>1. <<>> \in Seq(Nat) /\ \A k \in DOMAIN <<>> : <<>>[k] # written[s]
          OBVIOUS
        <5>2. Times(out[s] \o outbuf[s], written[s]) = Times(out[s], written[s]) + Times(outbuf[s], written[s])
          BY Stuff, TimesCat
        <5>3. Times(<<>>, written[s]) = 0
          BY <5>1, Stuff, TimesNone
        <5>4. /\ Times(out[s], written[s]) \in Nat /\ Times(outbuf[s], written[s]) \in Nat
              /\ Times(path[s].buf, written[s]) \in Nat
          BY Stuff, TimesNat
        <5> QED BY <5>2, <5>3, <5>4
      <4>7. Whole(s)'
        <5>1. pc[s] \in Written => Times(out[s] \o outbuf[s], written[s]) + Times(<<>>, written[s])
                                     + Times(path[s].buf, written[s]) = Size[s]
          BY <4>1, <4>2, <4>6 DEF Whole
        <5> QED BY <4>1, <5>1 DEF Whole
      <4> QED BY <4>5, <4>7 DEF Kept
    <3> QED BY <3>1
  <2>28. CASE EndWrite
    BY <2>28 DEF EndWrite
  <2>29. CASE MixDone
    BY <2>29 DEF MixDone
  <2>30. ASSUME NEW x \in Sources, Underflows(x) PROVE \A s \in Sources : Still(s) \/ Kept(s)
    BY <2>30 DEF Underflows
  <2>31. ASSUME NEW x \in Sources, Picks(x) PROVE \A s \in Sources : Still(s) \/ Kept(s)
    BY <2>31 DEF Picks
  <2>32. ASSUME NEW x \in Sources, Copy(x) PROVE \A s \in Sources : Still(s) \/ Kept(s)
    <3> HIDE DEF Inv, DoneInv, TypeOK, PointsOK, DataOK, PathsOK, Flags
    <3> DEFINE rest == SubSeq(path[x].buf, TargetSize + 1, Len(path[x].buf))
               part == SubSeq(path[x].buf, 1, TargetSize)
    <3>1. path \in [Sources -> Flags] /\ path[x].buf \in Seq(Nat) /\ outbuf \in [Sources -> Seq(Nat)]
      BY DEF Inv, TypeOK, PathsOK, DataOK, Flags
    <3>2. /\ pc[Mixer] = "copy" /\ pc' = pc /\ out' = out /\ written' = written /\ Size' = Size
          /\ path' = [path EXCEPT ![x] = [path[x] EXCEPT !.buf = rest,
                                                         !.enough = @ /\ Len(rest) >= TargetSize]]
          /\ outbuf' = [outbuf EXCEPT ![x] = part]
      BY <2>32 DEF Copy, Visit, Size, hist, At
    <3>3. outbuf[x] = <<>>
      <4>1. x \in todo[Mixer]
        BY <2>32, FirstIsIn DEF Copy, Visit, Inv, TypeOK, PathsOK
      <4> QED BY <3>2, <4>1 DEF DoneInv, Untaken
    <3>4. TargetSize \in Nat /\ TargetSize <= Len(path[x].buf)
      BY <2>32, CopyHasAll
    <3> HIDE DEF rest, part
    <3>5. path'[x].buf = rest /\ outbuf'[x] = part /\ InHand(x) = outbuf[x] /\ InHand(x)' = part
      BY <3>1, <3>2 DEF Flags, InHand
    <3>6. ASSUME NEW s \in Sources, s # x PROVE Still(s)
      <4>1. InHand(s)' = InHand(s)
        BY <3>1, <3>2, <3>6 DEF InHand
      <4> QED BY <3>1, <3>2, <3>6, <4>1, Elsewhere
    <3>7. Kept(x)
      <4>1. Known(x) /\ Whole(x)
        BY DEF DoneInv
      <4>2. Last(x)' = Last(x)
        BY <3>2 DEF Last
      <4>3. Upto(part, Last(x)) /\ Upto(rest, Last(x))
        BY <3>4, <4>1, Stuff, UptoCut DEF Known, part, rest
      <4>4. Known(x)'
        BY <3>2, <3>5, <4>1, <4>2, <4>3 DEF Known
      <4>5. /\ Times(path[x].buf, written[x]) = Times(part, written[x]) + Times(rest, written[x])
            /\ Times(<<>>, written[x]) = 0 /\ Times(part, written[x]) \in Nat
            /\ Times(rest, written[x]) \in Nat /\ Times(out[x], written[x]) \in Nat
        <5>1. <<>> \in Seq(Nat) /\ \A k \in DOMAIN <<>> : <<>>[k] # written[x]
          OBVIOUS
        <5>2. part \in Seq(Nat) /\ rest \in Seq(Nat)
          BY <3>1, <3>4, Cut DEF part, rest
        <5>3. Times(path[x].buf, written[x]) = Times(part, written[x]) + Times(rest, written[x])
          BY <3>1, <3>4, Stuff, TimesCut DEF part, rest
        <5> QED BY <5>1, <5>2, <5>3, Stuff, TimesNone, TimesNat
      <4>6. pc[x] \in Written => Times(out[x], written[x]) + Times(part, written[x]) + Times(rest, written[x]) = Size[x]
        BY <3>3, <3>5, <4>1, <4>5 DEF Whole
      <4>7. Whole(x)'
        BY <3>2, <3>5, <4>6 DEF Whole
      <4> QED BY <4>4, <4>7 DEF Kept
    <3> QED BY <3>6, <3>7
  <2>33. ASSUME NEW x \in Sources, SignalsWriter(x) PROVE \A s \in Sources : Still(s) \/ Kept(s)
    BY <2>33 DEF SignalsWriter
  <2>34. ASSUME NEW x \in Sources, PassesWriter(x) PROVE \A s \in Sources : Still(s) \/ Kept(s)
    BY <2>34 DEF PassesWriter
  <2> HIDE DEF Inv, Still, PointsOK, DataOK, PathsOK
  <2> QED BY <1>1, <2>1, <2>2, <2>3, <2>4, <2>5, <2>6, <2>7, <2>8, <2>9, <2>10, <2>11, <2>12,
      <2>13, <2>14, <2>15, <2>16, <2>17, <2>18, <2>19, <2>20, <2>21, <2>22, <2>23, <2>24,
      <2>25, <2>26, <2>27, <2>28, <2>29, <2>30, <2>31, <2>32, <2>33, <2>34 DEF MixerMove
<1>2. ASSUME NEW x \in Sources, SourceMove(x)
      PROVE  \A s \in Sources : Still(s) \/ Kept(s)
  <2>1. CASE SourceAttach(x)
    BY <2>1 DEF SourceAttach
  <2>2. CASE Knows(x)
    BY <2>2 DEF Knows
  <2>3. CASE Joins(x)
    <3>1. /\ \A s \in Sources \ {x} : path'[s] = path[s] /\ pc'[s] = pc[s]
          /\ path'[x].buf = <<>> /\ pc'[x] = "idle"
          /\ \A s \in Sources : out'[s] = out[s] /\ outbuf'[s] = outbuf[s] /\ written'[s] = written[s]
                                /\ InHand(s)' = InHand(s)
      BY <2>3 DEF Joins, CreatePath, NoPath
    <3> HIDE DEF Inv, DoneInv, TypeOK, PointsOK, DataOK, PathsOK, Flags, InHand, Still
    <3> QED BY <3>1, Elsewhere, Emptied DEF DoneInv, Writes
  <2>4. CASE CallWrite(x)
    <3>1. /\ \A s \in Sources \ {x} : written'[s] = written[s] /\ pc'[s] = pc[s]
          /\ pc[x] = "idle" /\ pc'[x] = "mode" /\ written'[x] = written[x] + 1
          /\ \A s \in Sources : out'[s] = out[s] /\ outbuf'[s] = outbuf[s] /\ path'[s] = path[s]
                                /\ InHand(s)' = InHand(s)
      BY <2>4 DEF CallWrite
    <3> HIDE DEF Inv, DoneInv, TypeOK, PointsOK, DataOK, PathsOK, Flags, InHand, Still
    <3>2. Kept(x)
      <4>1. Last(x)' = Last(x)
        BY <3>1, Stuff DEF Last, Early
      <4>2. Known(x)'
        BY <3>1, <4>1 DEF Known, DoneInv
      <4>3. Whole(x)'
        BY <3>1 DEF Whole
      <4> QED BY <4>2, <4>3 DEF Kept
    <3> QED BY <3>1, <3>2, Elsewhere
  <2>5. CASE ChoosesLoud(x, TRUE, "direct")
    BY <2>5 DEF ChoosesLoud, Signals
  <2>6. CASE ChoosesLoud(x, FALSE, "put")
    BY <2>6 DEF ChoosesLoud, Signals
  <2>7. CASE ChoosesSilent(x, TRUE, "direct")
    BY <2>7 DEF ChoosesSilent, Silent
  <2>8. CASE ChoosesSilent(x, FALSE, "put")
    BY <2>8 DEF ChoosesSilent, Silent
  <2>9. CASE TakeDirect(x)
    BY <2>9 DEF TakeDirect
  <2>10. CASE DirectWrite(x)
    <3>1. /\ \A s \in Sources \ {x} : path'[s] = path[s] /\ pc'[s] = pc[s] /\ out'[s] = out[s]
          /\ pc[x] = "mine" /\ pc'[x] = "direct_writing" /\ path'[x].buf = path[x].buf
          /\ out'[x] = out[x] \o [n \in 1..Size[x] |-> written[x]]
          /\ \A s \in Sources : outbuf'[s] = outbuf[s] /\ written'[s] = written[s]
                                /\ InHand(s)' = InHand(s)
      <4> HIDE DEF Inv, DoneInv, TypeOK, PointsOK, DataOK, PathsOK, Flags, InHand, Still
      <4> DEFINE c == [n \in 1..Size[x] |-> written[x]]
      <4>1. /\ path \in [Sources -> Flags] /\ pc = [p \in Procs |-> pc[p]] /\ out \in [Sources -> Seq(Nat)]
            /\ path[x] \in Flags
        BY DEF Inv, TypeOK, PathsOK, PointsOK, DataOK
      <4>2. /\ pc' = [pc EXCEPT ![x] = "direct_writing"] /\ pc[x] = "mine" /\ UNCHANGED <<outbuf, written>>
            /\ out' = [out EXCEPT ![x] = @ \o c]
            /\ path' = [path EXCEPT ![x].start = TRUE, ![x].underflow = FALSE, ![x].enough = FALSE,
                                    ![x].isWait = FALSE]
        BY <2>10 DEF DirectWrite
      <4> HIDE DEF c
      <4>3. pc'[Mixer] = pc[Mixer] /\ pc'[x] = "direct_writing"
        BY <4>1, <4>2, NameAssumption DEF Procs
      <4>4. \A s \in Sources \ {x} : path'[s] = path[s] /\ pc'[s] = pc[s] /\ out'[s] = out[s]
        BY <4>1, <4>2
      <4>5. path'[x].buf = path[x].buf
        BY <4>1, <4>2 DEF Flags
      <4>6. out'[x] = out[x] \o c
        BY <4>1, <4>2
      <4>7. \A s \in Sources : outbuf'[s] = outbuf[s] /\ written'[s] = written[s] /\ InHand(s)' = InHand(s)
        BY <4>2, <4>3 DEF InHand
      <4> QED BY <4>2, <4>3, <4>4, <4>5, <4>6, <4>7 DEF c
    <3> HIDE DEF Inv, DoneInv, TypeOK, PointsOK, DataOK, PathsOK, Flags, InHand, Still
    <3>2. Kept(x)
      <4>1. Last(x)' = written[x] /\ Last(x) <= written[x]
        BY <3>1, Stuff DEF Last, Early
      <4>2. Upto(out[x], written[x]) /\ Upto(outbuf[x], written[x]) /\ Upto(path[x].buf, written[x])
        BY <4>1, Stuff, UptoCases DEF DoneInv, Known
      <4>3. Upto(out[x] \o [n \in 1..Size[x] |-> written[x]], written[x])
        <5> DEFINE c == [n \in 1..Size[x] |-> written[x]]
        <5>1. c \in Seq(Nat)
          BY Stuff, Chunk
        <5>2. Upto(c, written[x])
          BY Stuff, UptoChunk
        <5> HIDE DEF c
        <5>3. Upto(out[x] \o c, written[x])
          BY <4>2, <5>1, <5>2, Stuff, UptoCat
        <5> QED BY <5>3 DEF c
      <4>4. Known(x)'
        BY <3>1, <4>1, <4>2, <4>3 DEF Known
      <4>5. Whole(x)'
        BY <3>1 DEF Whole
      <4> QED BY <4>4, <4>5 DEF Kept
    <3> QED BY <3>1, <3>2, Elsewhere
  <2>11. CASE DirectDone(x)
    BY <2>11 DEF DirectDone
  <2>12. CASE CallPut(x)
    BY <2>12 DEF CallPut
  <2>13. CASE Suspend(x)
    BY <2>13 DEF Suspend
  <2>14. CASE Drop(x)
    BY <2>14 DEF Drop
  <2>15. CASE Fill(x)
    <3> HIDE DEF Inv, DoneInv, TypeOK, PointsOK, DataOK, PathsOK, Flags, Still
    <3> DEFINE c == [n \in 1..Size[x] |-> written[x]]
               buf == path[x].buf \o c
               enough == Len(buf) >= TargetSize
    <3>1. path \in [Sources -> Flags] /\ pc = [p \in Procs |-> pc[p]]
      BY DEF Inv, TypeOK, PathsOK, PointsOK
    <3>2. /\ \A s \in Sources \ {x} : path'[s] = path[s] /\ pc'[s] = pc[s]
          /\ pc[x] = "fill" /\ pc'[x] = "signal" /\ path'[x].buf = buf
          /\ \A s \in Sources : outbuf'[s] = outbuf[s] /\ written'[s] = written[s] /\ out'[s] = out[s]
                                /\ InHand(s)' = InHand(s)
          /\ Size' = Size
      <4>1. PICK wait \in BOOLEAN : path' = [path EXCEPT ![x] =
              [path[x] EXCEPT !.buf = buf, !.start = @ \/ enough, !.underflow = @ /\ ~enough,
                              !.enough = @ \/ enough, !.isWait = wait]]
        BY <2>15 DEF Fill
      <4>2. pc' = [pc EXCEPT ![x] = "signal"] /\ pc[x] = "fill" /\ UNCHANGED <<out, outbuf, written>> /\ Size' = Size
        BY <2>15 DEF Fill, Size
      <4> HIDE DEF buf
      <4>3. pc'[Mixer] = pc[Mixer] /\ pc'[x] = "signal"
        BY <3>1, <4>2, NameAssumption DEF Procs
      <4>4. \A s \in Sources \ {x} : path'[s] = path[s] /\ pc'[s] = pc[s]
        BY <3>1, <4>1, <4>2
      <4>5. path'[x].buf = buf
        BY <3>1, <4>1 DEF Flags
      <4> QED BY <4>2, <4>3, <4>4, <4>5 DEF InHand
    <3> HIDE DEF c, InHand
    <3>3. Kept(x)
      <4>1. Last(x)' = written[x] /\ Last(x) = written[x] - 1
        BY <3>2, Stuff DEF Last, Early
      <4>2. /\ Upto(out[x], written[x] - 1) /\ Upto(outbuf[x], written[x] - 1)
            /\ Upto(path[x].buf, written[x] - 1)
        BY <4>1 DEF DoneInv, Known
      <4>3. Upto(out[x], written[x]) /\ Upto(outbuf[x], written[x]) /\ Upto(path[x].buf, written[x])
        BY <4>2, Stuff, UptoCases
      <4>4. c \in Seq(Nat) /\ Upto(c, written[x]) /\ Times(c, written[x]) = Size[x]
        BY Stuff, Chunk, UptoChunk, TimesAll DEF c
      <4>5. Upto(buf, written[x])
        BY <4>3, <4>4, Stuff, UptoCat
      <4>6. Known(x)'
        <5> HIDE DEF buf
        <5> QED BY <3>2, <4>1, <4>3, <4>5 DEF Known
      <4>7. /\ Times(out[x], written[x]) = 0 /\ Times(InHand(x), written[x]) = 0
            /\ Times(path[x].buf, written[x]) = 0
        <5>1. Upto(<<>>, written[x] - 1)
          BY DEF Upto
        <5>2. Upto(InHand(x), written[x] - 1)
          BY <4>2, <5>1 DEF InHand
        <5> QED BY <4>2, <5>2, Stuff, UptoCases
      <4>8. Times(buf, written[x]) = Size[x]
        <5>1. Times(buf, written[x]) = Times(path[x].buf, written[x]) + Times(c, written[x])
          BY <4>4, Stuff, TimesCat
        <5> QED BY <4>4, <4>7, <5>1, Stuff
      <4>9. Whole(x)'
        <5> HIDE DEF buf
        <5> QED BY <3>2, <4>7, <4>8, Stuff DEF Whole
      <4> QED BY <4>6, <4>9 DEF Kept
    <3> QED BY <3>2, <3>3, Elsewhere
  <2>16. CASE SleepsLoud(x)
    BY <2>16 DEF SleepsLoud, Signals
  <2>17. CASE SleepsSilent(x)
    BY <2>17 DEF SleepsSilent
  <2>18. CASE ReturnsLoud(x)
    BY <2>18 DEF ReturnsLoud, Signals
  <2>19. CASE ReturnsSilent(x)
    BY <2>19 DEF ReturnsSilent
  <2>20. CASE Returned(x)
    BY <2>20 DEF Returned
  <2>21. CASE TooLate(x)
    BY <2>21 DEF TooLate
  <2>22. CASE WriteReturns(x)
    BY <2>22 DEF WriteReturns
  <2>23. CASE SourceDetach(x)
    BY <2>23 DEF SourceDetach
  <2>24. CASE SourceUnlink(x)
    BY <2>24 DEF SourceUnlink, Unlink
  <2>25. CASE BroadcastsLoud(x, x)
    BY <2>25 DEF BroadcastsLoud, Signals
  <2>26. CASE BroadcastsSilent(x, x)
    BY <2>26 DEF BroadcastsSilent
  <2>27. CASE Frees(x, "free")
    <3>1. /\ \A s \in Sources \ {x} : path'[s] = path[s] /\ pc'[s] = pc[s]
          /\ path'[x].buf = <<>> /\ pc'[x] = "off"
          /\ \A s \in Sources : out'[s] = out[s] /\ outbuf'[s] = outbuf[s] /\ written'[s] = written[s]
                                /\ InHand(s)' = InHand(s)
      BY <2>27 DEF Frees, NoPath
    <3> HIDE DEF Inv, DoneInv, TypeOK, PointsOK, DataOK, PathsOK, Flags, InHand, Still
    <3> QED BY <3>1, Elsewhere, Emptied DEF DoneInv, Writes
  <2>28. CASE Frees(x, "detach")
    <3>1. /\ \A s \in Sources \ {x} : path'[s] = path[s] /\ pc'[s] = pc[s]
          /\ path'[x].buf = <<>> /\ pc'[x] = "off"
          /\ \A s \in Sources : out'[s] = out[s] /\ outbuf'[s] = outbuf[s] /\ written'[s] = written[s]
                                /\ InHand(s)' = InHand(s)
      BY <2>28 DEF Frees, NoPath
    <3> HIDE DEF Inv, DoneInv, TypeOK, PointsOK, DataOK, PathsOK, Flags, InHand, Still
    <3> QED BY <3>1, Elsewhere, Emptied DEF DoneInv, Writes
  <2> HIDE DEF Inv, Still, PointsOK, DataOK, PathsOK
  <2> QED BY <1>2, <2>1, <2>2, <2>3, <2>4, <2>5, <2>6, <2>7, <2>8, <2>9, <2>10, <2>11, <2>12,
      <2>13, <2>14, <2>15, <2>16, <2>17, <2>18, <2>19, <2>20, <2>21, <2>22, <2>23, <2>24,
      <2>25, <2>26, <2>27, <2>28 DEF SourceMove
<1>3. ASSUME ControlMove
      PROVE  \A s \in Sources : Still(s) \/ Kept(s)
  <2>1. CASE TargetAttach
    BY <2>1 DEF TargetAttach, NoTarget
  <2>2. CASE TakeThread
    BY <2>2 DEF TakeThread
  <2>3. CASE AssignTarget
    BY <2>3 DEF AssignTarget, WakeThread
  <2>4. ASSUME NEW x \in Sources, AttachPath(x) PROVE \A s \in Sources : Still(s) \/ Kept(s)
    <3>1. /\ \A s \in Sources \ {x} : path'[s] = path[s]
          /\ path'[x].buf = <<>>
          /\ \A s \in Sources : out'[s] = out[s] /\ outbuf'[s] = outbuf[s] /\ written'[s] = written[s]
                                /\ InHand(s)' = InHand(s) /\ pc'[s] = pc[s]
      BY <2>4 DEF AttachPath, CreatePath, NoPath
    <3>2. pc[x] \notin Writes
      <4>1. slock[x] = Free
        BY <2>4 DEF AttachPath
      <4> QED BY <4>1, NameAssumption DEF Inv, Roles, SourceLock
    <3> HIDE DEF Inv, DoneInv, TypeOK, PointsOK, DataOK, PathsOK, Flags, InHand, Still, Writes
    <3> QED BY <3>1, <3>2, Elsewhere, Emptied DEF DoneInv
  <2>5. CASE Attached
    BY <2>5 DEF Attached, ReleaseAll
  <2>6. CASE TargetDetach
    BY <2>6 DEF TargetDetach
  <2>7. CASE TakeManager
    BY <2>7 DEF TakeManager
  <2>8. CASE TerminatesLoud
    BY <2>8 DEF TerminatesLoud, Signals
  <2>9. CASE TerminatesSilent
    BY <2>9 DEF TerminatesSilent
  <2>10. CASE AwaitsLock("wait_idle", "thread", "wait_target")
    BY <2>10 DEF AwaitsLock
  <2>11. CASE AwaitsLock("wait_target", "target", "unassign")
    BY <2>11 DEF AwaitsLock
  <2>12. CASE UnassignTarget
    BY <2>12 DEF UnassignTarget
  <2>13. ASSUME NEW x \in Sources, DetachPath(x) PROVE \A s \in Sources : Still(s) \/ Kept(s)
    <3>1. /\ Unlink(Control, x)
          /\ \A s \in Sources : out'[s] = out[s] /\ outbuf'[s] = outbuf[s] /\ written'[s] = written[s]
                                /\ InHand(s)' = InHand(s) /\ pc'[s] = pc[s]
      BY <2>13 DEF DetachPath, Unlink
    <3> HIDE DEF Inv, DoneInv, TypeOK, PointsOK, DataOK, PathsOK, Flags, InHand
    <3> QED BY <3>1, UnlinkLeaves
  <2>14. ASSUME NEW x \in Sources, BroadcastsLoud(Control, x) PROVE \A s \in Sources : Still(s) \/ Kept(s)
    BY <2>14 DEF BroadcastsLoud, Signals
  <2>15. ASSUME NEW x \in Sources, BroadcastsSilent(Control, x) PROVE \A s \in Sources : Still(s) \/ Kept(s)
    BY <2>15 DEF BroadcastsSilent
  <2>16. ASSUME NEW x \in Sources, FreePath(x) PROVE \A s \in Sources : Still(s) \/ Kept(s)
    <3>1. /\ \A s \in Sources \ {x} : path'[s] = path[s]
          /\ path'[x].buf = <<>> /\ pc[Control] = "free" /\ x = First(todo[Control])
          /\ \A s \in Sources : out'[s] = out[s] /\ outbuf'[s] = outbuf[s] /\ written'[s] = written[s]
                                /\ InHand(s)' = InHand(s) /\ pc'[s] = pc[s]
      BY <2>16 DEF FreePath, NoPath
    <3> HIDE DEF Inv, DoneInv, TypeOK, PointsOK, DataOK, PathsOK, Flags, InHand, Still, Writes
    <3>2. pc[x] \notin Writes
      <4>1. ~path[x].listed
        BY <3>1 DEF Inv, Roles, Target, Paths, FreedAt
      <4> QED BY <4>1 DEF DoneInv, Waits
    <3> QED BY <3>1, <3>2, Elsewhere, Emptied DEF DoneInv
  <2>17. CASE Detached
    BY <2>17 DEF Detached, ReleaseAll, NoTarget
  <2>18. CASE Deinit
    BY <2>18 DEF Deinit
  <2>19. CASE DeinitSignal
    BY <2>19 DEF DeinitSignal, WakeThread
  <2> HIDE DEF Inv, Still, PointsOK, DataOK, PathsOK
  <2> QED BY <1>3, <2>1, <2>2, <2>3, <2>4, <2>5, <2>6, <2>7, <2>8, <2>9, <2>10, <2>11, <2>12,
      <2>13, <2>14, <2>15, <2>16, <2>17, <2>18, <2>19 DEF ControlMove
<1> HIDE DEF Inv, Still, PointsOK, DataOK, PathsOK
<1> QED BY <1>1, <1>2, <1>3 DEF Move

(* The signal to a writer is given when its write is with the target.      *)
LEMMA WaitsKept ==
  ASSUME Inv, DoneInv, ~WaitTimeout, UNCHANGED setup, Move
  PROVE  \A s \in Sources : Waits(s)'
<1> USE NameAssumption DEF Inv, DoneInv, TypeOK, Procs, At, Go, Take, Release, locks, hist, PointsOK,
        LocksOK, DataOK, PathsOK, Flags, Works, Away, Writes, Changes, Detaches, Stays, Roles,
        SourceLock, FreedAt, Written, Waits, Size
<1>1. ASSUME MixerMove
      PROVE  \A s \in Sources : Waits(s)'
  <2>1. ASSUME NEW x \in Sources, SkipsPath(x) PROVE \A s \in Sources : Waits(s)'
    BY <2>1 DEF SkipsPath
  <2>2. CASE ThreadWake
    BY <2>2 DEF ThreadWake
  <2>3. CASE Launches
    BY <2>3 DEF Launches
  <2>4. CASE GoesIdle
    BY <2>4 DEF GoesIdle
  <2>5. CASE Ends
    BY <2>5 DEF Ends
  <2>6. CASE ThreadLock
    BY <2>6 DEF ThreadLock
  <2>7. CASE LeavesTo("idle", TRUE)
    BY <2>7 DEF LeavesTo
  <2>8. CASE LeavesTo("dead", FALSE)
    BY <2>8 DEF LeavesTo
  <2>9. CASE Enters
    BY <2>9 DEF Enters
  <2>10. CASE MixEnter
    BY <2>10 DEF MixEnter
  <2>11. CASE LooksNoMore("waited")
    BY <2>11 DEF LooksNoMore
  <2>12. CASE LooksNoMore("mixing")
    BY <2>12 DEF LooksNoMore
  <2>13. CASE Pauses("asleep")
    BY <2>13 DEF Pauses
  <2>14. CASE Pauses("waiting")
    BY <2>14 DEF Pauses
  <2>15. CASE Wakes("waiting", "woken")
    BY <2>15 DEF Wakes
  <2>16. CASE Wakes("asleep", "roused")
    BY <2>16 DEF Wakes
  <2>17. CASE MixerTimesOut
    BY <2>17 DEF MixerTimesOut
  <2>18. CASE BreaksOff
    BY <2>18 DEF BreaksOff
  <2>19. CASE TurnsDirect
    BY <2>19 DEF TurnsDirect
  <2>20. CASE LooksAgain
    BY <2>20 DEF LooksAgain
  <2>21. CASE AfterSleep
    BY <2>21 DEF AfterSleep
  <2>22. CASE AwaitDirect
    BY <2>22 DEF AwaitDirect
  <2>23. CASE AfterLook
    BY <2>23 DEF AfterLook
  <2>24. CASE StartMix
    BY <2>24 DEF StartMix
  <2>25. CASE SelectsNone
    BY <2>25 DEF SelectsNone, Chosen
  <2>26. CASE SelectsSome
    BY <2>26 DEF SelectsSome, Chosen
  <2>27. CASE BeginWrite
    <3> HIDE DEF Inv, DoneInv, TypeOK, PointsOK, DataOK, PathsOK, LocksOK, Roles, Waits, SourceLock, FreedAt, Size
    <3>1. ASSUME NEW s \in Sources PROVE Waits(s)'
      <4>1. /\ out'[s] = out[s] \o outbuf[s] /\ path'[s] = path[s] /\ pc'[s] = pc[s]
            /\ written'[s] = written[s] /\ InHand(s) = outbuf[s] /\ Size' = Size
            /\ pcond'[s] = pcond[s] /\ plock'[s] = plock[s]
        BY <2>27, Typed DEF BeginWrite, Size, InHand
      <4>2. Waits(s) /\ Whole(s)
        BY DEF DoneInv
      <4>3. ASSUME path[s].inSync, pcond[s] = 1 \/ pc[s] = "done"
            PROVE  Times(out[s] \o outbuf[s], written[s]) = Size[s]
        <5>1. Times(out[s] \o outbuf[s], written[s]) = Times(out[s], written[s]) + Times(outbuf[s], written[s])
          BY Stuff, TimesCat
        <5>2. /\ Times(out[s], written[s]) \in Nat /\ Times(outbuf[s], written[s]) \in Nat
              /\ Times(path[s].buf, written[s]) \in Nat
          BY Stuff, TimesNat
        <5>3. pc[s] \in Written /\ Times(out[s], written[s]) = Size[s]
          BY <4>2, <4>3 DEF Waits, Written
        <5> QED BY <4>1, <4>2, <5>1, <5>2, <5>3 DEF Whole
      <4> QED BY <4>1, <4>2, <4>3 DEF Waits
    <3> QED BY <3>1
  <2>28. CASE EndWrite
    BY <2>28 DEF EndWrite
  <2>29. CASE MixDone
    BY <2>29 DEF MixDone
  <2>30. ASSUME NEW x \in Sources, Underflows(x) PROVE \A s \in Sources : Waits(s)'
    <3> HIDE DEF Inv, DoneInv, TypeOK, PointsOK, DataOK, PathsOK, LocksOK, Roles, Waits, SourceLock, FreedAt, Size
    <3>1. ASSUME NEW s \in Sources
          PROVE  /\ path'[s].isWait = path[s].isWait /\ path'[s].listed = path[s].listed
                 /\ path'[s].inSync = path[s].inSync /\ path'[s].sync = path[s].sync
                 /\ pc'[s] = pc[s] /\ plock'[s] = plock[s] /\ pcond'[s] = pcond[s]
                 /\ written'[s] = written[s] /\ out'[s] = out[s]
      BY <2>30, Typed DEF Underflows, Flags
    <3> QED BY <3>1, Unmoved DEF DoneInv
  <2>31. ASSUME NEW x \in Sources, Picks(x) PROVE \A s \in Sources : Waits(s)'
    <3> HIDE DEF Inv, DoneInv, TypeOK, PointsOK, DataOK, PathsOK, LocksOK, Roles, Waits, SourceLock, FreedAt, Size
    <3>1. ASSUME NEW s \in Sources
          PROVE  /\ path'[s].isWait = path[s].isWait /\ path'[s].listed = path[s].listed
                 /\ path'[s].inSync = path[s].inSync /\ path'[s].sync = path[s].sync
                 /\ pc'[s] = pc[s] /\ plock'[s] = plock[s] /\ pcond'[s] = pcond[s]
                 /\ written'[s] = written[s] /\ out'[s] = out[s]
      BY <2>31, Typed DEF Picks, Flags
    <3> QED BY <3>1, Unmoved DEF DoneInv
  <2>32. ASSUME NEW x \in Sources, Copy(x) PROVE \A s \in Sources : Waits(s)'
    <3> HIDE DEF Inv, DoneInv, TypeOK, PointsOK, DataOK, PathsOK, LocksOK, Roles, Waits, SourceLock, FreedAt, Size
    <3> DEFINE rest == SubSeq(path[x].buf, TargetSize + 1, Len(path[x].buf))
               more == path[x].enough /\ Len(rest) >= TargetSize
    <3>1. path' = [path EXCEPT ![x] = [path[x] EXCEPT !.buf = rest, !.enough = more]]
          /\ UNCHANGED <<pc, plock, pcond, written, out>>
      BY <2>32 DEF Copy, Visit
    <3> HIDE DEF rest, more
    <3>2. ASSUME NEW s \in Sources
          PROVE  /\ path'[s].isWait = path[s].isWait /\ path'[s].listed = path[s].listed
                 /\ path'[s].inSync = path[s].inSync /\ path'[s].sync = path[s].sync
      BY <3>1, Typed DEF Flags
    <3> QED BY <3>1, <3>2, Unmoved DEF DoneInv
  <2>33. ASSUME NEW x \in Sources, SignalsWriter(x) PROVE \A s \in Sources : Waits(s)'
    <3> HIDE DEF Inv, DoneInv, TypeOK, PointsOK, DataOK, PathsOK, LocksOK, Roles, Waits, SourceLock, FreedAt, Size
    <3>1. /\ \A s \in Sources \ {x} : path'[s] = path[s] /\ pcond'[s] = pcond[s]
          /\ \A s \in Sources : plock'[s] = plock[s] /\ written'[s] = written[s] /\ out'[s] = out[s] /\ pc'[s] = pc[s]
          /\ pc[Mixer] = "signal" /\ path[x].isWait /\ plock[x] = Free
          /\ pcond'[x] = 1 /\ ~path'[x].isWait
          /\ path'[x].listed = path[x].listed /\ path'[x].inSync = path[x].inSync /\ path'[x].sync = path[x].sync
          /\ Len(path[x].buf) <= (IF path[x].sync THEN 0 ELSE SafeCount(x))
      BY <2>33, Typed DEF SignalsWriter, Flags
    <3>2. /\ pc[x] = "sleep"
          /\ path[x].inSync => Times(out[x], written[x]) = Size[x] /\ Size' = Size
      <4>1. Waits(x) /\ Whole(x)
        BY DEF DoneInv
      <4>2. pc[x] = "sleep"
        BY <3>1, <4>1, Typed DEF Waits
      <4>3. ASSUME path[x].inSync PROVE Times(out[x], written[x]) = Size[x]
        <5>1. path[x].sync /\ path[x].buf \in Seq(Nat)
          BY <4>1, <4>2, <4>3, Stuff DEF Waits, Written
        <5>2. path[x].buf = <<>>
          BY <3>1, <5>1
        <5>3. Times(<<>>, written[x]) = 0
          <6>1. <<>> \in Seq(Nat) /\ \A k \in DOMAIN <<>> : <<>>[k] # written[x]
            OBVIOUS
          <6> QED BY <6>1, Stuff, TimesNone
        <5>4. Times(out[x], written[x]) \in Nat
          BY Stuff, TimesNat
        <5> QED BY <3>1, <4>1, <4>2, <5>2, <5>3, <5>4 DEF Whole, Written, InHand
      <4> QED BY <4>2, <4>3 DEF Size
    <3>3. Waits(x)'
      <4>1. Waits(x) /\ x # Free /\ pcond[x] \in {0, 1}
        BY Typed DEF DoneInv
      <4> QED BY <3>1, <3>2, <4>1 DEF Waits
    <3> QED BY <3>1, <3>3, Unmoved DEF DoneInv
  <2>34. ASSUME NEW x \in Sources, PassesWriter(x) PROVE \A s \in Sources : Waits(s)'
    <3> HIDE DEF Inv, DoneInv, TypeOK, PointsOK, DataOK, PathsOK, LocksOK, Roles, Waits, SourceLock, FreedAt, Size
    <3>1. ASSUME NEW s \in Sources
          PROVE  /\ path'[s].isWait = path[s].isWait /\ path'[s].listed = path[s].listed
                 /\ path'[s].inSync = path[s].inSync /\ path'[s].sync = path[s].sync
                 /\ pc'[s] = pc[s] /\ plock'[s] = plock[s] /\ pcond'[s] = pcond[s]
                 /\ written'[s] = written[s] /\ out'[s] = out[s]
      BY <2>34, Typed DEF PassesWriter, Flags
    <3> QED BY <3>1, Unmoved DEF DoneInv
  <2> HIDE DEF Inv, Waits, PointsOK, LocksOK, DataOK, PathsOK, Roles
  <2> QED BY <1>1, <2>1, <2>2, <2>3, <2>4, <2>5, <2>6, <2>7, <2>8, <2>9, <2>10, <2>11, <2>12,
      <2>13, <2>14, <2>15, <2>16, <2>17, <2>18, <2>19, <2>20, <2>21, <2>22, <2>23, <2>24,
      <2>25, <2>26, <2>27, <2>28, <2>29, <2>30, <2>31, <2>32, <2>33, <2>34 DEF MixerMove
<1>2. ASSUME NEW x \in Sources, SourceMove(x)
      PROVE  \A s \in Sources : Waits(s)'
  <2>1. CASE SourceAttach(x)
    BY <2>1 DEF SourceAttach
  <2>2. CASE Knows(x)
    BY <2>2 DEF Knows
  <2>3. CASE Joins(x)
    <3> HIDE DEF Inv, DoneInv, TypeOK, PointsOK, DataOK, PathsOK, LocksOK, Roles, Waits, SourceLock, FreedAt, Size
    <3>1. /\ \A s \in Sources \ {x} : pc'[s] = pc[s] /\ path'[s] = path[s] /\ pcond'[s] = pcond[s]
          /\ \A s \in Sources : plock'[s] = plock[s] /\ written'[s] = written[s] /\ out'[s] = out[s]
          /\ pc[x] = "attach" /\ pc'[x] = "idle"
          /\ pcond'[x] = 0 /\ ~path'[x].isWait /\ path'[x].listed /\ ~path'[x].inSync
      BY <2>3, Typed DEF Joins, CreatePath, NoPath, Flags
    <3>3. Waits(x)'
      <4>1. Waits(x) /\ x # Free /\ pcond[x] \in {0, 1}
        BY Typed DEF DoneInv
      <4> QED BY <3>1, <4>1 DEF Waits
    <3> QED BY <3>1, <3>3, Unmoved DEF DoneInv
  <2>4. CASE CallWrite(x)
    <3> HIDE DEF Inv, DoneInv, TypeOK, PointsOK, DataOK, PathsOK, LocksOK, Roles, Waits, SourceLock, FreedAt, Size
    <3>1. /\ \A s \in Sources \ {x} : pc'[s] = pc[s] /\ written'[s] = written[s]
          /\ \A s \in Sources : path'[s] = path[s] /\ plock'[s] = plock[s] /\ pcond'[s] = pcond[s] /\ out'[s] = out[s]
          /\ pc[x] = "idle" /\ pc'[x] = "mode"
          /\ path[x].listed
      BY <2>4, Typed DEF CallWrite, Flags
    <3>3. Waits(x)'
      <4>1. Waits(x) /\ x # Free /\ pcond[x] \in {0, 1}
        BY Typed DEF DoneInv
      <4> QED BY <3>1, <4>1 DEF Waits
    <3> QED BY <3>1, <3>3, Unmoved DEF DoneInv
  <2>5. CASE ChoosesLoud(x, TRUE, "direct")
    BY <2>5 DEF ChoosesLoud, Signals
  <2>6. CASE ChoosesLoud(x, FALSE, "put")
    BY <2>6 DEF ChoosesLoud, Signals
  <2>7. CASE ChoosesSilent(x, TRUE, "direct")
    BY <2>7 DEF ChoosesSilent, Silent
  <2>8. CASE ChoosesSilent(x, FALSE, "put")
    BY <2>8 DEF ChoosesSilent, Silent
  <2>9. CASE TakeDirect(x)
    BY <2>9 DEF TakeDirect
  <2>10. CASE DirectWrite(x)
    <3> HIDE DEF Inv, DoneInv, TypeOK, PointsOK, DataOK, PathsOK, LocksOK, Roles, Waits, SourceLock, FreedAt, Size
    <3>1. /\ \A s \in Sources \ {x} : pc'[s] = pc[s] /\ path'[s] = path[s] /\ plock'[s] = plock[s] /\ out'[s] = out[s]
          /\ \A s \in Sources : pcond'[s] = pcond[s] /\ written'[s] = written[s]
          /\ pc[x] = "mine" /\ pc'[x] = "direct_writing"
          /\ plock'[x] = x /\ ~path'[x].isWait
          /\ path'[x].listed = path[x].listed /\ path'[x].inSync = path[x].inSync /\ path'[x].sync = path[x].sync
      BY <2>10, Typed DEF DirectWrite, Flags
    <3>3. Waits(x)'
      <4>1. Waits(x) /\ x # Free /\ pcond[x] \in {0, 1}
        BY Typed DEF DoneInv
      <4> QED BY <3>1, <4>1 DEF Waits
    <3> QED BY <3>1, <3>3, Unmoved DEF DoneInv
  <2>11. CASE DirectDone(x)
    BY <2>11 DEF DirectDone
  <2>12. CASE CallPut(x)
    <3> HIDE DEF Inv, DoneInv, TypeOK, PointsOK, DataOK, PathsOK, LocksOK, Roles, Waits, SourceLock, FreedAt, Size
    <3>1. /\ \A s \in Sources \ {x} : pc'[s] = pc[s] /\ path'[s] = path[s]
          /\ \A s \in Sources : plock'[s] = plock[s] /\ pcond'[s] = pcond[s] /\ written'[s] = written[s] /\ out'[s] = out[s]
          /\ pc[x] = "put" /\ pc'[x] = "fill"
          /\ path'[x].inSync = path'[x].sync /\ path'[x].listed = path[x].listed /\ path'[x].isWait = path[x].isWait
      BY <2>12, Typed DEF CallPut, Flags
    <3>3. Waits(x)'
      <4>1. Waits(x) /\ x # Free /\ pcond[x] \in {0, 1}
        BY Typed DEF DoneInv
      <4> QED BY <3>1, <4>1 DEF Waits
    <3> QED BY <3>1, <3>3, Unmoved DEF DoneInv
  <2>13. CASE Suspend(x)
    <3> HIDE DEF Inv, DoneInv, TypeOK, PointsOK, DataOK, PathsOK, LocksOK, Roles, Waits, SourceLock, FreedAt, Size
    <3>1. /\ \A s \in Sources \ {x} : pc'[s] = pc[s] /\ path'[s] = path[s]
          /\ \A s \in Sources : plock'[s] = plock[s] /\ pcond'[s] = pcond[s] /\ written'[s] = written[s] /\ out'[s] = out[s]
          /\ pc[x] = "fill" /\ pc'[x] = "idle"
          /\ path'[x].listed = path[x].listed /\ path'[x].inSync = path[x].inSync /\ path'[x].sync = path[x].sync /\ path'[x].isWait = path[x].isWait
      <4>1. /\ pc[x] = "fill" /\ pc' = [pc EXCEPT ![x] = "idle"] /\ path' = [path EXCEPT ![x].start = FALSE]
            /\ UNCHANGED <<plock, pcond, written, out>>
        BY <2>13 DEF Suspend
      <4>2. /\ path'[x].listed = path[x].listed /\ path'[x].inSync = path[x].inSync
            /\ path'[x].sync = path[x].sync /\ path'[x].isWait = path[x].isWait
        BY <4>1, Typed DEF Flags
      <4> QED BY <4>1, <4>2, Typed
    <3>3. Waits(x)'
      <4>1. Waits(x) /\ x # Free /\ pcond[x] \in {0, 1}
        BY Typed DEF DoneInv
      <4> QED BY <3>1, <4>1 DEF Waits
    <3> QED BY <3>1, <3>3, Unmoved DEF DoneInv
  <2>14. CASE Drop(x)
    BY <2>14 DEF Drop
  <2>15. CASE Fill(x)
    <3> HIDE DEF Inv, DoneInv, TypeOK, PointsOK, DataOK, PathsOK, LocksOK, Roles, Waits, SourceLock, FreedAt, Size
    <3>1. /\ \A s \in Sources \ {x} : pc'[s] = pc[s] /\ path'[s] = path[s] /\ plock'[s] = plock[s]
          /\ \A s \in Sources : pcond'[s] = pcond[s] /\ written'[s] = written[s] /\ out'[s] = out[s]
          /\ pc[x] = "fill" /\ pc'[x] = "signal"
          /\ plock'[x] = x
          /\ path'[x].listed = path[x].listed /\ path'[x].inSync = path[x].inSync /\ path'[x].sync = path[x].sync
      <4> DEFINE buf == path[x].buf \o [n \in 1..Size[x] |-> written[x]]
                 enough == Len(buf) >= TargetSize
      <4>1. PICK wait \in BOOLEAN : path' = [path EXCEPT ![x] =
              [path[x] EXCEPT !.buf = buf, !.start = @ \/ enough, !.underflow = @ /\ ~enough,
                              !.enough = @ \/ enough, !.isWait = wait]]
        BY <2>15 DEF Fill
      <4>2. /\ pc' = [pc EXCEPT ![x] = "signal"] /\ pc[x] = "fill" /\ plock' = [plock EXCEPT ![x] = x]
            /\ UNCHANGED <<pcond, written, out>>
        BY <2>15 DEF Fill
      <4> HIDE DEF buf, enough
      <4>3. /\ path'[x].listed = path[x].listed /\ path'[x].inSync = path[x].inSync
            /\ path'[x].sync = path[x].sync
        BY <4>1, Typed DEF Flags
      <4>4. \A s \in Sources \ {x} : path'[s] = path[s]
        BY <4>1, Typed
      <4> QED BY <4>2, <4>3, <4>4, Typed
    <3>3. Waits(x)'
      <4>1. Waits(x) /\ x # Free /\ pcond[x] \in {0, 1}
        BY Typed DEF DoneInv
      <4> QED BY <3>1, <4>1 DEF Waits
    <3> QED BY <3>1, <3>3, Unmoved DEF DoneInv
  <2>16. CASE SleepsLoud(x)
    <3> HIDE DEF Inv, DoneInv, TypeOK, PointsOK, DataOK, PathsOK, LocksOK, Roles, Waits, SourceLock, FreedAt, Size
    <3>1. /\ \A s \in Sources \ {x} : pc'[s] = pc[s] /\ plock'[s] = plock[s]
          /\ \A s \in Sources : path'[s] = path[s] /\ pcond'[s] = pcond[s] /\ written'[s] = written[s] /\ out'[s] = out[s]
          /\ pc[x] = "signal" /\ pc'[x] = "sleep"
          /\ plock'[x] = Free
      BY <2>16, Typed DEF SleepsLoud, Signals, Flags
    <3>3. Waits(x)'
      <4>1. Waits(x) /\ x # Free /\ pcond[x] \in {0, 1}
        BY Typed DEF DoneInv
      <4> QED BY <3>1, <4>1 DEF Waits
    <3> QED BY <3>1, <3>3, Unmoved DEF DoneInv
  <2>17. CASE SleepsSilent(x)
    <3> HIDE DEF Inv, DoneInv, TypeOK, PointsOK, DataOK, PathsOK, LocksOK, Roles, Waits, SourceLock, FreedAt, Size
    <3>1. /\ \A s \in Sources \ {x} : pc'[s] = pc[s] /\ plock'[s] = plock[s]
          /\ \A s \in Sources : path'[s] = path[s] /\ pcond'[s] = pcond[s] /\ written'[s] = written[s] /\ out'[s] = out[s]
          /\ pc[x] = "signal" /\ pc'[x] = "sleep"
          /\ plock'[x] = Free
      BY <2>17, Typed DEF SleepsSilent, Flags
    <3>3. Waits(x)'
      <4>1. Waits(x) /\ x # Free /\ pcond[x] \in {0, 1}
        BY Typed DEF DoneInv
      <4> QED BY <3>1, <4>1 DEF Waits
    <3> QED BY <3>1, <3>3, Unmoved DEF DoneInv
  <2>18. CASE ReturnsLoud(x)
    <3> HIDE DEF Inv, DoneInv, TypeOK, PointsOK, DataOK, PathsOK, LocksOK, Roles, Waits, SourceLock, FreedAt, Size
    <3>1. /\ \A s \in Sources \ {x} : pc'[s] = pc[s] /\ plock'[s] = plock[s]
          /\ \A s \in Sources : path'[s] = path[s] /\ pcond'[s] = pcond[s] /\ written'[s] = written[s] /\ out'[s] = out[s]
          /\ pc[x] = "signal" /\ pc'[x] = "idle"
          /\ plock'[x] = Free /\ ~path[x].isWait
      BY <2>18, Typed DEF ReturnsLoud, Signals, Flags
    <3>3. Waits(x)'
      <4>1. Waits(x) /\ x # Free /\ pcond[x] \in {0, 1}
        BY Typed DEF DoneInv
      <4> QED BY <3>1, <4>1 DEF Waits
    <3> QED BY <3>1, <3>3, Unmoved DEF DoneInv
  <2>19. CASE ReturnsSilent(x)
    <3> HIDE DEF Inv, DoneInv, TypeOK, PointsOK, DataOK, PathsOK, LocksOK, Roles, Waits, SourceLock, FreedAt, Size
    <3>1. /\ \A s \in Sources \ {x} : pc'[s] = pc[s] /\ plock'[s] = plock[s]
          /\ \A s \in Sources : path'[s] = path[s] /\ pcond'[s] = pcond[s] /\ written'[s] = written[s] /\ out'[s] = out[s]
          /\ pc[x] = "signal" /\ pc'[x] = "idle"
          /\ plock'[x] = Free /\ ~path[x].isWait
      BY <2>19, Typed DEF ReturnsSilent, Flags
    <3>3. Waits(x)'
      <4>1. Waits(x) /\ x # Free /\ pcond[x] \in {0, 1}
        BY Typed DEF DoneInv
      <4> QED BY <3>1, <4>1 DEF Waits
    <3> QED BY <3>1, <3>3, Unmoved DEF DoneInv
  <2>20. CASE Returned(x)
    <3> HIDE DEF Inv, DoneInv, TypeOK, PointsOK, DataOK, PathsOK, LocksOK, Roles, Waits, SourceLock, FreedAt, Size
    <3>1. /\ \A s \in Sources \ {x} : pc'[s] = pc[s] /\ pcond'[s] = pcond[s]
          /\ \A s \in Sources : path'[s] = path[s] /\ plock'[s] = plock[s] /\ written'[s] = written[s] /\ out'[s] = out[s]
          /\ pc[x] = "sleep" /\ pc'[x] = "done"
          /\ pcond[x] = 1 /\ pcond'[x] = 0 /\ Size' = Size
      BY <2>20, Typed DEF Returned, Size, Flags
    <3>3. Waits(x)'
      <4>1. Waits(x) /\ x # Free /\ pcond[x] \in {0, 1}
        BY Typed DEF DoneInv
      <4> QED BY <3>1, <4>1 DEF Waits
    <3> QED BY <3>1, <3>3, Unmoved DEF DoneInv
  <2>21. CASE TooLate(x)
    BY <2>21 DEF TooLate
  <2>22. CASE WriteReturns(x)
    <3> HIDE DEF Inv, DoneInv, TypeOK, PointsOK, DataOK, PathsOK, LocksOK, Roles, Waits, SourceLock, FreedAt, Size
    <3>1. /\ \A s \in Sources \ {x} : pc'[s] = pc[s] /\ path'[s] = path[s]
          /\ \A s \in Sources : plock'[s] = plock[s] /\ pcond'[s] = pcond[s] /\ written'[s] = written[s] /\ out'[s] = out[s]
          /\ pc[x] \in {"done", "late"} /\ pc'[x] = "idle"
          /\ ~path'[x].isWait
      BY <2>22, Typed DEF WriteReturns, Flags
    <3>3. Waits(x)'
      <4>1. Waits(x) /\ x # Free /\ pcond[x] \in {0, 1}
        BY Typed DEF DoneInv
      <4> QED BY <3>1, <4>1 DEF Waits
    <3> QED BY <3>1, <3>3, Unmoved DEF DoneInv
  <2>23. CASE SourceDetach(x)
    BY <2>23 DEF SourceDetach
  <2>24. CASE SourceUnlink(x)
    BY <2>24 DEF SourceUnlink, Unlink
  <2>25. CASE BroadcastsLoud(x, x)
    BY <2>25 DEF BroadcastsLoud, Signals
  <2>26. CASE BroadcastsSilent(x, x)
    BY <2>26 DEF BroadcastsSilent
  <2>27. CASE Frees(x, "free")
    <3> HIDE DEF Inv, DoneInv, TypeOK, PointsOK, DataOK, PathsOK, LocksOK, Roles, Waits, SourceLock, FreedAt, Size
    <3>1. /\ \A s \in Sources \ {x} : pc'[s] = pc[s] /\ path'[s] = path[s]
          /\ \A s \in Sources : plock'[s] = plock[s] /\ pcond'[s] = pcond[s] /\ written'[s] = written[s] /\ out'[s] = out[s]
          /\ pc[x] \in {"free", "detach"} /\ pc'[x] = "off"
          /\ ~path'[x].isWait /\ ~path'[x].inSync
      BY <2>27, Typed DEF Frees, NoPath, Flags
    <3>3. Waits(x)'
      <4>1. Waits(x) /\ x # Free /\ pcond[x] \in {0, 1}
        BY Typed DEF DoneInv
      <4> QED BY <3>1, <4>1 DEF Waits
    <3> QED BY <3>1, <3>3, Unmoved DEF DoneInv
  <2>28. CASE Frees(x, "detach")
    <3> HIDE DEF Inv, DoneInv, TypeOK, PointsOK, DataOK, PathsOK, LocksOK, Roles, Waits, SourceLock, FreedAt, Size
    <3>1. /\ \A s \in Sources \ {x} : pc'[s] = pc[s] /\ path'[s] = path[s]
          /\ \A s \in Sources : plock'[s] = plock[s] /\ pcond'[s] = pcond[s] /\ written'[s] = written[s] /\ out'[s] = out[s]
          /\ pc[x] \in {"free", "detach"} /\ pc'[x] = "off"
          /\ ~path'[x].isWait /\ ~path'[x].inSync
      BY <2>28, Typed DEF Frees, NoPath, Flags
    <3>3. Waits(x)'
      <4>1. Waits(x) /\ x # Free /\ pcond[x] \in {0, 1}
        BY Typed DEF DoneInv
      <4> QED BY <3>1, <4>1 DEF Waits
    <3> QED BY <3>1, <3>3, Unmoved DEF DoneInv
  <2> HIDE DEF Inv, Waits, PointsOK, LocksOK, DataOK, PathsOK, Roles
  <2> QED BY <1>2, <2>1, <2>2, <2>3, <2>4, <2>5, <2>6, <2>7, <2>8, <2>9, <2>10, <2>11, <2>12,
      <2>13, <2>14, <2>15, <2>16, <2>17, <2>18, <2>19, <2>20, <2>21, <2>22, <2>23, <2>24,
      <2>25, <2>26, <2>27, <2>28 DEF SourceMove
<1>3. ASSUME ControlMove
      PROVE  \A s \in Sources : Waits(s)'
  <2>1. CASE TargetAttach
    BY <2>1 DEF TargetAttach, NoTarget
  <2>2. CASE TakeThread
    BY <2>2 DEF TakeThread
  <2>3. CASE AssignTarget
    BY <2>3 DEF AssignTarget, WakeThread
  <2>4. ASSUME NEW x \in Sources, AttachPath(x) PROVE \A s \in Sources : Waits(s)'
    <3> HIDE DEF Inv, DoneInv, TypeOK, PointsOK, DataOK, PathsOK, LocksOK, Roles, Waits, SourceLock, FreedAt, Size
    <3>1. /\ \A s \in Sources \ {x} : path'[s] = path[s] /\ pcond'[s] = pcond[s]
          /\ \A s \in Sources : plock'[s] = plock[s] /\ written'[s] = written[s] /\ out'[s] = out[s] /\ pc'[s] = pc[s]
          /\ pcond'[x] = 0 /\ ~path'[x].isWait /\ path'[x].listed /\ ~path'[x].inSync
          /\ slock[x] = Free
      BY <2>4, Typed DEF AttachPath, CreatePath, NoPath, Flags
    <3>2. pc[x] \notin Writes
      BY <3>1, NameAssumption DEF Inv, Roles, SourceLock
    <3>3. Waits(x)'
      <4>1. Waits(x) /\ x # Free /\ pcond[x] \in {0, 1}
        BY Typed DEF DoneInv
      <4> QED BY <3>1, <3>2, <4>1 DEF Waits
    <3> QED BY <3>1, <3>3, Unmoved DEF DoneInv
  <2>5. CASE Attached
    BY <2>5 DEF Attached, ReleaseAll
  <2>6. CASE TargetDetach
    BY <2>6 DEF TargetDetach
  <2>7. CASE TakeManager
    BY <2>7 DEF TakeManager
  <2>8. CASE TerminatesLoud
    BY <2>8 DEF TerminatesLoud, Signals
  <2>9. CASE TerminatesSilent
    BY <2>9 DEF TerminatesSilent
  <2>10. CASE AwaitsLock("wait_idle", "thread", "wait_target")
    BY <2>10 DEF AwaitsLock
  <2>11. CASE AwaitsLock("wait_target", "target", "unassign")
    BY <2>11 DEF AwaitsLock
  <2>12. CASE UnassignTarget
    BY <2>12 DEF UnassignTarget
  <2>13. ASSUME NEW x \in Sources, DetachPath(x) PROVE \A s \in Sources : Waits(s)'
    BY <2>13 DEF DetachPath, Unlink
  <2>14. ASSUME NEW x \in Sources, BroadcastsLoud(Control, x) PROVE \A s \in Sources : Waits(s)'
    BY <2>14 DEF BroadcastsLoud, Signals
  <2>15. ASSUME NEW x \in Sources, BroadcastsSilent(Control, x) PROVE \A s \in Sources : Waits(s)'
    BY <2>15 DEF BroadcastsSilent
  <2>16. ASSUME NEW x \in Sources, FreePath(x) PROVE \A s \in Sources : Waits(s)'
    <3> HIDE DEF Inv, DoneInv, TypeOK, PointsOK, DataOK, PathsOK, LocksOK, Roles, Waits, SourceLock, FreedAt, Size
    <3>1. /\ \A s \in Sources \ {x} : path'[s] = path[s]
          /\ \A s \in Sources : plock'[s] = plock[s] /\ pcond'[s] = pcond[s] /\ written'[s] = written[s] /\ out'[s] = out[s] /\ pc'[s] = pc[s]
          /\ ~path'[x].isWait /\ ~path'[x].inSync
          /\ pc[Control] = "free" /\ x = First(todo[Control])
      BY <2>16, Typed DEF FreePath, NoPath, Flags
    <3>2. pc[x] \notin Writes
      <4>1. ~path[x].listed
        BY <3>1 DEF Inv, Roles, Target, Paths, FreedAt
      <4> QED BY <4>1 DEF DoneInv, Waits
    <3>3. Waits(x)'
      <4>1. Waits(x) /\ x # Free /\ pcond[x] \in {0, 1}
        BY Typed DEF DoneInv
      <4> QED BY <3>1, <3>2, <4>1 DEF Waits
    <3> QED BY <3>1, <3>3, Unmoved DEF DoneInv
  <2>17. CASE Detached
    BY <2>17 DEF Detached, ReleaseAll, NoTarget
  <2>18. CASE Deinit
    BY <2>18 DEF Deinit
  <2>19. CASE DeinitSignal
    BY <2>19 DEF DeinitSignal, WakeThread
  <2> HIDE DEF Inv, Waits, PointsOK, LocksOK, DataOK, PathsOK, Roles
  <2> QED BY <1>3, <2>1, <2>2, <2>3, <2>4, <2>5, <2>6, <2>7, <2>8, <2>9, <2>10, <2>11, <2>12,
      <2>13, <2>14, <2>15, <2>16, <2>17, <2>18, <2>19 DEF ControlMove
<1> HIDE DEF Inv, Waits, PointsOK, LocksOK, DataOK, PathsOK, Roles
<1> QED BY <1>1, <1>2, <1>3 DEF Move

(* The units of a write, as long as no wait times out.                     *)
LEMMA DoneMove ==
  ASSUME Inv, DoneInv, ~WaitTimeout, UNCHANGED setup, Move
  PROVE  DoneInv'
<1>1. ASSUME NEW s \in Sources PROVE Kept(s)
  <2>1. Known(s) /\ Whole(s)
    BY DEF DoneInv
  <2> QED BY <2>1, UnitsKept, StillKeeps
<1>2. \A s \in Sources : Known(s)' /\ Whole(s)'
  BY <1>1 DEF Kept
<1> QED BY <1>2, UntakenKept, WaitsKept DEF DoneInv

\* DoneInv holds, as long as no wait times out.
LEMMA DoneHolds ==
  ASSUME Patient
  PROVE  Spec => [](WaitTimeout \/ DoneInv)
<1>1. Init => WaitTimeout \/ DoneInv
  <2>1. ASSUME Init PROVE DoneInv
    <3>1. Inv
      BY <2>1, InvInit
    <3>2. /\ pc[Mixer] \notin {"select", "copy"}
          /\ \A s \in Sources : pc[s] = "off" /\ out[s] = <<>> /\ outbuf[s] = <<>> /\ path[s] = NoPath
               /\ plock[s] = Free /\ pcond[s] = 0 /\ s # Free
      BY <2>1, NameAssumption DEF Init, Procs
    <3>3. ASSUME NEW s \in Sources PROVE Known(s) /\ Whole(s) /\ Waits(s)
      <4>1. Upto(<<>>, Last(s))
        BY DEF Upto
      <4>2. Known(s)
        BY <3>2, <4>1 DEF Known, NoPath
      <4>3. Whole(s) /\ Waits(s)
        BY <3>2 DEF Whole, Waits, NoPath, Written, Writes
      <4> QED BY <4>2, <4>3
    <3> QED BY <3>2, <3>3 DEF DoneInv, Untaken
  <2> QED BY <2>1
<1>2. ASSUME Inv, WaitTimeout \/ DoneInv, [Next]_vars
      PROVE  (WaitTimeout \/ DoneInv)'
  <2>1. UNCHANGED setup
    BY <1>2, NextMoves DEF vars
  <2>2. CASE WaitTimeout
    BY <2>1, <2>2 DEF WaitTimeout
  <2>3. CASE ~WaitTimeout /\ DoneInv /\ Move
    BY <1>2, <2>1, <2>3, DoneMove
  <2>4. CASE ~WaitTimeout /\ DoneInv /\ UNCHANGED vars
    BY <2>4 DEF vars, DoneInv, Untaken, Known, Whole, Waits, Last, InHand, Size
  <2> QED BY <1>2, <2>2, <2>3, <2>4, NextMoves
<1> QED BY <1>1, <1>2, InvHolds, PTL DEF Spec

(* "signal write done": a synchronous write that was signalled returns when *)
(* all of its data has been with the target, as long as no wait times out.  *)
THEOREM DoneIsWrittenHolds ==
  ASSUME Patient
  PROVE  Spec => []DoneIsWritten
<1>1. Inv /\ (WaitTimeout \/ DoneInv) => DoneIsWritten
  BY DEF DoneInv, Waits, DoneIsWritten, Times
<1> QED BY <1>1, InvHolds, DoneHolds, PTL
=============================================================================
