------------------------------ MODULE SwMixer ------------------------------
(***************************************************************************)
(* The software mixer of the audio framework, drivers/audio/framework/     *)
(* audio_sw_mixer.c: source tasks write audio, and one mixer thread mixes  *)
(* what they wrote for a target, through its write callback.  While only   *)
(* one synchronous source exists it writes to the target itself, and the   *)
(* thread sleeps ("direct mode").  Sources and the target come and go.     *)
(*                                                                         *)
(* The locks are those of AudioLock: a mutex, and for three of them a      *)
(* queue of one signal.  A step is the code from one blocking call to the  *)
(* next; code of one critical section that blocks nowhere is one step.     *)
(* source->lock and source->path_list_lock, which a source takes together, *)
(* are one lock.  One target is attached at a time, so it is the host of   *)
(* its sources and the second thread of the manager is idle.               *)
(*                                                                         *)
(* A write is a numbered chunk of Size[s] units, a mix takes TargetSize    *)
(* units of every source.                                                  *)
(***************************************************************************)
EXTENDS Integers, Sequences, FiniteSets

CONSTANTS
  Sources,   \* numbers: the order of the path list
  Setups,    \* the setups of the system that are looked at
  Mixer, Control, Free

VARIABLE setup   \* the one that is: no step changes it

Size        == setup.size        \* units of a write of s, after conversion
Sync        == setup.sync        \* the sizes let sw_mixer_assign_mix_fp choose sync
TargetSize  == setup.targetSize  \* target->attr.buffer_size, in units
Limit       == setup.limit       \* path_data_size above which a write is dropped
Mute        == setup.mute        \* sources may write silence
WaitTimeout == setup.waitTimeout \* WAIT_ALOCK_US of a writer may time out
IdleTimeout == setup.idleTimeout \* LOCK_ALOCK(thread->lock) may time out
Booted      == setup.booted      \* the thread has run before anything attaches
MaxSource   == setup.maxSource   \* bound: attaches of source s
MaxWrites   == setup.maxWrites   \* bound: writes of each source
MaxAttach   == setup.maxAttach   \* bound: attaches of the target
MaxDetach   == setup.maxDetach   \* bound: detaches of the target

ASSUME SetupAssumption ==
  /\ Sources \subseteq Nat /\ IsFiniteSet(Sources)
  /\ \A u \in Setups :
       /\ u.size \in [Sources -> Nat \ {0}]
       /\ u.targetSize \in Nat \ {0}
       /\ u.sync \subseteq Sources
       /\ \A s \in u.sync : u.size[s] % u.targetSize = 0
       /\ {u.mute, u.waitTimeout, u.idleTimeout, u.booted} \subseteq BOOLEAN
       /\ {u.limit, u.maxWrites, u.maxAttach, u.maxDetach} \subseteq Nat
       /\ u.maxSource \in [Sources -> Nat]
ASSUME NameAssumption ==
  /\ Mixer # Control /\ Free \notin {Mixer, Control}
  /\ {Mixer, Control, Free} \cap Sources = {}

Procs == Sources \union {Mixer, Control}

VARIABLES
  pc,        \* control point of every process
  lock,      \* holders of the manager's, the thread's and the target's locks
  plock,     \* plock[s]: holder of path->lock
  slock,     \* slock[s]: holder of source->lock and source->path_list_lock
  cond,      \* signals in thread->lock and target->mix_lock
  pcond,     \* signals in path->lock
  thread,    \* sw_mixer_thread_t
  target,    \* sw_mixer_target_t; up: allocated
  path,      \* path[s]: sw_mixer_path_t; up: allocated, listed: in path_list,
             \* sync: is_sync and mix_fp, inSync: mix_fp of the call
  listed,    \* sources in manager->source_list
  left,      \* sw_mixer_wait_to_mix: left_time_us # 0
  scan,      \* the paths the thread saw when it began to look for a ready one
  todo,      \* what is left of a loop over paths, of the thread or Control
  outbuf,    \* target->out_buf: units to write, by source
  written,   \* number of the last write of each source
  out,       \* history: the units of each source the write callback got
  count      \* numbers of attaches

locks == <<lock, plock, slock, cond, pcond>>
hist  == <<written, out, count>>
vars  == <<setup, pc, lock, plock, slock, cond, pcond, thread, target, path, listed,
           left, scan, todo, outbuf, written, out, count>>

NoPath == [up |-> FALSE, listed |-> FALSE, sync |-> FALSE, inSync |-> FALSE,
           start |-> FALSE,
           underflow |-> FALSE, enough |-> FALSE, doMix |-> FALSE,
           isWait |-> FALSE, buf |-> <<>>]
NoTarget == [up |-> FALSE, exit |-> FALSE, start |-> FALSE,
             waitToMix |-> FALSE, direct |-> FALSE]

\* init_audio_sw_mixer; Booted: and the thread has gone to sleep.
Init ==
  /\ setup \in Setups
  /\ pc = [p \in Procs |-> IF p # Mixer THEN "off"
                           ELSE IF Booted THEN "idle" ELSE "boot"]
  /\ lock = [l \in {"manager", "thread", "target", "list", "mix", "direct"}
               |-> Free]
  /\ plock = [s \in Sources |-> Free]
  /\ slock = [s \in Sources |-> Free]
  /\ cond = [thread |-> 0, mix |-> 0]
  /\ pcond = [s \in Sources |-> 0]
  /\ thread = [alive |-> TRUE, idle |-> Booted, target |-> FALSE]
  /\ target = NoTarget
  /\ path = [s \in Sources |-> NoPath]
  /\ listed = {}
  /\ left = TRUE
  /\ scan = {}
  /\ todo = [p \in {Mixer, Control} |-> {}]
  /\ outbuf = [s \in Sources |-> <<>>]
  /\ written = [s \in Sources |-> 0]
  /\ out = [s \in Sources |-> <<>>]
  /\ count = [target |-> 0, source |-> [s \in Sources |-> 0]]

At(p, l)      == pc[p] = l
Go(p, l)      == pc' = [pc EXCEPT ![p] = l]
Take(l, p)    == lock[l] = Free /\ lock' = [lock EXCEPT ![l] = p]
Release(l)    == lock' = [lock EXCEPT ![l] = Free]
First(S)      == CHOOSE s \in S : \A r \in S : s <= r
PathList      == {s \in Sources : path[s].listed}

\* sw_mixer_check_ready_to_mix, when the loop over the path list sees S.
ReadyOn(S) ==
  /\ \E s \in S : path[s].start
  /\ \A s \in S : path[s].start => path[s].enough
Ready == ReadyOn(PathList)

\* Under mix_lock: signal the thread if it waits and `when` holds; d is the new
\* value of is_direct.
SignalMixer(when, d) ==
  LET wake == target.waitToMix /\ when
  IN /\ cond' = [cond EXCEPT !.mix = IF wake THEN 1 ELSE @]
     /\ target' = [target EXCEPT !.waitToMix = @ /\ ~wake, !.direct = d]

----------------------------------------------------------------------------
(* The mixer thread, sw_mixer_mix_thread.                                  *)

\* Mutant of ThreadTop: thread->idle is only set at the first wait.
ThreadTopBusy ==
  /\ thread' = [thread EXCEPT !.idle = @ /\ thread.alive]
  /\ Go(Mixer, IF thread.alive THEN "idle" ELSE "dead")

\* The top of while (thread->alive): idle and wait, or leave.
ThreadTop ==
  /\ thread' = [thread EXCEPT !.idle = thread.alive]
  /\ Go(Mixer, IF thread.alive THEN "idle" ELSE "dead")

ThreadBoot ==
  /\ At(Mixer, "boot") /\ lock["thread"] = Free
  /\ ThreadTop
  /\ UNCHANGED <<locks, target, path, listed, left, scan, todo, outbuf, hist>>

\* WAIT_ALOCK(thread->lock): the signal is received,
ThreadWake ==
  /\ At(Mixer, "idle") /\ cond.thread = 1
  /\ cond' = [cond EXCEPT !.thread = 0]
  /\ Go(Mixer, "launch")
  /\ UNCHANGED <<lock, plock, slock, pcond, thread, target, path, listed,
                 left, scan, todo, outbuf, hist>>

\* and with the lock again the thread looks whether it has a target.
ThreadLaunch ==
  /\ At(Mixer, "launch") /\ lock["thread"] = Free
  /\ IF thread.alive /\ thread.target /\ ~target.exit
     THEN /\ thread' = [thread EXCEPT !.idle = FALSE]
          /\ Take("thread", Mixer)
          /\ Go(Mixer, "lock")
     ELSE ThreadTop /\ UNCHANGED lock
  /\ UNCHANGED <<plock, slock, cond, pcond, target, path, listed, left, scan,
                 todo, outbuf, hist>>

ThreadLock ==
  /\ At(Mixer, "lock") /\ Take("target", Mixer)
  /\ Go(Mixer, "mixing")
  /\ UNCHANGED <<plock, slock, cond, pcond, thread, target, path, listed,
                 left, scan, todo, outbuf, hist>>

\* Mutant of MixTop: while (true).
MixTopForever ==
  /\ At(Mixer, "mixing")
  /\ Go(Mixer, "enter")
  /\ UNCHANGED <<locks, thread, target, path, listed, left, scan, todo, outbuf,
                 hist>>

\* while (!target->exit): wait for data, or go idle.
MixTop ==
  /\ At(Mixer, "mixing")
  /\ IF target.exit
     THEN /\ lock' = [lock EXCEPT !["target"] = Free, !["thread"] = Free]
          /\ ThreadTop
     ELSE Go(Mixer, "enter") /\ UNCHANGED <<lock, thread>>
  /\ UNCHANGED <<plock, slock, cond, pcond, target, path, listed, left, scan,
                 todo, outbuf, hist>>

\* sw_mixer_wait_to_mix: take mix_lock and begin to look at the paths.
MixEnter ==
  /\ At(Mixer, "enter") /\ Take("mix", Mixer)
  /\ left' = TRUE
  /\ scan' = PathList
  /\ Go(Mixer, "ready")
  /\ UNCHANGED <<plock, slock, cond, pcond, thread, target, path, listed,
                 todo, outbuf, hist>>

\* Not ready: sleep, with a time out unless in direct mode; in direct mode look
\* at target->exit first.
Sleep ==
  /\ Release("mix")
  /\ IF target.direct /\ target.exit
     THEN Go(Mixer, "mixing") /\ UNCHANGED target
     ELSE /\ target' = [target EXCEPT !.waitToMix = TRUE]
          /\ Go(Mixer, IF target.direct THEN "asleep" ELSE "waiting")

\* The loop condition.  path_list_lock is not held: the loop over the list may
\* or may not see a path that was added or deleted since it began.
WaitToMix ==
  /\ At(Mixer, "ready")
  /\ \E S \in SUBSET (scan \union PathList) :
       /\ scan \cap PathList \subseteq S
       /\ IF ReadyOn(S) \/ ~left
          THEN Release("mix") /\ Go(Mixer, "waited") /\ UNCHANGED target
          ELSE Sleep
  /\ UNCHANGED <<plock, slock, cond, pcond, thread, path, listed, left, scan,
                 todo, outbuf, hist>>

\* WAIT_ALOCK_US(target->mix_lock, left_time_us): signal or time out; in direct
\* mode WAIT_ALOCK, signal only.
MixerWakes ==
  /\ \/ At(Mixer, "waiting") /\ Go(Mixer, "woken")
     \/ At(Mixer, "asleep") /\ Go(Mixer, "roused")
  /\ cond.mix = 1
  /\ cond' = [cond EXCEPT !.mix = 0]
  /\ UNCHANGED <<lock, plock, slock, pcond, thread, target, path, listed,
                 left, scan, todo, outbuf, hist>>

\* The time is up: nothing is left of it.
MixerTimesOut ==
  /\ At(Mixer, "waiting")
  /\ Go(Mixer, "woken")
  /\ left' = FALSE
  /\ UNCHANGED <<locks, thread, target, path, listed, scan, todo, outbuf, hist>>

\* After the timed wait: leave, sleep because direct mode began, or look again
\* with what is left of the time.
AfterWait ==
  /\ At(Mixer, "woken") /\ lock["mix"] = Free
  /\ scan' = PathList
  /\ IF target.exit
     THEN /\ target' = [target EXCEPT !.waitToMix = FALSE]
          /\ Go(Mixer, "mixing")
          /\ UNCHANGED <<lock, left>>
     ELSE IF target.direct
     THEN /\ target' = [target EXCEPT !.waitToMix = TRUE]
          /\ Go(Mixer, "asleep")
          /\ UNCHANGED <<lock, left>>
     ELSE /\ target' = [target EXCEPT !.waitToMix = FALSE]
          /\ left' \in {left, FALSE}
          /\ Take("mix", Mixer)
          /\ Go(Mixer, "ready")
  /\ UNCHANGED <<plock, slock, cond, pcond, thread, path, listed, todo,
                 outbuf, hist>>

\* After the wait of direct mode: with mix_lock held,
AfterSleep ==
  /\ At(Mixer, "roused") /\ Take("mix", Mixer)
  /\ target' = [target EXCEPT !.waitToMix = FALSE]
  /\ Go(Mixer, "settle")
  /\ UNCHANGED <<plock, slock, cond, pcond, thread, path, listed, left, scan,
                 todo, outbuf, hist>>

\* LOCK_ALOCK(target->direct_lock), "wait direct write done".
AwaitDirect ==
  /\ At(Mixer, "settle") /\ lock["direct"] = Free
  /\ left' = TRUE
  /\ scan' = PathList
  /\ Go(Mixer, "ready")
  /\ UNCHANGED <<locks, thread, target, path, listed, todo, outbuf, hist>>

\* if (target->exit) break; if (!target->start) continue;
AfterLook ==
  /\ At(Mixer, "waited")
  /\ Go(Mixer, IF target.exit \/ ~target.start THEN "mixing" ELSE "mix")
  /\ UNCHANGED <<locks, thread, target, path, listed, left, scan, todo,
                 outbuf, hist>>

\* sw_mixer_do_mix takes path_list_lock.
StartMix ==
  /\ At(Mixer, "mix") /\ Take("list", Mixer)
  /\ todo' = [todo EXCEPT ![Mixer] = PathList]
  /\ outbuf' = [s \in Sources |-> <<>>]
  /\ Go(Mixer, "select")
  /\ UNCHANGED <<plock, slock, cond, pcond, thread, target, path, listed,
                 left, scan, hist>>

\* One turn of a loop of sw_mixer_do_mix over the paths: p is the path after it.
Visit(l, s, p) ==
  /\ At(Mixer, l) /\ todo[Mixer] # {} /\ s = First(todo[Mixer])
  /\ plock[s] = Free
  /\ path' = [path EXCEPT ![s] = p]
  /\ todo' = [todo EXCEPT ![Mixer] = @ \ {s}]
  /\ UNCHANGED <<pc, lock, plock, slock, thread, target, listed, left,
                 scan, hist>>

\* "check path to do mix or not".
Select(s) ==
  /\ Visit("select", s,
       IF ~path[s].start THEN path[s]
       ELSE IF Len(path[s].buf) < TargetSize
       THEN [path[s] EXCEPT !.start = FALSE, !.underflow = TRUE]
       ELSE [path[s] EXCEPT !.doMix = TRUE])
  /\ UNCHANGED <<cond, pcond, outbuf>>

\* num_mix_path == 0: wait again.
Selected ==
  LET chosen == {s \in PathList : path[s].doMix}
  IN /\ At(Mixer, "select") /\ todo[Mixer] = {}
     /\ todo' = [todo EXCEPT ![Mixer] = chosen]
     /\ IF chosen = {} THEN Release("list") /\ Go(Mixer, "mixing")
        ELSE UNCHANGED lock /\ Go(Mixer, "copy")
     /\ UNCHANGED <<plock, slock, cond, pcond, thread, target, path, listed,
                    left, scan, outbuf, hist>>

\* Mutant of Copy: data_enough stays set whatever is left.
CopyKeepsEnough(s) ==
  /\ Visit("copy", s,
       [path[s] EXCEPT !.buf = SubSeq(@, TargetSize + 1, Len(@))])
  /\ outbuf' = [outbuf EXCEPT ![s] = SubSeq(path[s].buf, 1, TargetSize)]
  /\ UNCHANGED <<cond, pcond>>

\* audio_ringbuf_copy_to_linear, and the sum.
Copy(s) ==
  LET rest == SubSeq(path[s].buf, TargetSize + 1, Len(path[s].buf))
  IN /\ Visit("copy", s,
          [path[s] EXCEPT !.buf = rest,
                          !.enough = @ /\ Len(rest) >= TargetSize])
     /\ outbuf' = [outbuf EXCEPT ![s] = SubSeq(path[s].buf, 1, TargetSize)]
     /\ UNCHANGED <<cond, pcond>>

\* target->write_cbk begins,
BeginWrite ==
  /\ At(Mixer, "copy") /\ todo[Mixer] = {}
  /\ Release("list")
  /\ out' = [s \in Sources |-> out[s] \o outbuf[s]]
  /\ Go(Mixer, "writing")
  /\ UNCHANGED <<plock, slock, cond, pcond, thread, target, path, listed,
                 left, scan, todo, outbuf, written, count>>

\* and has returned: "signal write done".
EndWrite ==
  /\ At(Mixer, "writing") /\ Take("list", Mixer)
  /\ todo' = [todo EXCEPT ![Mixer] = {s \in PathList : path[s].doMix}]
  /\ Go(Mixer, "signal")
  /\ UNCHANGED <<plock, slock, cond, pcond, thread, target, path, listed,
                 left, scan, outbuf, hist>>

\* lowest_safe_cnt, get_lowest_safe_cnt.
SafeCount(s) ==
  IF Size[s] > TargetSize /\ Size[s] % TargetSize # 0 THEN Size[s]
  ELSE TargetSize

\* Mutant of SignalDone: a writer is signalled before its data is drained.
SignalDoneEarly(s) ==
  LET wake == path[s].isWait
  IN /\ Visit("signal", s,
          [path[s] EXCEPT !.doMix = FALSE, !.isWait = @ /\ ~wake])
     /\ pcond' = [pcond EXCEPT ![s] = IF wake THEN 1 ELSE @]
     /\ UNCHANGED <<cond, outbuf>>

\* Mutant of SignalDone: is_wait is cleared before it is looked at.
SignalDoneNever(s) ==
  /\ Visit("signal", s, [path[s] EXCEPT !.doMix = FALSE, !.isWait = FALSE])
  /\ UNCHANGED <<cond, pcond, outbuf>>

SignalDone(s) ==
  LET wake == /\ path[s].isWait
              /\ Len(path[s].buf) <=
                   (IF path[s].sync THEN 0 ELSE SafeCount(s))
  IN /\ Visit("signal", s,
          [path[s] EXCEPT !.doMix = FALSE, !.isWait = @ /\ ~wake])
     /\ pcond' = [pcond EXCEPT ![s] = IF wake THEN 1 ELSE @]
     /\ UNCHANGED <<cond, outbuf>>

MixDone ==
  /\ At(Mixer, "signal") /\ todo[Mixer] = {}
  /\ Release("list")
  /\ Go(Mixer, "mixing")
  /\ UNCHANGED <<plock, slock, cond, pcond, thread, target, path, listed,
                 left, scan, todo, outbuf, hist>>

MixerStep ==
  \/ ThreadBoot \/ ThreadWake \/ ThreadLaunch \/ ThreadLock
  \/ MixTop \/ MixEnter \/ WaitToMix \/ MixerWakes \/ MixerTimesOut
  \/ AfterWait \/ AfterSleep \/ AwaitDirect \/ AfterLook \/ StartMix
  \/ Selected \/ BeginWrite \/ EndWrite \/ MixDone
  \/ \E s \in Sources : Select(s) \/ Copy(s) \/ SignalDone(s)

----------------------------------------------------------------------------
(* A source task: sw_mixer_source_attach, _write and _detach, in turn.     *)

\* sw_mixer_manager_create_path, under source->lock and path_list_lock.
CreatePath(s) ==
  /\ path' = [path EXCEPT ![s] =
       [NoPath EXCEPT !.up = TRUE, !.listed = TRUE, !.sync = s \in Sync]]
  /\ pcond' = [pcond EXCEPT ![s] = 0]

SourceAttach(s) ==
  /\ At(s, "off") /\ count.source[s] < MaxSource[s]
  /\ Take("manager", s)
  /\ count' = [count EXCEPT !.source[s] = @ + 1]
  /\ Go(s, "attach")
  /\ UNCHANGED <<plock, slock, cond, pcond, thread, target, path, listed,
                 left, scan, todo, outbuf, written, out>>

\* With manager->lock: into the list, and a path to the target if there is one.
SourceListed(s) ==
  /\ At(s, "attach")
  /\ thread.target => lock["list"] = Free
  /\ listed' = listed \union {s}
  /\ IF thread.target THEN CreatePath(s) ELSE UNCHANGED <<path, pcond>>
  /\ Release("manager")
  /\ Go(s, "idle")
  /\ UNCHANGED <<plock, slock, cond, thread, target, left, scan, todo, outbuf,
                 hist>>

\* sw_mixer_source_write up to target->mix_lock; without a path it does nothing.
CallWrite(s) ==
  /\ At(s, "idle") /\ written[s] < MaxWrites
  /\ slock[s] = Free /\ path[s].listed
  /\ slock' = [slock EXCEPT ![s] = s]
  /\ written' = [written EXCEPT ![s] = @ + 1]
  /\ Go(s, "mode")
  /\ UNCHANGED <<lock, plock, cond, pcond, thread, target, path, listed, left,
                 scan, todo, outbuf, out, count>>

\* Mutant of ChooseMode: the thread is not told that direct mode is over.
ChooseModeSilent(s) ==
  LET direct == /\ Cardinality(PathList) = 1
                /\ path[s].sync
                /\ path[s].buf = <<>>
  IN /\ At(s, "mode") /\ lock["mix"] = Free
     /\ SignalMixer(direct /\ ~target.direct, direct)
     /\ Go(s, IF direct THEN "direct" ELSE "put")
     /\ UNCHANGED <<lock, plock, slock, pcond, thread, path, listed, left,
                    scan, todo, outbuf, hist>>

\* Under mix_lock: a single synchronous source with nothing queued writes
\* directly; the thread is told when the mode changes.
ChooseMode(s) ==
  LET direct == /\ Cardinality(PathList) = 1
                /\ path[s].sync
                /\ path[s].buf = <<>>
  IN /\ At(s, "mode") /\ lock["mix"] = Free
     /\ SignalMixer(target.direct # direct, direct)
     /\ Go(s, IF direct THEN "direct" ELSE "put")
     /\ UNCHANGED <<lock, plock, slock, pcond, thread, path, listed, left,
                    scan, todo, outbuf, hist>>

\* LOCK_ALOCK(target->direct_lock).
TakeDirect(s) ==
  /\ At(s, "direct") /\ Take("direct", s)
  /\ Go(s, "mine")
  /\ UNCHANGED <<plock, slock, cond, pcond, thread, target, path, listed,
                 left, scan, todo, outbuf, hist>>

\* sw_mixer_mix_fp_direct_write, up to the write callback,
DirectWrite(s) ==
  /\ At(s, "mine") /\ plock[s] = Free
  /\ plock' = [plock EXCEPT ![s] = s]
  /\ path' = [path EXCEPT ![s].start = TRUE, ![s].underflow = FALSE,
                          ![s].enough = FALSE, ![s].isWait = FALSE]
  /\ out' = [out EXCEPT ![s] = @ \o [n \in 1..Size[s] |-> written[s]]]
  /\ Go(s, "direct_writing")
  /\ UNCHANGED <<lock, slock, cond, pcond, thread, target, listed, left, scan,
                 todo, outbuf, written, count>>

\* and after it.
DirectDone(s) ==
  /\ At(s, "direct_writing")
  /\ plock' = [plock EXCEPT ![s] = Free]
  /\ slock' = [slock EXCEPT ![s] = Free]
  /\ Release("direct")
  /\ Go(s, "idle")
  /\ UNCHANGED <<cond, pcond, thread, target, path, listed, left, scan, todo,
                 outbuf, hist>>

\* Not direct: "let mixer thread start to do mix when write begin", "switch to
\* unsync mode when underflow", and call path->mix_fp; inSync: which one.
CallPut(s) ==
  LET sync == path[s].sync /\ ~(path[s].underflow /\ Cardinality(PathList) > 1)
  IN /\ At(s, "put")
     /\ target' = [target EXCEPT !.start = TRUE]
     /\ path' = [path EXCEPT ![s].sync = sync, ![s].inSync = sync]
     /\ Go(s, "fill")
     /\ UNCHANGED <<locks, thread, listed, left, scan, todo, outbuf, hist>>

\* "check underflow + all mute data": a suspended source does not join.
Suspend(s) ==
  /\ At(s, "fill")
  /\ Mute /\ path[s].inSync /\ path[s].underflow
  /\ path' = [path EXCEPT ![s].start = FALSE]
  /\ slock' = [slock EXCEPT ![s] = Free]
  /\ Go(s, "idle")
  /\ UNCHANGED <<lock, plock, cond, pcond, thread, target, listed, left, scan,
                 todo, outbuf, hist>>

\* "check overflow": the write is dropped.
Drop(s) ==
  /\ At(s, "fill") /\ plock[s] = Free
  /\ Len(path[s].buf) > Limit
  /\ slock' = [slock EXCEPT ![s] = Free]
  /\ Go(s, "idle")
  /\ UNCHANGED <<lock, plock, cond, pcond, thread, target, path, listed, left,
                 scan, todo, outbuf, hist>>

\* sw_mixer_mix_fp_sync_write and _unsync_write: copy into the ring buffer.  An
\* unsync writer waits or not, as the times of its writes require.
Fill(s) ==
  LET buf == path[s].buf \o [n \in 1..Size[s] |-> written[s]]
      enough == Len(buf) >= TargetSize
  IN /\ At(s, "fill") /\ plock[s] = Free
     /\ Len(path[s].buf) <= Limit
     /\ plock' = [plock EXCEPT ![s] = s]
     /\ \E wait \in BOOLEAN :
          /\ path[s].inSync => wait = (path[s].isWait \/ enough)
          /\ path' = [path EXCEPT ![s] =
               [path[s] EXCEPT !.buf = buf,
                               !.start = @ \/ enough,
                               !.underflow = @ /\ ~enough,
                               !.enough = @ \/ enough,
                               !.isWait = wait]]
     /\ Go(s, "signal")
     /\ UNCHANGED <<lock, slock, cond, pcond, thread, target, listed, left,
                    scan, todo, outbuf, hist>>

\* sw_mixer_signal_to_mix, and then the wait gives path->lock or the call ends.
SignalToMix(s) ==
  /\ At(s, "signal")
  /\ path[s].enough => lock["mix"] = Free
  /\ SignalMixer(path[s].enough /\ Ready, target.direct)
  /\ plock' = [plock EXCEPT ![s] = Free]
  /\ IF path[s].isWait
     THEN Go(s, "sleep") /\ UNCHANGED slock
     ELSE Go(s, "idle") /\ slock' = [slock EXCEPT ![s] = Free]
  /\ UNCHANGED <<lock, pcond, thread, path, listed, left, scan, todo, outbuf,
                 hist>>

\* WAIT_ALOCK_US(path->lock, wait_latency_us): done, or too late.
WriterWakes(s) ==
  /\ At(s, "sleep")
  /\ \/ pcond[s] = 1 /\ pcond' = [pcond EXCEPT ![s] = 0] /\ Go(s, "done")
     \/ WaitTimeout /\ Go(s, "late") /\ UNCHANGED pcond
  /\ UNCHANGED <<lock, plock, slock, cond, thread, target, path, listed, left,
                 scan, todo, outbuf, hist>>

\* With path->lock again: the end of the write.
WriteReturns(s) ==
  /\ pc[s] \in {"done", "late"} /\ plock[s] = Free
  /\ path' = [path EXCEPT ![s].isWait = FALSE]
  /\ slock' = [slock EXCEPT ![s] = Free]
  /\ Go(s, "idle")
  /\ UNCHANGED <<lock, plock, cond, pcond, thread, target, listed, left, scan,
                 todo, outbuf, hist>>

\* sw_mixer_manager_destroy_path by p, in three steps.  Under both list locks
\* the path leaves the lists; the only path left is given its function anew.
Unlink(p, s) ==
  LET rest == PathList \ {s}
  IN /\ slock[s] = Free
     /\ slock' = [slock EXCEPT ![s] = p]
     /\ Take("list", p)
     /\ path' = [r \in Sources |->
          IF r = s THEN [path[s] EXCEPT !.listed = FALSE]
          ELSE IF rest = {r}
          THEN [path[r] EXCEPT !.sync = @ \/ r \in Sync]
          ELSE path[r]]
     /\ target' = [target EXCEPT !.start = @ /\ rest # {}]
     /\ Go(p, "unlinked")
     /\ UNCHANGED <<plock, cond, pcond, thread, listed, left, scan, todo,
                    outbuf, hist>>

\* Mutant of Broadcast: no mix_lock between unlinking and freeing a path.
BroadcastNot(p, s) ==
  /\ At(p, "unlinked") /\ slock[s] = p
  /\ slock' = [slock EXCEPT ![s] = Free]
  /\ Release("list")
  /\ Go(p, "free")
  /\ UNCHANGED <<plock, cond, pcond, thread, target, path, listed, left, scan,
                 todo, outbuf, hist>>

\* "broadcast to update status", which waits for whoever loops over the paths.
Broadcast(p, s) ==
  /\ At(p, "unlinked") /\ slock[s] = p
  /\ lock["mix"] = Free
  /\ SignalMixer(Ready, target.direct)
  /\ slock' = [slock EXCEPT ![s] = Free]
  /\ Release("list")
  /\ Go(p, "free")
  /\ UNCHANGED <<plock, pcond, thread, path, listed, left, scan, todo, outbuf,
                 hist>>

SourceDetach(s) ==
  /\ At(s, "idle") /\ Take("manager", s)
  /\ Go(s, "detach")
  /\ UNCHANGED <<plock, slock, cond, pcond, thread, target, path, listed,
                 left, scan, todo, outbuf, hist>>

SourceUnlink(s) == At(s, "detach") /\ path[s].listed /\ Unlink(s, s)

\* The path, if there was one, and the source are freed.
SourceFree(s) ==
  /\ \/ At(s, "free") /\ plock[s] = Free
     \/ At(s, "detach") /\ ~path[s].listed
  /\ path' = [path EXCEPT ![s] = NoPath]
  /\ listed' = listed \ {s}
  /\ Release("manager")
  /\ Go(s, "off")
  /\ UNCHANGED <<plock, slock, cond, pcond, thread, target, left, scan, todo,
                 outbuf, hist>>

SourceStep(s) ==
  \/ SourceListed(s) \/ ChooseMode(s) \/ TakeDirect(s) \/ DirectWrite(s)
  \/ DirectDone(s) \/ CallPut(s) \/ Suspend(s) \/ Drop(s) \/ Fill(s)
  \/ SignalToMix(s) \/ WriterWakes(s) \/ WriteReturns(s)
  \/ SourceUnlink(s) \/ Broadcast(s, s) \/ SourceFree(s)

----------------------------------------------------------------------------
(* Control: sw_mixer_target_attach, _detach, and deinit_audio_sw_mixer.    *)

TargetAttach ==
  /\ At(Control, "off") /\ count.target < MaxAttach
  /\ Take("manager", Control)
  /\ target' = [NoTarget EXCEPT !.up = TRUE]
  /\ cond' = [cond EXCEPT !.mix = 0]
  /\ count' = [count EXCEPT !.target = @ + 1]
  /\ Go(Control, "thread")
  /\ UNCHANGED <<plock, slock, pcond, thread, path, listed, left, scan, todo,
                 outbuf, written, out>>

TakeThread ==
  /\ At(Control, "thread") /\ Take("thread", Control)
  /\ Go(Control, "target")
  /\ UNCHANGED <<plock, slock, cond, pcond, thread, target, path, listed,
                 left, scan, todo, outbuf, hist>>

\* if (thread->idle) { SIGNAL_ALOCK(thread->lock); thread->idle = false; }
WakeThread ==
  cond' = [cond EXCEPT !.thread = IF thread.idle THEN 1 ELSE @]

\* With thread->lock and target->lock: the thread is given the target.
AssignTarget ==
  /\ At(Control, "target") /\ Take("target", Control)
  /\ WakeThread
  /\ thread' = [thread EXCEPT !.target = TRUE, !.idle = FALSE]
  /\ todo' = [todo EXCEPT ![Control] = listed]
  /\ Go(Control, "paths")
  /\ UNCHANGED <<plock, slock, pcond, target, path, listed, left, scan, outbuf,
                 hist>>

AttachPath(s) ==
  /\ At(Control, "paths") /\ todo[Control] # {} /\ s = First(todo[Control])
  /\ slock[s] = Free /\ lock["list"] = Free
  /\ CreatePath(s)
  /\ todo' = [todo EXCEPT ![Control] = @ \ {s}]
  /\ UNCHANGED <<pc, lock, plock, slock, cond, thread, target, listed, left,
                 scan, outbuf, hist>>

\* The locks of Control are given back; one it did not get stays as it is.
ReleaseAll ==
  lock' = [l \in DOMAIN lock |-> IF lock[l] = Control THEN Free ELSE lock[l]]

Attached ==
  /\ At(Control, "paths") /\ todo[Control] = {}
  /\ ReleaseAll
  /\ Go(Control, "up")
  /\ UNCHANGED <<plock, slock, cond, pcond, thread, target, path, listed,
                 left, scan, todo, outbuf, hist>>

TargetDetach ==
  /\ At(Control, "up") /\ count.target <= MaxDetach
  /\ target' = [target EXCEPT !.exit = TRUE]
  /\ Go(Control, "exit")
  /\ UNCHANGED <<locks, thread, path, listed, left, scan, todo, outbuf, hist>>

TakeManager ==
  /\ At(Control, "exit") /\ Take("manager", Control)
  /\ Go(Control, "terminate")
  /\ UNCHANGED <<plock, slock, cond, pcond, thread, target, path, listed,
                 left, scan, todo, outbuf, hist>>

\* "terminate thread".
Terminate ==
  /\ At(Control, "terminate") /\ lock["mix"] = Free
  /\ SignalMixer(TRUE, target.direct)
  /\ Go(Control, "wait_idle")
  /\ UNCHANGED <<lock, plock, slock, pcond, thread, path, listed, left, scan,
                 todo, outbuf, hist>>

\* LOCK_ALOCK(thread->lock), "stop here until thread idle", whose result is not
\* looked at; then LOCK_ALOCK(target->lock), the same.
AwaitIdle ==
  /\ \/ At(Control, "wait_idle") /\ Go(Control, "wait_target")
     \/ At(Control, "wait_target") /\ Go(Control, "unassign")
  /\ LET l == IF At(Control, "wait_idle") THEN "thread" ELSE "target"
     IN IF lock[l] = Free THEN Take(l, Control)
        ELSE IdleTimeout /\ UNCHANGED lock
  /\ UNCHANGED <<plock, slock, cond, pcond, thread, target, path, listed,
                 left, scan, todo, outbuf, hist>>

UnassignTarget ==
  /\ At(Control, "unassign")
  /\ thread' = [thread EXCEPT !.target = FALSE]
  /\ todo' = [todo EXCEPT ![Control] = listed]
  /\ Go(Control, "unlink")
  /\ UNCHANGED <<locks, target, path, listed, left, scan, outbuf, hist>>

DetachPath(s) ==
  /\ At(Control, "unlink") /\ todo[Control] # {} /\ s = First(todo[Control])
  /\ Unlink(Control, s)

FreePath(s) ==
  /\ At(Control, "free") /\ s = First(todo[Control]) /\ plock[s] = Free
  /\ path' = [path EXCEPT ![s] = NoPath]
  /\ todo' = [todo EXCEPT ![Control] = @ \ {s}]
  /\ Go(Control, "unlink")
  /\ UNCHANGED <<locks, thread, target, listed, left, scan, outbuf, hist>>

Detached ==
  /\ At(Control, "unlink") /\ todo[Control] = {}
  /\ ReleaseAll
  /\ target' = NoTarget
  /\ Go(Control, "off")
  /\ UNCHANGED <<plock, slock, cond, pcond, thread, path, listed, left, scan,
                 todo, outbuf, hist>>

Deinit ==
  /\ At(Control, "off")
  /\ thread' = [thread EXCEPT !.alive = FALSE]
  /\ Go(Control, "deinit")
  /\ UNCHANGED <<locks, target, path, listed, left, scan, todo, outbuf, hist>>

\* Mutant of DeinitSignal: an idle thread is not signalled.
DeinitSilent ==
  /\ At(Control, "deinit") /\ lock["thread"] = Free
  /\ Go(Control, "over")
  /\ UNCHANGED <<locks, thread, target, path, listed, left, scan, todo, outbuf,
                 hist>>

DeinitSignal ==
  /\ At(Control, "deinit") /\ lock["thread"] = Free
  /\ WakeThread
  /\ thread' = [thread EXCEPT !.idle = FALSE]
  /\ Go(Control, "over")
  /\ UNCHANGED <<lock, plock, slock, pcond, target, path, listed, left, scan,
                 todo, outbuf, hist>>

ControlStep ==
  \/ TakeThread \/ AssignTarget \/ Attached
  \/ TakeManager \/ Terminate \/ AwaitIdle \/ UnassignTarget \/ Detached
  \/ DeinitSignal
  \/ \E s \in Sources :
       AttachPath(s) \/ DetachPath(s) \/ Broadcast(Control, s) \/ FreePath(s)

----------------------------------------------------------------------------
\* Nobody is in a call, and the thread sleeps until one is made.
Quiet ==
  /\ \A s \in Sources : pc[s] \in {"off", "idle"}
  /\ pc[Control] \in {"off", "up", "over"}
  /\ pc[Mixer] \in {"idle", "asleep", "dead"}

Next ==
  /\ \/ MixerStep \/ ControlStep \/ TargetAttach \/ TargetDetach \/ Deinit
     \/ \E s \in Sources :
          SourceStep(s) \/ SourceAttach(s) \/ CallWrite(s) \/ SourceDetach(s)
     \/ Quiet /\ UNCHANGED vars
  /\ UNCHANGED setup

Spec == Init /\ [][Next]_vars

\* The scheduler runs every task that can run; nobody has to start a call.
FairSpec ==
  /\ Spec
  /\ WF_vars(MixerStep /\ UNCHANGED setup)
  /\ WF_vars(ControlStep /\ UNCHANGED setup)
  /\ \A s \in Sources : WF_vars(SourceStep(s) /\ UNCHANGED setup)

----------------------------------------------------------------------------
(* The units of a source reach the target in the order they were written,  *)
(* whatever part of them is written directly and what by the thread.       *)
InOrder ==
  \A s \in Sources : \A m, n \in DOMAIN out[s] :
    m <= n => out[s][m] <= out[s][n]

(* data_enough is only set while the ring buffer holds a whole mix; the    *)
(* thread mixes no less, as sw_mixer_do_mix asserts twice.                 *)
EnoughIsEnough ==
  \A s \in PathList :
    \/ ~path[s].enough /\ ~(pc[Mixer] = "copy" /\ s \in todo[Mixer])
    \/ Len(path[s].buf) >= TargetSize

(* Nothing that the thread still works with is freed.  A path is freed     *)
(* only when none of the loops of the thread over the paths can meet it,   *)
(* though the one that looks for ready paths takes no path_list_lock; and  *)
(* the target ("stop here until thread idle") when the thread has left it. *)
FreedUnused ==
  /\ pc[Mixer] = "ready" => \A s \in scan : path[s].up
  /\ \A s \in todo[Mixer] : path[s].up
  /\ pc[Mixer] \notin {"boot", "idle", "launch", "dead"} => target.up

(* "wait idle -> lunch": a thread that waits to be launched has no target   *)
(* but one that is being detached, or is signalled.                        *)
LaunchNotLost ==
  pc[Mixer] = "idle" /\ thread.target /\ ~target.exit => cond.thread = 1

(* The thread does not sleep in direct mode, without a time out, when the  *)
(* mode is over or the target is to be detached: whoever decides that      *)
(* signals it; and LaunchNotLost.                                          *)
NotLeftAsleep ==
  /\ pc[Mixer] = "asleep" /\ cond.mix = 0 =>
       target.direct /\ (target.exit => pc[Control] \in {"exit", "terminate"})
  /\ LaunchNotLost

(* "signal write done": a synchronous write that was signalled returns     *)
(* when all of its data, and not what an earlier mix wrote, has been with  *)
(* the target.  Once a wait timed out this is no longer so: the signal may *)
(* come later and stay for the next write.                                 *)
DoneIsWritten ==
  ~WaitTimeout => \A s \in Sources : pc[s] = "done" /\ path[s].inSync =>
    Cardinality({n \in DOMAIN out[s] : out[s][n] = written[s]}) = Size[s]

(* A write that waits without a time out returns.                          *)
WriteReturned ==
  ~WaitTimeout => \A s \in Sources : pc[s] = "sleep" ~> pc[s] = "idle"

(* Detaching the target ends: the thread goes idle, no lock is waited for  *)
(* in a circle.                                                            *)
DetachEnds == pc[Control] = "exit" ~> pc[Control] = "off"

(* After deinit_audio_sw_mixer the thread ends.                            *)
ThreadEnds == ~thread.alive ~> pc[Mixer] = "dead"

(* Taking the mixer down comes to its end: DetachEnds and ThreadEnds.      *)
MixerEnds == DetachEnds /\ ThreadEnds
=============================================================================
