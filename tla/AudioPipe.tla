------------------------------ MODULE AudioPipe ------------------------------
(***************************************************************************)
(* The pipes that hand one recording to several tasks,                     *)
(* drivers/audio/framework/audio_pipe.c: an owner opens the hardware,      *)
(* tasks attach to it, and an interrupt event copies what has come into    *)
(* the ring buffer of each of them.                                        *)
(*                                                                         *)
(* Opening, closing and reading look for a pipe under g_pipe_lock; the     *)
(* others find it without, and lock it when it may be gone.  What happens  *)
(* then is anything: the model stops (pipeGone).  Recorded data is units,  *)
(* numbered as they come.                                                  *)
(***************************************************************************)
EXTENDS Integers, Sequences, FiniteSets, SequencesExt

CONSTANTS
    PipeOwners,  \* tasks that open and close one pipe each
    PipeUsers,   \* tasks that attach to pipes
    PipeIrq,     \* the task that takes the interrupt events
    PipeSizes,   \* units of a period
    PipeRoom,    \* periods of a user's ring buffer: 8
    PipeUnits,   \* bound: units the hardware delivers
    PipeOpens,   \* bound: times a pipe is opened
    PipeFree     \* no task

ASSUME PipeAssumption ==
    PipeSizes \subseteq Nat /\ PipeRoom \in Nat /\ PipeFree \notin PipeOwners \cup PipeUsers \cup {PipeIrq}

PipeTasks == PipeOwners \cup PipeUsers \cup {PipeIrq}
PipeNowhere == "nowhere"

VARIABLES
    pipeOf,       \* [owner -> its pipe: in head or not, read_buf_size, write size of hw_buf, generation]
    pipeUser,     \* [owner -> [user -> attached, ring buffer, its length]]
    pipeGLock,    \* holder of g_pipe_lock
    pipeLock,     \* [owner -> holder of pipe_lock]
    pipeHw,       \* [owner -> "closed", "open", "running"]
    pipeCame,     \* [owner -> units the hardware has delivered]
    pipeRead,     \* [owner -> units that were read from it]
    pipeAt,       \* [task -> what it does next, in which pipe]
    pipeTaken,    \* [owner -> [user -> the last unit it has read, or missed by being late]]
    pipeDropped,  \* [owner -> [user -> units for which there was no room]]
    pipeLeaked,   \* pipes whose hardware a failing open has left open
    pipeGone      \* a task has used a pipe, or its buffer, that is freed

pipeLocks == <<pipeGLock, pipeLock>>
pipeGhost == <<pipeTaken, pipeDropped>>
pipeVars == <<pipeOf, pipeUser, pipeLocks, pipeHw, pipeCame, pipeRead, pipeAt, pipeGhost,
              pipeLeaked, pipeGone>>

PipeAway == [do |-> "idle", pipe |-> PipeNowhere, left |-> 0, data |-> <<>>]
PipeNoUser == [on |-> FALSE, ring |-> <<>>, len |-> 0]
PipeTurn(task, do) == ~pipeGone /\ pipeAt[task].do = do
PipeGoes(task, do) == pipeAt' = [pipeAt EXCEPT ![task].do = do]
PipeDone(task) == pipeAt' = [pipeAt EXCEPT ![task] = PipeAway]
PipeOnes(o) == {u \in PipeUsers : pipeUser[o][u].on}
---------------------------------------------------------------------------
(* audio_pipe_open                                                         *)

PipeOpen(o) ==
    /\ PipeTurn(o, "idle") /\ pipeGLock = PipeFree
    /\ ~pipeOf[o].open /\ pipeOf[o].born < PipeOpens
    /\ pipeGLock' = o
    /\ \/ pipeHw' = [pipeHw EXCEPT ![o] = "open"]
       \/ UNCHANGED pipeHw
    /\ pipeAt' = [pipeAt EXCEPT ![o] = [PipeAway EXCEPT !.pipe = o,
                    !.do = IF pipeHw'[o] = "open" THEN "opened" ELSE "refused"]]
    /\ UNCHANGED <<pipeOf, pipeUser, pipeLock, pipeCame, pipeRead, pipeGhost, pipeLeaked, pipeGone>>

\* Without memory, or with a period of 0, the handle stays open; so in the second
\* case the call returns 0, a handle, and there is no pipe.
PipeOpened(o, size) ==
    /\ PipeTurn(o, "opened")
    /\ pipeOf' = [pipeOf EXCEPT ![o] = [open |-> TRUE, size |-> size, opened |-> size, born |-> @.born + 1]]
    /\ pipeRead' = [pipeRead EXCEPT ![o] = pipeCame[o]]
    /\ pipeGLock' = PipeFree
    /\ PipeDone(o)
    /\ UNCHANGED <<pipeUser, pipeLock, pipeHw, pipeCame, pipeGhost, pipeLeaked, pipeGone>>
PipeNotOpened(o) ==
    /\ PipeTurn(o, "opened") \/ PipeTurn(o, "refused")
    /\ pipeLeaked' = IF pipeHw[o] = "closed" THEN pipeLeaked ELSE pipeLeaked \cup {o}
    /\ pipeGLock' = PipeFree
    /\ PipeDone(o)
    /\ UNCHANGED <<pipeOf, pipeUser, pipeLock, pipeHw, pipeCame, pipeRead, pipeGhost, pipeGone>>
---------------------------------------------------------------------------
(* audio_pipe_close: the users that are left are freed with it.            *)

PipeClose(o) ==
    /\ PipeTurn(o, "idle") /\ pipeGLock = PipeFree
    /\ pipeOf[o].open
    /\ pipeGLock' = o
    /\ pipeAt' = [pipeAt EXCEPT ![o].do = "close"]
    /\ UNCHANGED <<pipeOf, pipeUser, pipeLock, pipeHw, pipeCame, pipeRead, pipeGhost, pipeLeaked,
                   pipeGone>>
PipeClosePipe(o) ==
    /\ PipeTurn(o, "close") /\ pipeLock[o] = PipeFree
    /\ pipeHw' = [pipeHw EXCEPT ![o] = "closed"]
    /\ pipeOf' = [pipeOf EXCEPT ![o].size = 0]
    /\ pipeUser' = [pipeUser EXCEPT ![o] = [u \in PipeUsers |-> PipeNoUser]]
    /\ pipeGone' = \E t \in PipeTasks : pipeAt[t].do \in {"attach", "detach", "event"} /\ pipeAt[t].pipe = o
    /\ PipeGoes(o, "delete")
    /\ UNCHANGED <<pipeLocks, pipeCame, pipeRead, pipeGhost, pipeLeaked>>
PipeDelete(o) ==
    /\ PipeTurn(o, "delete")
    /\ pipeOf' = [pipeOf EXCEPT ![o].open = FALSE]
    /\ pipeGLock' = PipeFree
    /\ PipeDone(o)
    /\ UNCHANGED <<pipeUser, pipeLock, pipeHw, pipeCame, pipeRead, pipeGhost, pipeLeaked, pipeGone>>
---------------------------------------------------------------------------
(* audio_pipe_attach, audio_pipe_detach                                    *)

PipeFinds(task, o, do) ==
    /\ PipeTurn(task, "idle")
    /\ pipeOf[o].open
    /\ pipeAt' = [pipeAt EXCEPT ![task] = [PipeAway EXCEPT !.do = do, !.pipe = o]]
    /\ pipeGone' = (pipeAt[o].do = "delete")
    /\ UNCHANGED <<pipeOf, pipeUser, pipeLocks, pipeHw, pipeCame, pipeRead, pipeGhost, pipeLeaked>>
PipeFindsToAttach(u, o) == ~pipeUser[o][u].on /\ PipeFinds(u, o, "attach")
PipeFindsToDetach(u, o) == PipeFinds(u, o, "detach")

PipeAttach(u) ==
    LET o == pipeAt[u].pipe IN
    /\ PipeTurn(u, "attach") /\ pipeLock[o] = PipeFree
    /\ pipeHw' = [pipeHw EXCEPT ![o] = "running"]
    /\ pipeUser' = [pipeUser EXCEPT ![o][u] = [on |-> TRUE, ring |-> <<>>,
                                               len |-> PipeRoom * pipeOf[o].opened]]
    /\ pipeTaken' = [pipeTaken EXCEPT ![o][u] = pipeRead[o]]
    /\ pipeDropped' = [pipeDropped EXCEPT ![o][u] = {}]
    /\ PipeDone(u)
    /\ UNCHANGED <<pipeOf, pipeLocks, pipeCame, pipeRead, pipeLeaked, pipeGone>>

\* Mutant: the hardware is stopped although others are attached.
PipeDetachStops(u) ==
    LET o == pipeAt[u].pipe IN
    /\ PipeTurn(u, "detach") /\ pipeLock[o] = PipeFree
    /\ pipeUser' = [pipeUser EXCEPT ![o][u] = PipeNoUser]
    /\ pipeHw' = [pipeHw EXCEPT ![o] = IF pipeUser[o][u].on THEN "open" ELSE @]
    /\ PipeDone(u)
    /\ UNCHANGED <<pipeOf, pipeLocks, pipeCame, pipeRead, pipeGhost, pipeLeaked, pipeGone>>

PipeDetach(u) ==
    LET o == pipeAt[u].pipe IN
    /\ PipeTurn(u, "detach") /\ pipeLock[o] = PipeFree
    /\ pipeUser' = [pipeUser EXCEPT ![o][u] = PipeNoUser]
    /\ pipeHw' = [pipeHw EXCEPT ![o] = IF PipeOnes(o) = {u} THEN "open" ELSE @]
    /\ PipeDone(u)
    /\ UNCHANGED <<pipeOf, pipeLocks, pipeCame, pipeRead, pipeGhost, pipeLeaked, pipeGone>>
---------------------------------------------------------------------------
(* audio_pipe_read; audio_pipe_get_avail is the same without the copy.     *)

PipeReads(u, o) ==
    /\ PipeTurn(u, "idle") /\ pipeGLock = PipeFree
    /\ pipeGLock' = IF pipeOf[o].open THEN u ELSE PipeFree
    /\ pipeAt' = IF pipeOf[o].open
                 THEN [pipeAt EXCEPT ![u] = [PipeAway EXCEPT !.do = "read", !.pipe = o]] ELSE pipeAt
    /\ UNCHANGED <<pipeOf, pipeUser, pipeLock, pipeHw, pipeCame, pipeRead, pipeGhost, pipeLeaked,
                   pipeGone>>

\* All or nothing.
PipeCopies(u, n) ==
    LET o == pipeAt[u].pipe  ring == pipeUser[o][u].ring  enough == n <= Len(ring) IN
    /\ PipeTurn(u, "read") /\ pipeLock[o] = PipeFree
    /\ pipeUser' = IF enough THEN [pipeUser EXCEPT ![o][u].ring = SubSeq(@, n + 1, Len(@))] ELSE pipeUser
    /\ pipeTaken' = IF enough /\ n > 0 THEN [pipeTaken EXCEPT ![o][u] = ring[n]] ELSE pipeTaken
    /\ pipeGLock' = PipeFree
    /\ PipeDone(u)
    /\ UNCHANGED <<pipeOf, pipeLock, pipeHw, pipeCame, pipeRead, pipeDropped, pipeLeaked, pipeGone>>
---------------------------------------------------------------------------
(* audio_pipe_irq_trigger: as many periods as were there in the beginning  *)

PipeEvent(o) ==
    LET size == pipeOf[o].size IN
    /\ PipeTurn(PipeIrq, "idle")
    /\ pipeOf[o].open /\ size > 0
    /\ pipeAt' = [pipeAt EXCEPT ![PipeIrq] = [PipeAway EXCEPT !.do = "event", !.pipe = o,
                                   !.left = (pipeCame[o] - pipeRead[o]) \div size]]
    /\ UNCHANGED <<pipeOf, pipeUser, pipeLocks, pipeHw, pipeCame, pipeRead, pipeGhost, pipeLeaked,
                   pipeGone>>
PipeEventLocks ==
    LET o == pipeAt[PipeIrq].pipe IN
    /\ PipeTurn(PipeIrq, "event") /\ pipeLock[o] = PipeFree
    /\ IF PipeOnes(o) = {} THEN PipeDone(PipeIrq) /\ UNCHANGED pipeLock
       ELSE pipeLock' = [pipeLock EXCEPT ![o] = PipeIrq] /\ PipeGoes(PipeIrq, "fetch")
    /\ UNCHANGED <<pipeOf, pipeUser, pipeGLock, pipeHw, pipeCame, pipeRead, pipeGhost, pipeLeaked,
                   pipeGone>>

PipeFetch ==
    LET at == pipeAt[PipeIrq]  o == at.pipe  size == pipeOf[o].size IN
    /\ PipeTurn(PipeIrq, "fetch")
    /\ IF at.left > 0 /\ pipeCame[o] - pipeRead[o] >= size
       THEN /\ pipeAt' = [pipeAt EXCEPT ![PipeIrq].do = "share", ![PipeIrq].left = @ - 1,
                                        ![PipeIrq].data = [k \in 1 .. size |-> pipeRead[o] + k]]
            /\ UNCHANGED pipeLock
       ELSE /\ PipeDone(PipeIrq)
            /\ pipeLock' = [pipeLock EXCEPT ![o] = PipeFree]
    /\ UNCHANGED <<pipeOf, pipeUser, pipeGLock, pipeHw, pipeCame, pipeRead, pipeGhost, pipeLeaked,
                   pipeGone>>

PipeHasRoom(o, u, data) == Len(pipeUser[o][u].ring) + Len(data) <= pipeUser[o][u].len

\* Mutant: the buffer of one user that is full keeps it from all.
PipeShareAllOrNone ==
    LET o == pipeAt[PipeIrq].pipe  data == pipeAt[PipeIrq].data
        full == {u \in PipeOnes(o) : ~PipeHasRoom(o, u, data)} IN
    /\ PipeTurn(PipeIrq, "share")
    /\ pipeUser' = [pipeUser EXCEPT ![o] = [u \in PipeUsers |->
                        IF u \in PipeOnes(o) /\ full = {} THEN [pipeUser[o][u] EXCEPT !.ring = @ \o data] ELSE pipeUser[o][u]]]
    /\ pipeDropped' = [pipeDropped EXCEPT ![o] = [u \in PipeUsers |->
                           IF u \in full THEN @[u] \cup ToSet(data) ELSE @[u]]]
    /\ pipeRead' = [pipeRead EXCEPT ![o] = @ + Len(data)]
    /\ PipeGoes(PipeIrq, "fetch")
    /\ UNCHANGED <<pipeOf, pipeLocks, pipeHw, pipeCame, pipeTaken, pipeLeaked, pipeGone>>

PipeShare ==
    LET o == pipeAt[PipeIrq].pipe  data == pipeAt[PipeIrq].data
        full == {u \in PipeOnes(o) : ~PipeHasRoom(o, u, data)} IN
    /\ PipeTurn(PipeIrq, "share")
    /\ pipeUser' = [pipeUser EXCEPT ![o] = [u \in PipeUsers |->
                        IF u \in PipeOnes(o) \ full THEN [pipeUser[o][u] EXCEPT !.ring = @ \o data] ELSE pipeUser[o][u]]]
    /\ pipeDropped' = [pipeDropped EXCEPT ![o] = [u \in PipeUsers |->
                           IF u \in full THEN @[u] \cup ToSet(data) ELSE @[u]]]
    /\ pipeRead' = [pipeRead EXCEPT ![o] = @ + Len(data)]
    /\ PipeGoes(PipeIrq, "fetch")
    /\ UNCHANGED <<pipeOf, pipeLocks, pipeHw, pipeCame, pipeTaken, pipeLeaked, pipeGone>>

\* audio_pipe_update_read_size: a new read_buf, without the lock.
PipeUpdateReadSize(o, size) ==
    /\ ~pipeGone /\ pipeOf[o].open /\ pipeOf[o].size \notin {0, size}
    /\ pipeOf' = [pipeOf EXCEPT ![o].size = size]
    /\ pipeGone' = (pipeAt[PipeIrq].do = "share" /\ pipeAt[PipeIrq].pipe = o)
    /\ UNCHANGED <<pipeUser, pipeLocks, pipeHw, pipeCame, pipeRead, pipeAt, pipeGhost, pipeLeaked>>

\* The hardware.
PipeComes(o) ==
    /\ ~pipeGone /\ pipeHw[o] = "running" /\ pipeCame[o] < PipeUnits
    /\ pipeCame' = [pipeCame EXCEPT ![o] = @ + 1]
    /\ UNCHANGED <<pipeOf, pipeUser, pipeLocks, pipeHw, pipeRead, pipeAt, pipeGhost, pipeLeaked,
                   pipeGone>>
---------------------------------------------------------------------------
PipeInit ==
    /\ pipeOf = [o \in PipeOwners |-> [open |-> FALSE, size |-> 0, opened |-> 0, born |-> 0]]
    /\ pipeUser = [o \in PipeOwners |-> [u \in PipeUsers |-> PipeNoUser]]
    /\ pipeGLock = PipeFree /\ pipeLock = [o \in PipeOwners |-> PipeFree]
    /\ pipeHw = [o \in PipeOwners |-> "closed"]
    /\ pipeCame = [o \in PipeOwners |-> 0] /\ pipeRead = [o \in PipeOwners |-> 0]
    /\ pipeAt = [t \in PipeTasks |-> PipeAway]
    /\ pipeTaken = [o \in PipeOwners |-> [u \in PipeUsers |-> 0]]
    /\ pipeDropped = [o \in PipeOwners |-> [u \in PipeUsers |-> {}]]
    /\ pipeLeaked = {} /\ pipeGone = FALSE

PipeNext ==
    \/ \E o \in PipeOwners :
          \/ PipeOpen(o) \/ PipeNotOpened(o) \/ PipeClose(o) \/ PipeClosePipe(o) \/ PipeDelete(o)
          \/ PipeEvent(o) \/ PipeComes(o)
          \/ \E size \in PipeSizes : PipeOpened(o, size) \/ PipeUpdateReadSize(o, size)
          \/ \E u \in PipeUsers : PipeFindsToAttach(u, o) \/ PipeFindsToDetach(u, o) \/ PipeReads(u, o)
    \/ \E u \in PipeUsers :
          \/ PipeAttach(u) \/ PipeDetach(u)
          \/ \E n \in PipeSizes : PipeCopies(u, n)
    \/ PipeEventLocks \/ PipeFetch \/ PipeShare
---------------------------------------------------------------------------
PipeSpec == PipeInit /\ [][PipeNext]_pipeVars
---------------------------------------------------------------------------
(* Every task that is attached has, in order and once, each unit that was  *)
(* read from the hardware since it attached and that it has not read, but  *)
(* those for which its own buffer had no room; whatever the others do.     *)
PipeSorted(ring) == \A i, j \in 1 .. Len(ring) : i < j => ring[i] < ring[j]
PipeUnread(o, u) == (pipeTaken[o][u] + 1 .. pipeRead[o]) \ pipeDropped[o][u]
PipeStreams ==
    pipeGone \/ \A o \in PipeOwners : \A u \in PipeOnes(o) :
        PipeSorted(pipeUser[o][u].ring) /\ ToSet(pipeUser[o][u].ring) = PipeUnread(o, u)

(* The hardware of a pipe runs exactly while some task is attached, and is *)
(* closed with the pipe, unless a failing call to open has left it open.   *)
PipeRuns ==
    pipeGone \/ \A o \in PipeOwners :
        /\ pipeHw[o] = "running" <=> PipeOnes(o) # {}
        /\ o \notin pipeLeaked /\ pipeAt[o].do = "idle" => (pipeHw[o] = "closed" <=> ~pipeOf[o].open)

(* A pipe serves all that are attached to it: PipeStreams and PipeRuns.    *)
PipeServes == PipeStreams /\ PipeRuns
=============================================================================
