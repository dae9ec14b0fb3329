------------------------------- MODULE ZeroCopy -------------------------------
(***************************************************************************)
(* Messages to another core without a copy,                                *)
(* drivers/zerocpy_ipc/v1/zerocpy_ipc.c.  A send puts the pointer of a     *)
(* buffer into the ring of its id, the id into the ring of the channel,    *)
(* and raises an interrupt.  The interrupt of the other core takes the     *)
(* ids and calls the handler of each or resumes the task that receives it. *)
(* A table that both cores share says which buffers are in use.            *)
(*                                                                         *)
(* The sends of a core exclude each other by a critical section, and so do *)
(* a test and a suspend of a receiving task and its interrupt; nothing     *)
(* excludes the two cores.  The memory keeps the order of the writes.      *)
(***************************************************************************)
EXTENDS Integers, Sequences, FiniteSets, FiniteSetsExt

CONSTANTS
    ZcpyIds,       \* ids of messages, positive integers
    ZcpySize,      \* [ids, and 0 for the channel -> rbuff_size, a power of two]
    ZcpyHandled,   \* ids that are received by a handler, the others by a task
    ZcpyBufs,      \* pointers to buffers
    ZcpyCores,     \* cores that use the table
    ZcpyBits,      \* its entries: 1 to BUFF_IN_USE_SIZE
    ZcpyNull

ASSUME ZcpyAssumption ==
    /\ ZcpyIds \subseteq Nat \ {0} /\ ZcpyHandled \subseteq ZcpyIds
    /\ ZcpySize \in [ZcpyIds \cup {0} -> Nat \ {0}]
    /\ ZcpyNull \notin ZcpyBufs
    /\ IsFiniteSet(ZcpyBits) /\ ZcpyBits # {} /\ ZcpyBits = 1 .. Cardinality(ZcpyBits)

VARIABLES
    zcpyRing,      \* [0 and ids -> rbuff: wb, rd and elems]
    zcpyReg,       \* the interrupt of zerocpy_ipc_reg_set
    zcpySend,      \* the send under way
    zcpyIsr,       \* c2c_zcpy_isr
    zcpyHandler,   \* ids with a handler
    zcpyTasks,     \* ids with a task
    zcpyTask,      \* [ids -> the task that receives them]
    zcpyOwed,      \* [0 and ids -> what has been put into the ring and not taken]
    zcpyHalf,      \* ids with a send that failed after it had put its buffer
    zcpyBitset, zcpyBitmap,   \* buff_in_use_bitset, buff_in_use_bitmap
    zcpyCall,      \* [core -> its call of the table]
    zcpyMarked     \* buffers that a call has marked as in use

zcpyPutVars == <<zcpySend, zcpyHalf>>
zcpyGetVars == <<zcpyIsr, zcpyHandler, zcpyTasks, zcpyTask>>
zcpyRingVars == <<zcpyRing, zcpyOwed, zcpyReg, zcpyPutVars, zcpyGetVars>>
zcpyTableVars == <<zcpyBitset, zcpyBitmap, zcpyCall, zcpyMarked>>
zcpyVars == <<zcpyRingVars, zcpyTableVars>>
---------------------------------------------------------------------------
(* A ring: indexes run over twice its size, which tells full from empty.   *)

CbFull(r) == zcpyRing[r].wb = (zcpyRing[r].rd + ZcpySize[r]) % (2 * ZcpySize[r])
CbEmpty(r) == zcpyRing[r].wb = zcpyRing[r].rd

\* Mutant: indexes run over its size.
CbIncrOnce(p, r) == (p + 1) % ZcpySize[r]

CbIncr(p, r) == (p + 1) % (2 * ZcpySize[r])

\* cb_write: the element, then the index
CbPut(r, elem) ==
    /\ zcpyRing' = [zcpyRing EXCEPT ![r].elems[zcpyRing[r].wb % ZcpySize[r]] = elem]
    /\ UNCHANGED zcpyOwed
CbPutDone(r, elem) ==
    /\ zcpyRing' = [zcpyRing EXCEPT ![r].wb = CbIncr(@, r)]
    /\ zcpyOwed' = [zcpyOwed EXCEPT ![r] = Append(@, elem)]

\* cb_read
CbTop(r) == zcpyRing[r].elems[zcpyRing[r].rd % ZcpySize[r]]
CbTaken(r) ==
    /\ zcpyRing' = [zcpyRing EXCEPT ![r].rd = CbIncr(@, r)]
    /\ zcpyOwed' = [zcpyOwed EXCEPT ![r] = IF @ = <<>> THEN @ ELSE Tail(@)]
---------------------------------------------------------------------------
(* zerocpy_ipc_send, in a critical section                                 *)

ZcpySender(step, next) == zcpySend.step = step /\ zcpySend' = [zcpySend EXCEPT !.step = next]
ZcpyNoSend == [step |-> "idle", id |-> 0, buf |-> ZcpyNull]
ZcpyFails == zcpySend' = ZcpyNoSend /\ UNCHANGED <<zcpyRing, zcpyOwed>>

\* A handler is registered before anything is sent to it.
ZcpySendBuffer(id, buf) ==
    /\ zcpySend = ZcpyNoSend
    /\ id \in ZcpyHandled => id \in zcpyHandler
    /\ ~CbFull(id)
    /\ CbPut(id, buf)
    /\ zcpySend' = [step |-> "put buffer", id |-> id, buf |-> buf]
    /\ UNCHANGED <<zcpyReg, zcpyHalf, zcpyGetVars>>
ZcpyBufferPut ==
    /\ ZcpySender("put buffer", "id")
    /\ CbPutDone(zcpySend.id, zcpySend.buf)
    /\ UNCHANGED <<zcpyReg, zcpyHalf, zcpyGetVars>>

\* The buffer stays in its ring when there is no room for the id.
ZcpySendId ==
    /\ zcpySend.step = "id"
    /\ \/ CbFull(0) /\ ZcpyFails /\ zcpyHalf' = zcpyHalf \cup {zcpySend.id}
       \/ /\ ~CbFull(0) /\ ZcpySender("id", "put id")
          /\ CbPut(0, zcpySend.id) /\ UNCHANGED zcpyHalf
    /\ UNCHANGED <<zcpyReg, zcpyGetVars>>
ZcpyIdPut ==
    /\ ZcpySender("put id", "raise")
    /\ CbPutDone(0, zcpySend.id)
    /\ UNCHANGED <<zcpyReg, zcpyHalf, zcpyGetVars>>
ZcpyRaise ==
    /\ zcpySend.step = "raise" /\ zcpySend' = ZcpyNoSend
    /\ zcpyReg' = TRUE
    /\ UNCHANGED <<zcpyRing, zcpyOwed, zcpyHalf, zcpyGetVars>>
---------------------------------------------------------------------------
(* c2c_zcpy_isr                                                            *)

ZcpyIsrEnters ==
    /\ zcpyIsr.step = "idle" /\ zcpyReg
    /\ zcpyReg' = FALSE
    /\ zcpyIsr' = [zcpyIsr EXCEPT !.step = "read"]
    /\ UNCHANGED <<zcpyRing, zcpyOwed, zcpyPutVars, zcpyHandler, zcpyTasks, zcpyTask>>

ZcpyIsrReads ==
    /\ zcpyIsr.step = "read" /\ ~CbEmpty(0)
    /\ zcpyIsr' = [zcpyIsr EXCEPT !.step = "take", !.id = CbTop(0)]
    /\ UNCHANGED <<zcpyRing, zcpyOwed, zcpyReg, zcpyPutVars, zcpyHandler, zcpyTasks, zcpyTask>>

\* A handler takes one buffer; the task of an id without one is resumed.
ZcpyIsrTakes ==
    LET id == zcpyIsr.id IN
    /\ zcpyIsr.step = "take"
    /\ CbTaken(0)
    /\ zcpyIsr' = [zcpyIsr EXCEPT !.step = IF id \in zcpyHandler THEN "get" ELSE "read"]
    /\ zcpyTask' = IF id \in zcpyTasks \ zcpyHandler /\ zcpyTask[id].step = "asleep"
                   THEN [zcpyTask EXCEPT ![id].step = "get"] ELSE zcpyTask
    /\ UNCHANGED <<zcpyReg, zcpyPutVars, zcpyHandler, zcpyTasks>>

ZcpyIsrLeaves ==
    /\ zcpyIsr.step = "read" /\ CbEmpty(0)
    /\ zcpyIsr' = [zcpyIsr EXCEPT !.step = "idle"]
    /\ UNCHANGED <<zcpyRing, zcpyOwed, zcpyReg, zcpyPutVars, zcpyHandler, zcpyTasks, zcpyTask>>

\* zerocpy_ipc_get_buff_ptr in a handler
ZcpyHandlerGets ==
    LET id == zcpyIsr.id IN
    /\ \/ /\ zcpyIsr.step = "get"
          /\ zcpyIsr' = IF CbEmpty(id) THEN [zcpyIsr EXCEPT !.step = "read"]
                        ELSE [zcpyIsr EXCEPT !.step = "got", !.buf = CbTop(id)]
          /\ UNCHANGED <<zcpyRing, zcpyOwed>>
       \/ /\ zcpyIsr.step = "got"
          /\ zcpyIsr' = [zcpyIsr EXCEPT !.step = "read", !.buf = ZcpyNull]
          /\ CbTaken(id)
    /\ UNCHANGED <<zcpyReg, zcpyPutVars, zcpyHandler, zcpyTasks, zcpyTask>>
---------------------------------------------------------------------------
(* The receiving tasks: they do not run while the interrupt does.          *)

\* zerocpy_ipc_register
ZcpyRegister(id) ==
    /\ zcpyIsr.step = "idle" /\ id \in ZcpyHandled \ zcpyHandler
    /\ zcpyHandler' = zcpyHandler \cup {id}
    /\ UNCHANGED <<zcpyRing, zcpyOwed, zcpyReg, zcpyPutVars, zcpyIsr, zcpyTasks, zcpyTask>>

\* Mutant: the task is suspended without a look into the ring.
ZcpyReceiveUntested(id) ==
    /\ zcpyIsr.step = "idle" /\ id \notin ZcpyHandled /\ zcpyTask[id].step = "run"
    /\ zcpyTasks' = zcpyTasks \cup {id}
    /\ zcpyTask' = [zcpyTask EXCEPT ![id].step = "asleep"]
    /\ UNCHANGED <<zcpyRing, zcpyOwed, zcpyReg, zcpyPutVars, zcpyIsr, zcpyHandler>>

\* zerocpy_ipc_receive: the interrupt comes before the test or after the suspend.
ZcpyReceive(id) ==
    /\ zcpyIsr.step = "idle" /\ id \notin ZcpyHandled /\ zcpyTask[id].step = "run"
    /\ zcpyTasks' = zcpyTasks \cup {id}
    /\ zcpyTask' = [zcpyTask EXCEPT ![id].step = IF CbEmpty(id) THEN "asleep" ELSE "get"]
    /\ UNCHANGED <<zcpyRing, zcpyOwed, zcpyReg, zcpyPutVars, zcpyIsr, zcpyHandler>>

\* zerocpy_ipc_get_buff_ptr in a task: nothing when it was resumed for a buffer
\* that it had taken before.
ZcpyTaskGets(id) ==
    /\ zcpyIsr.step = "idle"
    /\ \/ /\ zcpyTask[id].step = "get"
          /\ zcpyTask' = [zcpyTask EXCEPT ![id] =
                IF CbEmpty(id) THEN [step |-> "run", buf |-> ZcpyNull]
                ELSE [step |-> "got", buf |-> CbTop(id)]]
          /\ UNCHANGED <<zcpyRing, zcpyOwed>>
       \/ /\ zcpyTask[id].step = "got"
          /\ zcpyTask' = [zcpyTask EXCEPT ![id] = [step |-> "run", buf |-> ZcpyNull]]
          /\ CbTaken(id)
    /\ UNCHANGED <<zcpyReg, zcpyPutVars, zcpyIsr, zcpyHandler, zcpyTasks>>
---------------------------------------------------------------------------
(* The table of buffers in use                                             *)

ZcpyNoCall == [step |-> "idle", buf |-> ZcpyNull, bit |-> 0, may |-> {}, answer |-> FALSE]

\* Whether a buffer is in use, or both while a call changes that.
ZcpyInUseNow(buf) ==
    IF \E a \in ZcpyCores : zcpyCall[a].buf = buf /\ zcpyCall[a].step \in {"fill", "zero", "clear"}
    THEN BOOLEAN ELSE IF buf \in zcpyMarked THEN {TRUE} ELSE {FALSE}

\* Core a goes on with its call; whoever asks for a buffer has seen the table change.
ZcpyGoesOn(a, call) ==
    zcpyCall' = [c \in ZcpyCores |->
        LET now == IF c = a THEN call ELSE zcpyCall[c] IN
        IF now.step \in {"look", "bit"} THEN [now EXCEPT !.may = @ \cup ZcpyInUseNow(now.buf)]
        ELSE now]
ZcpyAt(a, step) == zcpyCall[a].step = step

\* buff_in_use: a unique bit, then the pointer.  A buffer is marked once at a time.
ZcpyMark(a, buf) ==
    /\ ZcpyAt(a, "idle") /\ ZcpyInUseNow(buf) = {FALSE}
    /\ \E bit \in ZcpyBits \ zcpyBitset :
          /\ zcpyBitset' = zcpyBitset \cup {bit}
          /\ ZcpyGoesOn(a, [ZcpyNoCall EXCEPT !.step = "fill", !.buf = buf, !.bit = bit])
    /\ UNCHANGED <<zcpyBitmap, zcpyMarked>>
ZcpyFill(a) ==
    LET call == zcpyCall[a] IN
    /\ ZcpyAt(a, "fill")
    /\ zcpyBitmap' = [zcpyBitmap EXCEPT ![call.bit] = call.buf]
    /\ zcpyMarked' = zcpyMarked \cup {call.buf}
    /\ ZcpyGoesOn(a, ZcpyNoCall)
    /\ UNCHANGED zcpyBitset

\* buff_in_use with nothing to use: the entry whose pointer it is.  Nobody else
\* marks or clears the buffer meanwhile, so that the search is one step.
ZcpyUnmark(a, buf) ==
    /\ ZcpyAt(a, "idle") /\ ZcpyInUseNow(buf) = {TRUE}
    /\ LET found == {bit \in ZcpyBits : zcpyBitmap[bit] = buf} IN
       IF found = {} THEN UNCHANGED <<zcpyCall, zcpyMarked>>
       ELSE /\ zcpyMarked' = zcpyMarked \ {buf}
            /\ ZcpyGoesOn(a, [ZcpyNoCall EXCEPT !.step = "zero", !.buf = buf, !.bit = Min(found)])
    /\ UNCHANGED <<zcpyBitset, zcpyBitmap>>

\* Mutant: the entry is given back before its pointer is cleared.
ZcpyClearBitFirst(a) ==
    LET call == zcpyCall[a] IN
    \/ /\ ZcpyAt(a, "zero") /\ zcpyBitset' = zcpyBitset \ {call.bit}
       /\ ZcpyGoesOn(a, [call EXCEPT !.step = "clear"])
       /\ UNCHANGED <<zcpyBitmap, zcpyMarked>>
    \/ /\ ZcpyAt(a, "clear") /\ zcpyBitmap' = [zcpyBitmap EXCEPT ![call.bit] = ZcpyNull]
       /\ ZcpyGoesOn(a, ZcpyNoCall)
       /\ UNCHANGED <<zcpyBitset, zcpyMarked>>

ZcpyClear(a) ==
    LET call == zcpyCall[a] IN
    \/ /\ ZcpyAt(a, "zero") /\ zcpyBitmap' = [zcpyBitmap EXCEPT ![call.bit] = ZcpyNull]
       /\ ZcpyGoesOn(a, [call EXCEPT !.step = "clear"])
       /\ UNCHANGED <<zcpyBitset, zcpyMarked>>
    \/ /\ ZcpyAt(a, "clear") /\ zcpyBitset' = zcpyBitset \ {call.bit}
       /\ ZcpyGoesOn(a, ZcpyNoCall)
       /\ UNCHANGED <<zcpyBitmap, zcpyMarked>>

\* is_buff_in_use: for each entry the pointer, then the bit.
ZcpyAsk(a, buf) ==
    /\ ZcpyAt(a, "idle")
    /\ ZcpyGoesOn(a, [ZcpyNoCall EXCEPT !.step = "look", !.buf = buf, !.bit = Min(ZcpyBits)])
    /\ UNCHANGED <<zcpyBitset, zcpyBitmap, zcpyMarked>>
ZcpyLook(a) ==
    LET call == zcpyCall[a]
        next == IF call.bit = Max(ZcpyBits) THEN [call EXCEPT !.step = "answered"]
                ELSE [call EXCEPT !.step = "look", !.bit = @ + 1] IN
    /\ \/ ZcpyAt(a, "look") /\ ZcpyGoesOn(a, IF zcpyBitmap[call.bit] = call.buf
                                              THEN [call EXCEPT !.step = "bit"] ELSE next)
       \/ ZcpyAt(a, "bit") /\ ZcpyGoesOn(a, IF call.bit \in zcpyBitset
                                             THEN [call EXCEPT !.step = "answered", !.answer = TRUE]
                                             ELSE next)
       \/ ZcpyAt(a, "answered") /\ ZcpyGoesOn(a, ZcpyNoCall)
    /\ UNCHANGED <<zcpyBitset, zcpyBitmap, zcpyMarked>>
---------------------------------------------------------------------------
ZcpyInit ==
    /\ zcpyRing = [r \in ZcpyIds \cup {0} |-> [wb |-> 0, rd |-> 0,
                                              elems |-> [n \in 0..(ZcpySize[r] - 1) |-> 0]]]
    /\ zcpyOwed = [r \in ZcpyIds \cup {0} |-> <<>>]
    /\ zcpyReg = FALSE /\ zcpySend = ZcpyNoSend /\ zcpyHalf = {}
    /\ zcpyIsr = [step |-> "idle", id |-> 0, buf |-> ZcpyNull]
    /\ zcpyHandler = {} /\ zcpyTasks = {}
    /\ zcpyTask = [id \in ZcpyIds |-> [step |-> "run", buf |-> ZcpyNull]]
    \* buff_in_use_initial
    /\ zcpyBitset = {} /\ zcpyBitmap = [bit \in ZcpyBits |-> ZcpyNull]
    /\ zcpyCall = [a \in ZcpyCores |-> ZcpyNoCall] /\ zcpyMarked = {}

ZcpyRingNext ==
    \/ ZcpyBufferPut \/ ZcpySendId \/ ZcpyIdPut \/ ZcpyRaise
    \/ ZcpyIsrEnters \/ ZcpyIsrReads \/ ZcpyIsrTakes \/ ZcpyIsrLeaves \/ ZcpyHandlerGets
    \/ \E id \in ZcpyIds : \/ ZcpyRegister(id) \/ ZcpyReceive(id) \/ ZcpyTaskGets(id)
                          \/ \E buf \in ZcpyBufs : ZcpySendBuffer(id, buf)
ZcpyTableNext ==
    \E a \in ZcpyCores : \/ ZcpyFill(a) \/ ZcpyClear(a) \/ ZcpyLook(a)
                         \/ \E buf \in ZcpyBufs : \/ ZcpyMark(a, buf) \/ ZcpyUnmark(a, buf)
                                                  \/ ZcpyAsk(a, buf)
ZcpyNext ==
    \/ ZcpyRingNext /\ UNCHANGED zcpyTableVars
    \/ ZcpyTableNext /\ UNCHANGED zcpyRingVars
ZcpySpec == ZcpyInit /\ [][ZcpyNext]_zcpyVars
---------------------------------------------------------------------------
(* Correctness *)

\* What is in the rings, and in the hands of who takes it, is what was sent and not
\* taken, in its order, also when a ring is full and wherever the cores are in
\* their reads and writes of it.
ZcpyInOrder ==
    /\ \A r \in ZcpyIds \cup {0} : LET ring == zcpyRing[r] IN
          zcpyOwed[r] = [n \in 1..((ring.wb - ring.rd) % (2 * ZcpySize[r]))
                             |-> ring.elems[(ring.rd + n - 1) % ZcpySize[r]]]
    /\ zcpyIsr.step = "take" => zcpyIsr.id = Head(zcpyOwed[0])
    /\ zcpyIsr.step = "got" => zcpyIsr.buf = Head(zcpyOwed[zcpyIsr.id])
    /\ \A id \in ZcpyIds : zcpyTask[id].step = "got" => zcpyTask[id].buf = Head(zcpyOwed[id])

\* Messages of id that are announced and not dispatched.
ZcpyAnnounced(id) ==
    Cardinality({n \in DOMAIN zcpyOwed[0] : zcpyOwed[0][n] = id})
    + (IF zcpySend.id = id /\ zcpySend.step \in {"id", "put id"} THEN 1 ELSE 0)
    + (IF zcpyIsr.id = id /\ zcpyIsr.step \in {"get", "got"} THEN 1 ELSE 0)

\* Nobody misses a message: while ids wait an interrupt is raised, or will be, or
\* is being served; and unless a send of the id has failed half way, a buffer
\* that waits for a task that sleeps, or for a handler, has its id on the way.
ZcpyWoken ==
    /\ zcpyOwed[0] # <<>> => zcpyReg \/ zcpyIsr.step # "idle" \/ zcpySend.step = "raise"
    /\ \A id \in ZcpyIds \ zcpyHalf :
          /\ zcpyTask[id].step = "asleep" /\ zcpyOwed[id] # <<>> => ZcpyAnnounced(id) > 0
          /\ id \in zcpyHandler => Len(zcpyOwed[id]) <= ZcpyAnnounced(id)

\* The table holds each buffer in use once and nothing else, whatever the two cores
\* do at the same time; and is_buff_in_use answers what was true at some moment of
\* the call.
ZcpyInUse ==
    /\ \A a \in ZcpyCores : ZcpyAt(a, "answered") => zcpyCall[a].answer \in zcpyCall[a].may
    /\ \A buf \in ZcpyBufs : ZcpyInUseNow(buf) # BOOLEAN =>
          Cardinality({bit \in zcpyBitset : zcpyBitmap[bit] = buf})
            = (IF buf \in zcpyMarked THEN 1 ELSE 0)
    /\ (\A a \in ZcpyCores : zcpyCall[a].step \notin {"fill", "zero", "clear"}) =>
          Cardinality(zcpyBitset) = Cardinality(zcpyMarked)

\* Buffers change hands as they should: ZcpyInOrder, ZcpyWoken and ZcpyInUse.
ZcpyServes == ZcpyInOrder /\ ZcpyWoken /\ ZcpyInUse
=============================================================================
