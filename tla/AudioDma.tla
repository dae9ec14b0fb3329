----------------------------- MODULE AudioDma -----------------------------
(***************************************************************************)
(* Audio messages with data in shared memory: drivers/audio/framework/     *)
(* audio_ipi_dma.c, audio_messenger_ipi.c and the message queue of a task  *)
(* in audio_task_utility.c, for one task scene.                            *)
(*                                                                         *)
(* A message carries the index and the size of its data in a region that   *)
(* both processors keep an index of.  "up" is SCP_TO_AP, where tasks write *)
(* and the AP reads; "down" is AP_TO_SCP, where the AP writes and the task *)
(* of the scene reads.  The AP runs the same region code on its side.      *)
(***************************************************************************)
EXTENDS Integers, Sequences

CONSTANTS
    DmaTasks,     \* tasks that send up
    DmaSize,      \* region->size
    DmaAlign,     \* ADSP_CACHE_ALIGN_BYTES
    DmaFrame,     \* MAX_SIZE_OF_ONE_FRAME
    DmaCounts,    \* data sizes of messages
    DmaQueueLen,  \* max_queue_size of the task
    DmaMessages,  \* bound: messages written, in both directions
    DmaNobody     \* nobody has the lock

\* The code refuses a message without data (audio_ipi_dma.c:641).
ASSUME DmaAssumption ==
    /\ DmaAlign \in Nat \ {0} /\ DmaSize \in Nat \ {0} /\ DmaSize % DmaAlign = 0
    /\ DmaFrame \in 1..DmaAlign
    /\ DmaCounts \subseteq Nat \ {0} /\ DmaQueueLen \in Nat \ {0} /\ DmaMessages \in Nat
    /\ DmaNobody \notin DmaTasks

VARIABLES
    dmaRegion,    \* [Ways -> [read, write, mem]]: read_idx, write_idx, the data
    dmaLock,      \* g_task_dma_lock[scene]
    dmaAt,        \* where the send of each task is
    dmaMsg,       \* the message each task sends
    dmaMailbox,   \* [Ways -> messages in the mailbox, at most one]
    dmaArray,     \* msg_array, an entry is free when its magic is 0
    dmaQueueIdx,  \* queue_idx
    dmaQueue,     \* msg_idx_queue
    dmaExists,    \* the scene has a task in the factory
    dmaOutcome,   \* the last data read: what was expected, what was read
    dmaWritten    \* messages written so far

dmaVars == <<dmaRegion, dmaLock, dmaAt, dmaMsg, dmaMailbox, dmaArray, dmaQueueIdx,
             dmaQueue, dmaExists, dmaOutcome, dmaWritten>>

Ways == {"up", "down"}
---------------------------------------------------------------------------
(* The region, audio_region_* *)

\* DO_BYTE_ALIGN
DmaAligned(n) == ((n + DmaAlign - 1) \div DmaAlign) * DmaAlign
DmaDataCount(R) == IF R.write >= R.read THEN R.write - R.read
                   ELSE DmaSize - (R.read - R.write)
DmaFreeSpace(R) == LET free == DmaSize - DmaDataCount(R)
                   IN  IF free >= DmaFrame THEN free - DmaFrame ELSE 0

\* Where an index is after n bytes, once at the end and once past it.
DmaAdvance(idx, n) ==
    LET toEnd == DmaSize - idx
    IN  IF n < toEnd THEN idx + n ELSE n - toEnd

\* The one or two transfers of the data of message m, n bytes; the bytes between
\* n and the aligned size keep their old contents.
DmaWritten(R, m, n) ==
    [R EXCEPT !.mem = [i \in DOMAIN R.mem |->
                           IF (i - R.write) % DmaSize < n THEN m ELSE R.mem[i]],
              !.write = DmaAdvance(R.write, DmaAligned(n))]

DmaBytes(R, idx, n) == {R.mem[(idx + k) % DmaSize] : k \in 0..(n - 1)}

\* audio_ipi_dma_read_region: the index of the message counts.
DmaReadFrom(R, msg) ==
    LET at == [R EXCEPT !.read = msg.idx]
    IN  IF DmaAligned(msg.size) > DmaDataCount(at) THEN [region |-> at, data |-> {}]
        ELSE [region |-> [at EXCEPT !.read = DmaAdvance(@, DmaAligned(msg.size))],
              data |-> DmaBytes(at, msg.idx, msg.size)]

DmaRead(way, msg) ==
    /\ dmaRegion' = [dmaRegion EXCEPT ![way] = DmaReadFrom(@, msg).region]
    /\ dmaOutcome' = [expected |-> {msg.id}, data |-> DmaReadFrom(dmaRegion[way], msg).data]
---------------------------------------------------------------------------
(* audio_send_ipi_msg of a task, with data *)

DmaGo(t, from, to) == dmaAt[t] = from /\ dmaAt' = [dmaAt EXCEPT ![t] = to]
DmaDownRest == UNCHANGED <<dmaArray, dmaQueueIdx, dmaQueue, dmaExists>>

\* Mutant: the lock is not taken.
DmaLockFree(t) ==
    /\ DmaGo(t, "out", "locked")
    /\ \E n \in DmaCounts : dmaMsg' = [dmaMsg EXCEPT ![t] = [id |-> 0, idx |-> 0, size |-> n]]
    /\ UNCHANGED <<dmaRegion, dmaLock, dmaMailbox, dmaOutcome, dmaWritten>> /\ DmaDownRest

DmaLock(t) ==
    /\ DmaGo(t, "out", "locked")
    /\ dmaLock = DmaNobody
    /\ dmaLock' = t
    /\ \E n \in DmaCounts : dmaMsg' = [dmaMsg EXCEPT ![t] = [id |-> 0, idx |-> 0, size |-> n]]
    /\ UNCHANGED <<dmaRegion, dmaMailbox, dmaOutcome, dmaWritten>> /\ DmaDownRest

\* "keep the data index before write"
DmaKeepIndex(t) ==
    /\ DmaGo(t, "locked", "write")
    /\ dmaMsg' = [dmaMsg EXCEPT ![t].idx = dmaRegion["up"].write]
    /\ UNCHANGED <<dmaRegion, dmaLock, dmaMailbox, dmaOutcome, dmaWritten>> /\ DmaDownRest

\* audio_ipi_dma_write_region; without room the message is not sent.
DmaWriteRegion(t) ==
    LET n == dmaMsg[t].size IN
    /\ IF DmaFreeSpace(dmaRegion["up"]) < DmaAligned(n)
       THEN DmaGo(t, "write", "done") /\ UNCHANGED <<dmaRegion, dmaMsg, dmaWritten>>
       ELSE /\ DmaGo(t, "write", "send")
            /\ dmaWritten < DmaMessages
            /\ dmaWritten' = dmaWritten + 1
            /\ dmaRegion' = [dmaRegion EXCEPT !["up"] = DmaWritten(@, dmaWritten', n)]
            /\ dmaMsg' = [dmaMsg EXCEPT ![t].id = dmaWritten']
    /\ UNCHANGED <<dmaLock, dmaMailbox, dmaOutcome>> /\ DmaDownRest

\* audio_send_ipi_msg_to_kernel: it tries until the mailbox is free, or gives up
\* and leaves its data in the region.
DmaSend(t) ==
    /\ DmaGo(t, "send", "done")
    /\ \/ /\ dmaMailbox["up"] = <<>>
          /\ dmaMailbox' = [dmaMailbox EXCEPT !["up"] = <<dmaMsg[t]>>]
       \/ dmaMailbox["up"] # <<>> /\ UNCHANGED dmaMailbox
    /\ UNCHANGED <<dmaRegion, dmaLock, dmaMsg, dmaOutcome, dmaWritten>> /\ DmaDownRest

DmaUnlock(t) ==
    /\ DmaGo(t, "done", "out")
    /\ dmaLock' = DmaNobody
    /\ UNCHANGED <<dmaRegion, dmaMsg, dmaMailbox, dmaOutcome, dmaWritten>> /\ DmaDownRest

\* The AP takes the message and reads its data.
DmaApReceives ==
    /\ dmaMailbox["up"] # <<>>
    /\ dmaMailbox' = [dmaMailbox EXCEPT !["up"] = <<>>]
    /\ DmaRead("up", dmaMailbox["up"][1])
    /\ UNCHANGED <<dmaLock, dmaAt, dmaMsg, dmaWritten>> /\ DmaDownRest
---------------------------------------------------------------------------
(* Messages from the AP *)

DmaUpRest == UNCHANGED <<dmaLock, dmaAt, dmaMsg>>

DmaApSends(n) ==
    LET R == dmaRegion["down"] IN
    /\ dmaWritten < DmaMessages
    /\ dmaMailbox["down"] = <<>>
    /\ DmaFreeSpace(R) >= DmaAligned(n)
    /\ dmaWritten' = dmaWritten + 1
    /\ dmaRegion' = [dmaRegion EXCEPT !["down"] = DmaWritten(@, dmaWritten', n)]
    /\ dmaMailbox' = [dmaMailbox EXCEPT !["down"] =
                         <<[id |-> dmaWritten', idx |-> R.write, size |-> n]>>]
    /\ UNCHANGED dmaOutcome /\ DmaUpRest /\ DmaDownRest

\* audio_ipi_msg_dispatcher in the interrupt, and send_task_message_fromisr by the
\* task's recv_message; without a task the message is dropped with its data.  An
\* entry of the array that is in use is an assertion, after which nothing runs.
DmaDispatch ==
    /\ dmaMailbox["down"] # <<>>
    /\ dmaMailbox' = [dmaMailbox EXCEPT !["down"] = <<>>]
    /\ IF ~dmaExists THEN UNCHANGED <<dmaArray, dmaQueue, dmaQueueIdx>>
       ELSE /\ dmaArray[dmaQueueIdx] = <<>>
            /\ dmaArray' = [dmaArray EXCEPT ![dmaQueueIdx] = dmaMailbox["down"]]
            /\ dmaQueue' = Append(dmaQueue, dmaQueueIdx)
            /\ dmaQueueIdx' = (dmaQueueIdx + 1) % DmaQueueLen
    /\ UNCHANGED <<dmaRegion, dmaOutcome, dmaWritten, dmaExists>> /\ DmaUpRest

\* The task takes the oldest message and reads its data with
\* audio_get_dma_from_msg, or lets them lie; then its entry is free.
DmaTaskReceives ==
    /\ dmaQueue # <<>>
    /\ dmaQueue' = Tail(dmaQueue)
    /\ dmaArray' = [dmaArray EXCEPT ![Head(dmaQueue)] = <<>>]
    /\ \/ DmaRead("down", dmaArray[Head(dmaQueue)][1])
       \/ UNCHANGED <<dmaRegion, dmaOutcome>>
    /\ UNCHANGED <<dmaMailbox, dmaQueueIdx, dmaExists, dmaWritten>> /\ DmaUpRest

\* audio_ipi_dma_drop_region: the data of a message that is not wanted.
DmaDrop ==
    /\ dmaQueue # <<>>
    /\ dmaQueue' = Tail(dmaQueue)
    /\ dmaArray' = [dmaArray EXCEPT ![Head(dmaQueue)] = <<>>]
    /\ dmaRegion' = [dmaRegion EXCEPT !["down"] =
                        DmaReadFrom(@, dmaArray[Head(dmaQueue)][1]).region]
    /\ UNCHANGED <<dmaMailbox, dmaQueueIdx, dmaExists, dmaOutcome, dmaWritten>> /\ DmaUpRest

\* create_audio_task, destroy_audio_task
DmaCreateTask ==
    /\ ~dmaExists /\ dmaExists' = TRUE
    /\ dmaArray' = [i \in DOMAIN dmaArray |-> <<>>] /\ dmaQueue' = <<>> /\ dmaQueueIdx' = 0
    /\ UNCHANGED <<dmaRegion, dmaMailbox, dmaOutcome, dmaWritten>> /\ DmaUpRest
DmaDestroyTask ==
    /\ dmaExists /\ dmaExists' = FALSE
    /\ UNCHANGED <<dmaRegion, dmaMailbox, dmaArray, dmaQueueIdx, dmaQueue, dmaOutcome,
                   dmaWritten>> /\ DmaUpRest
---------------------------------------------------------------------------
DmaInit ==
    /\ dmaRegion = [w \in Ways |-> [read |-> 0, write |-> 0,
                                    mem |-> [i \in 0..(DmaSize - 1) |-> 0]]]
    /\ dmaLock = DmaNobody
    /\ dmaAt = [t \in DmaTasks |-> "out"]
    /\ dmaMsg = [t \in DmaTasks |-> [id |-> 0, idx |-> 0, size |-> 0]]
    /\ dmaMailbox = [w \in Ways |-> <<>>]
    /\ dmaArray = [i \in 0..(DmaQueueLen - 1) |-> <<>>]
    /\ dmaQueueIdx = 0 /\ dmaQueue = <<>>
    /\ dmaExists = FALSE
    /\ dmaOutcome = [expected |-> {}, data |-> {}]
    /\ dmaWritten = 0

DmaUp == \/ \E t \in DmaTasks : \/ DmaLock(t) \/ DmaKeepIndex(t) \/ DmaWriteRegion(t)
                                \/ DmaSend(t) \/ DmaUnlock(t)
         \/ DmaApReceives
DmaDown == \/ \E n \in DmaCounts : DmaApSends(n)
           \/ DmaDispatch \/ DmaTaskReceives \/ DmaDrop \/ DmaCreateTask \/ DmaDestroyTask
DmaSpec == DmaInit /\ [][DmaUp \/ DmaDown]_dmaVars
---------------------------------------------------------------------------
(* Correctness *)

\* Whoever reads the data of a message gets the data that was written for it, all
\* of it and nothing else: although messages are lost with their data in the
\* region, several tasks send, and either processor overwrites what the other has
\* told it is read.
DmaWhole == dmaOutcome.data = dmaOutcome.expected
=============================================================================
