------------------------------- MODULE RingBuf -------------------------------
(***************************************************************************)
(* The ring buffers of fixed length that the audio tasks, the pipes and    *)
(* the dumps use, and their copy of the indices of a buffer that the AP    *)
(* fills: drivers/audio/audio_utility/audio_ringbuf.c.                     *)
(*                                                                         *)
(* A pointer is its distance from pBufBase.  The variants with _dma and    *)
(* cache differ in how bytes are moved, and in one comparison.  rbQueue    *)
(* has the bytes that a reader should find.                                *)
(***************************************************************************)
EXTENDS Integers, Sequences, FiniteSets

CONSTANTS
    RbBufs,     \* buffers
    RbShared,   \*   the one whose writer is the AP
    RbUses,     \* [buffer -> what is done with it, see RbCall]
    RbLen,      \* bufLen
    RbCounts,   \* bytes of a call
    RbBytes,    \* bytes are numbers below this
    RbWild      \* what lies behind the end of a buffer

\* The AP is the only writer of its buffer, and a call is about no more bytes than a
\* buffer has.
ASSUME RbAssumption ==
    /\ RbLen \in Nat \ {0} /\ RbBytes \in Nat \ {0} /\ RbCounts \subseteq 0 .. RbLen
    /\ RbShared \in RbBufs /\ RbUses[RbShared] \subseteq {"read", "skip", "dma"}

VARIABLES
    rbRing,    \* [buffer -> pRead, pWrite, datacount]
    rbMem,     \* [buffer -> its memory]
    rbBridge,  \* ringbuf_bridge of the shared buffer
    rbAp,      \* the ring buffer that the AP has for it
    rbSent,    \* bytes the AP has written and the task has not been told of
    rbQueue,   \* [buffer -> bytes written and not read]
    rbGiven,   \* the last call has copied out what it should
    rbNext,    \* the next byte to be written
    rbStale,   \* buffers whose datacount was left behind
    rbOver     \* buffers that were overrun

rbLink == <<rbBridge, rbAp, rbSent>>
rbVars == <<rbRing, rbMem, rbLink, rbQueue, rbGiven, rbNext, rbStale, rbOver>>

RbEmpty == [read |-> 0, write |-> 0, count |-> 0]
RbWrap(p) == IF p >= RbLen THEN p - RbLen ELSE p
RbFresh(n) == [k \in 1 .. n |-> (rbNext + k - 1) % RbBytes]
RbSpace(ring) == RbLen - ring.count
RbWaiting(b) == Len(rbQueue[b]) - (IF b = RbShared THEN rbSent ELSE 0)
---------------------------------------------------------------------------
(* RingBuf_copyFromLinear: both variables of one buffer after data is in   *)

\* The writer is split at the end only if it is not behind the reader.
RbPlaces(ring, n) ==
    [k \in 1 .. n |-> IF ring.read <= ring.write THEN (ring.write + k - 1) % RbLen
                      ELSE ring.write + k - 1]
RbStored(mem, ring, data) ==
    LET at == RbPlaces(ring, Len(data)) IN
    [p \in 0 .. RbLen - 1 |->
        IF \E k \in DOMAIN data : at[k] = p
        THEN data[CHOOSE k \in DOMAIN data : at[k] = p] ELSE mem[p]]

RbFits(ring, data) == Len(data) <= RbSpace(ring)
RbPut(ring, n) == [ring EXCEPT !.write = (@ + n) % RbLen, !.count = @ + n]
RbIn(ring, data) == IF RbFits(ring, data) THEN RbPut(ring, Len(data)) ELSE ring
RbMemIn(mem, ring, data) == IF RbFits(ring, data) THEN RbStored(mem, ring, data) ELSE mem

RingBuf_copyFromLinear(b, n) ==
    /\ rbRing' = [rbRing EXCEPT ![b] = RbIn(@, RbFresh(n))]
    /\ rbMem' = [rbMem EXCEPT ![b] = RbMemIn(@, rbRing[b], RbFresh(n))]
    /\ rbQueue' = [rbQueue EXCEPT ![b] = IF RbFits(rbRing[b], RbFresh(n)) THEN @ \o RbFresh(n) ELSE @]
    /\ rbNext' = (rbNext + n) % RbBytes
    /\ rbGiven' = TRUE
    /\ UNCHANGED <<rbLink, rbStale, rbOver>>

\* Room is not looked at.
RingBuf_writeDataValue(b, n) ==
    /\ n <= RbSpace(rbRing[b])
    /\ rbMem' = [rbMem EXCEPT ![b] = RbStored(@, rbRing[b], [k \in 1 .. n |-> rbNext])]
    /\ rbRing' = [rbRing EXCEPT ![b] = RbPut(@, n)]
    /\ rbQueue' = [rbQueue EXCEPT ![b] = @ \o [k \in 1 .. n |-> rbNext]]
    /\ rbNext' = (rbNext + 1) % RbBytes
    /\ rbGiven' = TRUE
    /\ UNCHANGED <<rbLink, rbStale, rbOver>>
---------------------------------------------------------------------------
(* RingBuf_copyToLinear                                                    *)

\* n bytes in one piece, or split at the end.
RbPiece(b, n, whole) ==
    LET at(k) == rbRing[b].read + k - 1 IN
    [k \in 1 .. n |-> IF ~whole THEN rbMem[b][at(k) % RbLen]
                      ELSE IF at(k) < RbLen THEN rbMem[b][at(k)] ELSE RbWild]

RbTake(ring, n) == [ring EXCEPT !.read = (@ + n) % RbLen, !.count = @ - n]
RbOut(b, n, whole) ==
    /\ n <= rbRing[b].count /\ n <= RbWaiting(b)
    /\ rbGiven' = (RbPiece(b, n, whole) = SubSeq(rbQueue[b], 1, n))
    /\ rbRing' = [rbRing EXCEPT ![b] = RbTake(@, n)]
    /\ rbQueue' = [rbQueue EXCEPT ![b] = SubSeq(@, n + 1, Len(@))]
    /\ UNCHANGED <<rbMem, rbLink, rbNext, rbStale, rbOver>>

\* Mutant: a full buffer is read in one piece here too.
RbCopyToLinearLoose(b, n) == RbOut(b, n, rbRing[b].read <= rbRing[b].write)

RingBuf_copyToLinear(b, n) == RbOut(b, n, rbRing[b].read < rbRing[b].write)

\* The others take a full buffer for an empty one: fit for buffers that are not full.
RingBuf_copyToLinear_dma(b, n) ==
    rbRing[b].count < RbLen /\ RbOut(b, n, rbRing[b].read <= rbRing[b].write)
---------------------------------------------------------------------------
(* RingBuf_copyFromRingBuf and All: the source keeps its datacount.        *)

RbMoved(s, t, n, datas) ==
    LET one == datas[1]  two == datas[2]  ring == RbIn(rbRing[t], one) IN
    /\ s # t
    /\ n <= RbWaiting(s) /\ n <= RbSpace(rbRing[t])
    /\ rbRing' = [rbRing EXCEPT ![t] = RbIn(ring, two), ![s].read = (@ + n) % RbLen]
    /\ rbMem' = [rbMem EXCEPT ![t] = RbMemIn(RbMemIn(@, rbRing[t], one), ring, two)]
    /\ rbQueue' = [rbQueue EXCEPT ![t] = @ \o SubSeq(rbQueue[s], 1, n),
                                  ![s] = SubSeq(@, n + 1, Len(@))]
    /\ rbStale' = IF n > 0 THEN rbStale \cup {s} ELSE rbStale
    /\ rbGiven' = TRUE
    /\ UNCHANGED <<rbLink, rbNext, rbOver>>

RingBuf_copyFromRingBuf(s, t, n) ==
    LET r2e == RbLen - rbRing[s].read
        bytes == RbPiece(s, n, rbRing[s].read < rbRing[s].write) IN
    RbMoved(s, t, n, IF rbRing[s].read < rbRing[s].write \/ r2e >= n THEN <<bytes, <<>>>>
                     ELSE <<SubSeq(bytes, 1, r2e), SubSeq(bytes, r2e + 1, n)>>)

\* All that is between the pointers: of a full buffer nothing.
RingBuf_copyFromRingBufAll(s, t) ==
    LET ring == rbRing[s]  wrapped == ring.read > ring.write
        n == IF wrapped THEN RbLen - ring.read + ring.write ELSE ring.write - ring.read
        bytes == RbPiece(s, n, ~wrapped) IN
    /\ n = RbWaiting(s)
    /\ RbMoved(s, t, n, IF ~wrapped THEN <<bytes, <<>>>>
                        ELSE <<SubSeq(bytes, 1, RbLen - ring.read),
                               SubSeq(bytes, RbLen - ring.read + 1, n)>>)
---------------------------------------------------------------------------
(* RingBuf_update_writeptr and readptr: somebody else has moved the bytes. *)

RbWritePtr(ring, n) ==
    LET past == ring.write + n - RbLen
        write == IF ring.read > ring.write \/ past <= 0 THEN RbWrap(ring.write + n)
                 ELSE IF past > ring.read THEN 0 ELSE past
        over == ring.count + n > RbLen
        odd == IF ring.read >= write THEN ring.read - write ELSE write + RbLen - ring.read IN
    [ring EXCEPT !.write = write, !.count = IF over THEN odd ELSE @ + n]
RbReadPtr(ring, n) ==
    LET read == RbWrap(ring.read + n)
        odd == IF ring.write >= read THEN ring.write - read ELSE read + RbLen - ring.write IN
    [ring EXCEPT !.read = read, !.count = IF n > @ THEN odd ELSE @ - n]

\* Hardware writes into the buffer, more than there is room for even.
RbFilled(mem, write, n) ==
    [p \in 0 .. RbLen - 1 |-> LET k == (p - write) % RbLen IN
        IF k < n THEN (rbNext + k) % RbBytes ELSE mem[p]]
RingBuf_update_writeptr(b, n) ==
    /\ rbRing' = [rbRing EXCEPT ![b] = RbWritePtr(@, n)]
    /\ rbMem' = [rbMem EXCEPT ![b] = RbFilled(@, rbRing[b].write, n)]
    /\ rbQueue' = [rbQueue EXCEPT ![b] = @ \o RbFresh(n)]
    /\ rbNext' = (rbNext + n) % RbBytes
    /\ rbOver' = IF n > RbSpace(rbRing[b]) THEN rbOver \cup {b} ELSE rbOver
    /\ rbGiven' = TRUE
    /\ UNCHANGED <<rbLink, rbStale>>
RingBuf_update_readptr(b, n) ==
    /\ n <= RbWaiting(b)
    /\ rbRing' = [rbRing EXCEPT ![b] = RbReadPtr(@, n)]
    /\ rbQueue' = [rbQueue EXCEPT ![b] = SubSeq(@, n + 1, Len(@))]
    /\ rbGiven' = TRUE
    /\ UNCHANGED <<rbMem, rbLink, rbNext, rbStale, rbOver>>
---------------------------------------------------------------------------
(* The AP, which has a ring buffer of its own for the same memory, and the *)
(* indices that go back and forth.                                         *)

\* The AP tells of every write before it makes the next.
RbApWrites(n) ==
    LET b == RbShared  write == RbWritePtr(rbAp, n).write IN
    /\ rbSent = 0 /\ n <= RbSpace(rbAp)
    /\ rbMem' = [rbMem EXCEPT ![b] = RbStored(@, rbAp, RbFresh(n))]
    /\ rbAp' = RbIn(rbAp, RbFresh(n))
    /\ rbBridge' = [rbBridge EXCEPT !.write = write, !.count = rbAp.count + n]
    /\ rbQueue' = [rbQueue EXCEPT ![b] = @ \o RbFresh(n)]
    /\ rbNext' = (rbNext + n) % RbBytes
    /\ rbSent' = n
    /\ rbGiven' = TRUE
    /\ UNCHANGED <<rbRing, rbStale, rbOver>>

\* Mutant: the same index is always taken for nothing new.
RbNewWithoutCount ==
    LET ring == rbRing[RbShared] IN
    IF rbBridge.write >= ring.write THEN rbBridge.write - ring.write
    ELSE RbLen - (ring.write - rbBridge.write)

RbNew ==
    LET ring == rbRing[RbShared] IN
    IF rbBridge.write > ring.write THEN rbBridge.write - ring.write
    ELSE IF rbBridge.write < ring.write THEN RbLen - (ring.write - rbBridge.write)
    ELSE IF rbBridge.count > ring.count THEN rbBridge.count - ring.count ELSE 0

sync_ringbuf_writeidx ==
    LET ring == rbRing[RbShared] IN
    /\ rbSent > 0
    /\ rbRing' = [rbRing EXCEPT ![RbShared] =
                     IF ring.read = ring.write /\ ring.count = RbLen THEN @ ELSE RbWritePtr(@, RbNew)]
    /\ rbSent' = 0
    /\ rbGiven' = TRUE
    /\ UNCHANGED <<rbMem, rbBridge, rbAp, rbQueue, rbNext, rbStale, rbOver>>

sync_bridge_ringbuf_readidx ==
    /\ rbBridge' = [rbBridge EXCEPT !.read = rbRing[RbShared].read]
    /\ rbGiven' = TRUE
    /\ UNCHANGED <<rbRing, rbMem, rbAp, rbSent, rbQueue, rbNext, rbStale, rbOver>>
sync_ringbuf_readidx ==
    /\ rbAp' = RbReadPtr(rbAp, (rbBridge.read - rbAp.read) % RbLen)
    /\ rbGiven' = TRUE
    /\ UNCHANGED <<rbRing, rbMem, rbBridge, rbSent, rbQueue, rbNext, rbStale, rbOver>>

\* An index cannot tell a whole round from none: the reader has told before.
RbTold(b, n) == b = RbShared => n + ((rbRing[b].read - rbAp.read) % RbLen) < RbLen

\* RingBuf_Reset and init_ring_buf
RingBuf_Reset(b) ==
    /\ rbRing' = [rbRing EXCEPT ![b] = RbEmpty]
    /\ rbQueue' = [rbQueue EXCEPT ![b] = <<>>]
    /\ rbStale' = rbStale \ {b}
    /\ rbOver' = rbOver \ {b}
    /\ rbGiven' = TRUE
    /\ UNCHANGED <<rbMem, rbLink, rbNext>>
---------------------------------------------------------------------------
RbInit ==
    /\ rbRing = [b \in RbBufs |-> RbEmpty]
    /\ rbMem = [b \in RbBufs |-> [p \in 0 .. RbLen - 1 |-> 0]]
    /\ rbBridge = RbEmpty /\ rbAp = RbEmpty /\ rbSent = 0
    /\ rbQueue = [b \in RbBufs |-> <<>>]
    /\ rbGiven = TRUE
    /\ rbNext = 0 /\ rbStale = {} /\ rbOver = {}

\* An overrun buffer is only reset.  Buffers that the AP fills are not copied from.
RbCall(call, b) == call \in RbUses[b] /\ b \notin rbOver

RbNext ==
    \/ \E b \in RbBufs, n \in RbCounts :
          \/ RbCall("write", b) /\ RingBuf_copyFromLinear(b, n)
          \/ RbCall("value", b) /\ RingBuf_writeDataValue(b, n)
          \/ RbCall("moved", b) /\ RingBuf_update_writeptr(b, n)
          \/ RbCall("read", b) /\ RbTold(b, n) /\ RingBuf_copyToLinear(b, n)
          \/ RbCall("dma", b) /\ RbTold(b, n) /\ RingBuf_copyToLinear_dma(b, n)
          \/ RbCall("skip", b) /\ RbTold(b, n) /\ RingBuf_update_readptr(b, n)
    \/ \E s, t \in RbBufs : /\ RbCall("source", s) /\ RbCall("target", t)
                           /\ \/ RingBuf_copyFromRingBufAll(s, t)
                              \/ \E n \in RbCounts : RingBuf_copyFromRingBuf(s, t, n)
    \/ \E n \in RbCounts : RbApWrites(n)
    \/ sync_ringbuf_writeidx \/ sync_bridge_ringbuf_readidx \/ sync_ringbuf_readidx
    \/ \E b \in RbBufs : "reset" \in RbUses[b] /\ RingBuf_Reset(b)
RbSpec == RbInit /\ [][RbNext]_rbVars
---------------------------------------------------------------------------
(* Between the pointers of a buffer are the bytes that were written and    *)
(* not read, in their order, and datacount says how many; but not that of  *)
(* a buffer from which another one was filled, whose source never counts   *)
(* down, nor is anything so after an overrun.                              *)
RbHolds ==
    \A b \in RbBufs \ rbOver :
        LET ring == rbRing[b]  n == RbWaiting(b) IN
        /\ Len(rbQueue[b]) <= RbLen /\ ring.write = (ring.read + n) % RbLen
        /\ \A k \in 1 .. Len(rbQueue[b]) : rbMem[b][(ring.read + k - 1) % RbLen] = rbQueue[b][k]
        /\ b \in rbStale \/ ring.count = n

(* What is copied out is what was written.                                 *)
RbGives == rbGiven

(* Ringbuf_Check and Ringbuf_Bridge_Check stop at nothing, not even after  *)
(* an overrun: the pointers stay in the buffer.                            *)
RbChecked ==
    \A b \in RbBufs :
        /\ rbRing[b].read \in 0 .. RbLen /\ rbRing[b].write \in 0 .. RbLen
        /\ rbRing[b].count >= 0

(* A fixed buffer is a queue: RbHolds, RbGives and RbChecked.              *)
RbQueues == RbHolds /\ RbGives /\ RbChecked
=============================================================================
