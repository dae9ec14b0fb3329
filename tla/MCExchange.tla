------------------------------ MODULE MCExchange ------------------------------
(***************************************************************************)
(* Small instances of what data passes through: the growing buffers of the *)
(* audio framework, the two rings of the logger, the regions of audio      *)
(* messages, the chains of audio libraries, the words in which the AP      *)
(* passes its time, the rings and the table of messages between two cores, *)
(* the mailbox of mbox v1, and the channels of the DMA.  They share no     *)
(* state, and a behaviour is one of one of them.                           *)
(*                                                                         *)
(* Audio buffers: one buffer or two, one byte at a time or three: three at *)
(* once make a buffer grow and are split at its end, single ones let it    *)
(* shrink.                                                                 *)
(***************************************************************************)
EXTENDS AudioRingbuf, Logger, AudioDma, Aurisys, TimeSync, ZeroCopy, IpiV1, Gdma, TLC

CONSTANTS
    x, y,       \* tasks that send audio messages
    t, u, isr,  \* two tasks and an interrupt that ask for the time
    v, w,       \* buffers that are sent to another core
    near, far,  \* two cores
    l,          \* a task that hears two mailbox pins
    Parts       \* see MCNext

VARIABLE part

MCBytes == 0..4
MCChunks == {<<1, 2, 3>>}
Owner(calls, other, bytes) == [calls |-> <<calls, other>>, ahead |-> bytes]

\* Steps back across the start of the memory, in buffers that grow.
Back == Owner({"write", "value", "read", "compensate", "rollback"}, {}, 6)
\* Growing and shrinking of filled and of wrapped buffers.
Sizes == Owner({"write", "value", "impl", "read", "drop", "resize"}, {}, 12)
\* Two buffers that both wrap.
Pair == Owner({"write", "value", "read"}, {"move", "read"}, 6)

MCSetups == {Back, Sizes, Pair}

\* Chains: two libraries of frames and units of their own behind a recording with an
\* echo reference, and two ahead of a speaker with its IV; one that is never short.
Lib(in, out, unit, frame, ref) ==
    [in |-> in, out |-> out, unit |-> unit, frame |-> frame, ref |-> ref]
Record == [way |-> "ul", sizes |-> {5, 7},
           libs |-> <<Lib(1, 2, 2, TRUE, TRUE), Lib(2, 1, 6, TRUE, FALSE)>>]
Speaker == [way |-> "dl", sizes |-> {1, 5},
            libs |-> <<Lib(2, 1, 4, FALSE, TRUE), Lib(1, 1, 3, FALSE, FALSE)>>]
Whole == [way |-> "ul", sizes |-> {2, 4}, libs |-> <<Lib(1, 1, 2, TRUE, TRUE)>>]

MCAuSetups == {Record, Speaker, Whole}

\* A ring for all ids, one for an id that a task receives, one for an id with a handler.
MCZcpySize == (0 :> 2) @@ (1 :> 1) @@ (2 :> 1)

\* Mailbox pins 3 and 4 have one listener; an answer comes to pin 1, one is due on pin 3.
MCV1Listener == (3 :> l) @@ (4 :> l)

\* One task's transfer crosses a block and its other is strided; the second task asks for
\* channel 1 only, and once without waiting.
Dma(channel, sync, stride, src, dst, len) ==
    [channel |-> channel, sync |-> sync, stride |-> stride, src |-> src, dst |-> dst, len |-> len]
MCGdmaAsks == (x :> {Dma(GdmaAny, TRUE, FALSE, 2, 11, 3), Dma(GdmaAny, TRUE, TRUE, 1, 2, 1)})
              @@ (y :> {Dma(1, TRUE, FALSE, 3, 9, 3), Dma(1, FALSE, FALSE, 0, 10, 3)})

MCInit == /\ Init /\ LogInit /\ DmaInit /\ AuInit /\ TimeInit /\ ZcpyInit
          /\ V1Init /\ GdmaInit
          /\ part \in Parts
          /\ part # "buffer" => setup = Back
          /\ part # "chain" => auSetup = Whole

\* The variables of what processes data, and of what passes it on.
dataVars == <<vars, auVars>>
passVars == <<logVars, dmaVars, timeVars, zcpyVars, v1Vars, gdmaVars>>

ProcessNext ==
    \/ part = "buffer" /\ Next /\ UNCHANGED auVars
    \/ part = "chain" /\ AuNext /\ UNCHANGED vars

PassNext ==
    \/ part = "log" /\ LogNext /\ UNCHANGED <<dmaVars, timeVars, zcpyVars, v1Vars, gdmaVars>>
    \/ /\ \/ part = "up" /\ DmaUp
          \/ part = "down" /\ DmaDown
       /\ UNCHANGED <<logVars, timeVars, zcpyVars, v1Vars, gdmaVars>>
    \/ part = "time" /\ TimeNext /\ UNCHANGED <<logVars, dmaVars, zcpyVars, v1Vars, gdmaVars>>
    \/ /\ \/ /\ part = "send" /\ ZcpyRingNext /\ UNCHANGED zcpyTableVars
             \* One buffer for the id with a task, two for that with a handler.
             /\ zcpySend'.id = 1 => zcpySend'.buf = v
          \/ part = "use" /\ ZcpyTableNext /\ UNCHANGED zcpyRingVars
       /\ UNCHANGED <<logVars, dmaVars, timeVars, v1Vars, gdmaVars>>
    \/ /\ V1Next
       /\ \/ part = "ask" /\ v1Act' = {} /\ \A pin \in V1Recv : v1Sent'[pin] = 0
          \/ part = "hear" /\ \A pin \in V1Send : v1Sent'[pin] = 0
       /\ UNCHANGED <<logVars, dmaVars, timeVars, zcpyVars, gdmaVars>>
    \/ part = "dma" /\ GdmaNext /\ UNCHANGED <<logVars, dmaVars, timeVars, zcpyVars, v1Vars>>

MCNext == /\ part' = part
          /\ \/ ProcessNext /\ UNCHANGED passVars
             \/ PassNext /\ UNCHANGED dataVars
MCSpec == MCInit /\ [][MCNext]_<<part, dataVars, passVars>>
=============================================================================
