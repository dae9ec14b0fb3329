---------------------------- MODULE AudioRingbuf ----------------------------
(***************************************************************************)
(* The growing byte buffers of the audio framework, drivers/audio/         *)
(* audio_utility/audio_ringbuf_pure.c, which the software mixer and the    *)
(* aurisys libraries keep their samples in.  Each call is one step: the    *)
(* owners call under a lock of theirs or from one task.                    *)
(*                                                                         *)
(* Pointers are offsets from base.  A call with an amount that the buffer  *)
(* does not have asserts (AUD_WARNING), and every caller in the repository *)
(* looks at the amount before, so a read is modelled for what is there;    *)
(* writes that make room first are modelled with their refusal.            *)
(* audio_ringbuf_drop_all is left out: it has no caller, and leaves NULL   *)
(* pointers next to a base.                                                *)
(***************************************************************************)
EXTENDS Integers, Sequences

CONSTANTS
  Rings,   \* buffers, each struct audio_ringbuf_t
  Byte,    \* contents
  Zero,    \* what new memory holds
  Value,   \* what the calls that take a value are given
  Chunks,  \* data of one call that writes
  Counts,  \* amounts of one call
  Setups,  \* which calls the owner of each buffer makes, and for how many bytes
  Refused, \* result of a call that asserts
  Spare,   \* MAX_SIZE_OF_ONE_FRAME, never filled so that read == write is empty
  Behind,  \* bounds the bytes put before the first
  Ahead    \* bounds the bytes put after it, in any setup

Calls == {"write", "value", "impl", "read", "drop", "move", "compensate",
          "rollback", "resize"}

ASSUME RingAssumption ==
  /\ {Zero, Value} \subseteq Byte
  /\ Chunks \subseteq Seq(Byte) \ {<<>>}
  /\ Counts \subseteq Nat \ {0}
  /\ Spare \in Nat \ {0}
  /\ Behind \in Nat
  /\ Ahead \in Nat
  /\ Setups \subseteq [calls : [Rings -> SUBSET Calls], ahead : 0..Ahead]

VARIABLES
  setup,   \* an element of Setups
  rb,      \* rb[r]: base (mem), read, write and size of buffer r
  result,  \* what the last call copied to its caller
  tape, head, tail, kept  \* history: see Fifo

history == <<tape, head, tail, kept>>
vars == <<setup, rb, result, tape, head, tail, kept>>

NoBase == [size |-> 0, read |-> 0, write |-> 0, mem |-> [o \in {} |-> Zero]]
\* AUDIO_ALLOC_CHAR_BUFFER zeroes what it allocates.
Allocated(size) ==
  [size |-> size, read |-> 0, write |-> 0,
   mem |-> [o \in 0..(size - 1) |-> Zero]]

Repeat(v, n) == [k \in 1..n |-> v]

-----------------------------------------------------------------------------
(* The arithmetic of one buffer, B.                                        *)

Count(B) ==
  IF B.write >= B.read THEN B.write - B.read ELSE B.size - (B.read - B.write)

FreeSpace(B) ==
  IF B.size - Count(B) > Spare THEN B.size - Count(B) - Spare ELSE 0

\* Where read is after n bytes, and after going back n bytes.
Forward(B, n) ==
  IF B.read <= B.write \/ B.read + n < B.size
  THEN B.read + n ELSE B.read + n - B.size
Backward(B, n) ==
  IF B.read <= B.write /\ B.read < n
  THEN B.size - (n - B.read) ELSE B.read - n

\* The one or two copies out of audio_ringbuf_copy_to_linear.
CopiedOut(B, n) ==
  LET r2e == B.size - B.read
  IN [k \in 1..n |-> IF B.read <= B.write \/ k <= r2e
                     THEN B.mem[B.read + k - 1] ELSE B.mem[k - r2e - 1]]

\* The one or two copies in of audio_ringbuf_copy_from_linear_impl.
CopiedIn(B, data, n) ==
  LET w2e == B.size - B.write
      wraps == B.read <= B.write /\ n >= w2e
  IN [B EXCEPT
        !.mem = [o \in DOMAIN B.mem |->
                   IF o - B.write + 1 \in 1..n THEN data[o - B.write + 1]
                   ELSE IF wraps /\ o < n - w2e THEN data[w2e + o + 1]
                   ELSE B.mem[o]],
        !.write = IF wraps THEN n - w2e ELSE B.write + n]

\* audio_ringbuf_copy_from_ringbuf_impl: S is copied in one or two parts, and
\* each part may be split again at the end of D.
Linear(B, from, n) == [k \in 1..n |-> B.mem[from + k - 1]]

\* Mutant: the part at the base goes first.
CopiedAcrossSwapped(D, S, n) ==
  LET r2e == S.size - S.read
  IN IF S.read <= S.write \/ n <= r2e
     THEN CopiedIn(D, Linear(S, S.read, n), n)
     ELSE CopiedIn(CopiedIn(D, Linear(S, 0, n - r2e), n - r2e),
                   Linear(S, S.read, r2e), r2e)

CopiedAcross(D, S, n) ==
  LET r2e == S.size - S.read
  IN IF S.read <= S.write \/ n <= r2e
     THEN CopiedIn(D, Linear(S, S.read, n), n)
     ELSE CopiedIn(CopiedIn(D, Linear(S, S.read, r2e), r2e),
                   Linear(S, 0, n - r2e), n - r2e)

\* Mutant: only what lies before read is filled.
CompensatedHalf(B, v, n) ==
  [B EXCEPT !.mem = [o \in DOMAIN B.mem |->
                       IF o \in (B.read - n)..(B.read - 1) THEN v ELSE B.mem[o]],
            !.read = Backward(B, n)]

\* audio_ringbuf_compensate_value_impl: n bytes v in front of what is read next.
Compensated(B, v, n) ==
  LET wraps == B.read <= B.write /\ B.read < n
      filled == IF wraps
                THEN 0..(B.read - 1) \union (B.size - (n - B.read))..(B.size - 1)
                ELSE (B.read - n)..(B.read - 1)
  IN [B EXCEPT !.mem = [o \in DOMAIN B.mem |-> IF o \in filled THEN v ELSE B.mem[o]],
               !.read = Backward(B, n)]

-----------------------------------------------------------------------------
(* dynamic_change_ring_buf_size: the loops double or halve what the buffer *)
(* can hold, and MAX_SIZE_OF_ONE_FRAME comes on top.                       *)

PowersOfTwo == {2^k : k \in 0..29}

\* What a buffer of capacity c with n bytes in it changes to for w more: x is
\* the capacity before the last round of the loop.
Doubled(c, n, w) ==
  {2 * x : x \in {x \in c..(n + w) :
     /\ x % c = 0 /\ x \div c \in PowersOfTwo
     /\ x - n < w /\ 2 * x - n >= w}}
Halved(c, n, w) ==
  {x \div 2 : x \in {x \in 0..c :
     /\ \E p \in PowersOfTwo : x = c \div p
     /\ x - n > 8 * (n + w) /\ x \div 2 - n <= 8 * (n + w)}}

Reallocated(B, capacity) ==
  CopiedAcross(Allocated(capacity + Spare), B, Count(B))

\* The set of the one buffer that B is after a call for w bytes.
Resized(B, w) ==
  LET n == Count(B)
      free == FreeSpace(B)
  IN IF B.size = 0 THEN {Allocated(2 * w + Spare)}
     ELSE IF free < w
     THEN {Reallocated(B, c) : c \in Doubled(n + free, n, w)}
     ELSE IF free > 8 * (n + w)
     THEN {Reallocated(B, c) : c \in Halved(n + free, n, w)}
     ELSE {B}

Changes(B, w) ==
  B.size = 0 \/ FreeSpace(B) < w \/ FreeSpace(B) > 8 * (Count(B) + w)

-----------------------------------------------------------------------------
(* The calls.  History follows what the callers ask for, never the memory. *)

Init ==
  /\ setup \in Setups
  /\ rb = [r \in Rings |-> NoBase]
  /\ result = <<>>
  /\ tape = [r \in Rings |-> [i \in (-Behind)..(Ahead - 1) |-> Zero]]
  /\ head = [r \in Rings |-> 0]
  /\ tail = [r \in Rings |-> 0]
  /\ kept = [r \in Rings |-> 0]

F == INSTANCE Fifo WITH
  Blank <- Zero,
  Chunks <- Chunks \union {Repeat(Value, n) : n \in Counts}

\* The owner of r makes this call.
MayCall(r, call) == call \in setup.calls[r] /\ setup' = setup

Refuse == result' = Refused /\ UNCHANGED history

\* What was read is gone with the old memory.
Forgets(r, w) ==
  kept' = IF Changes(rb[r], w) THEN [kept EXCEPT ![r] = head[r]] ELSE kept

\* audio_ringbuf_copy_from_linear; audio_ringbuf_write_value copies the same
\* way.  Makes room, then refuses what still does not fit.
Store(r, data, n) ==
  /\ tail[r] + n <= setup.ahead
  /\ \E B \in Resized(rb[r], n) :
       IF n > FreeSpace(B)
       THEN rb' = [rb EXCEPT ![r] = B] /\ Refuse
       ELSE /\ rb' = [rb EXCEPT ![r] = CopiedIn(B, data, n)]
            /\ tape' = [tape EXCEPT ![r] = F!Written(r, tail[r], data)]
            /\ tail' = [tail EXCEPT ![r] = @ + n]
            /\ Forgets(r, n)
            /\ result' = <<>>
            /\ UNCHANGED head

CopyFromLinear(r) ==
  MayCall(r, "write") /\ \E data \in Chunks : Store(r, data, Len(data))

WriteValue(r) ==
  MayCall(r, "value") /\ \E n \in Counts : Store(r, Repeat(Value, n), n)

\* audio_ringbuf_copy_from_linear_impl: the caller knows that there is room.
CopyFromLinearImpl(r) == \E data \in Chunks :
  /\ MayCall(r, "impl")
  /\ rb[r].size > 0
  /\ Len(data) <= FreeSpace(rb[r])
  /\ tail[r] + Len(data) <= setup.ahead
  /\ rb' = [rb EXCEPT ![r] = CopiedIn(rb[r], data, Len(data))]
  /\ tape' = [tape EXCEPT ![r] = F!Written(r, tail[r], data)]
  /\ tail' = [tail EXCEPT ![r] = @ + Len(data)]
  /\ result' = <<>>
  /\ UNCHANGED <<head, kept>>

CopyToLinear(r) == \E n \in Counts :
  /\ MayCall(r, "read")
  /\ rb[r].size > 0
  /\ n <= Count(rb[r])
  /\ result' = CopiedOut(rb[r], n)
  /\ rb' = [rb EXCEPT ![r].read = Forward(rb[r], n)]
  /\ head' = [head EXCEPT ![r] = @ + n]
  /\ UNCHANGED <<tape, tail, kept>>

DropData(r) == \E n \in Counts :
  /\ MayCall(r, "drop")
  /\ n <= Count(rb[r])
  /\ rb' = [rb EXCEPT ![r].read = Forward(rb[r], n)]
  /\ head' = [head EXCEPT ![r] = @ + n]
  /\ result' = <<>>
  /\ UNCHANGED <<tape, tail, kept>>

\* audio_ringbuf_copy_from_ringbuf; audio_ringbuf_copy_from_ringbuf_all is the
\* call with all that s has.
CopyFromRingbuf(r, s) == \E n \in Counts \union {Count(rb[s])} :
  /\ MayCall(r, "move")
  /\ r # s
  /\ rb[s].size > 0
  /\ n \in 1..Count(rb[s])
  /\ tail[r] + n <= setup.ahead
  /\ \E B \in Resized(rb[r], n) :
       IF n > FreeSpace(B)
       THEN rb' = [rb EXCEPT ![r] = B] /\ Refuse
       ELSE /\ rb' = [rb EXCEPT ![r] = CopiedAcross(B, rb[s], n),
                                ![s].read = Forward(rb[s], n)]
            /\ tape' = [tape EXCEPT ![r] = F!Written(r, tail[r], F!Waiting(s, n))]
            /\ tail' = [tail EXCEPT ![r] = @ + n]
            /\ head' = [head EXCEPT ![s] = @ + n]
            /\ Forgets(r, n)
            /\ result' = <<>>

\* audio_ringbuf_compensate_value.
CompensateValue(r) == \E n \in Counts :
  /\ MayCall(r, "compensate")
  /\ -Behind <= head[r] - n
  /\ \E B \in Resized(rb[r], n) :
       IF n > FreeSpace(B)
       THEN rb' = [rb EXCEPT ![r] = B] /\ Refuse
       ELSE /\ rb' = [rb EXCEPT ![r] = Compensated(B, Value, n)]
            /\ head' = [head EXCEPT ![r] = @ - n]
            /\ tape' = [tape EXCEPT ![r] =
                          F!Written(r, head[r] - n, Repeat(Value, n))]
            /\ kept' = IF Changes(rb[r], n) \/ head'[r] < kept[r]
                       THEN [kept EXCEPT ![r] = head'[r]] ELSE kept
            /\ result' = <<>>
            /\ UNCHANGED tail

\* audio_ringbuf_rollback of bytes that were read since the buffer last
\* changed its memory, which the caller has to know.
Rollback(r) == \E n \in Counts :
  /\ MayCall(r, "rollback")
  /\ kept[r] <= head[r] - n
  /\ n <= FreeSpace(rb[r])
  /\ rb' = [rb EXCEPT ![r].read = Backward(rb[r], n)]
  /\ head' = [head EXCEPT ![r] = @ - n]
  /\ result' = <<>>
  /\ UNCHANGED <<tape, tail, kept>>

\* dynamic_change_ring_buf_size on its own.
ChangeSize(r) == \E w \in Counts :
  /\ MayCall(r, "resize")
  /\ \E B \in Resized(rb[r], w) : rb' = [rb EXCEPT ![r] = B]
  /\ Forgets(r, w)
  /\ result' = <<>>
  /\ UNCHANGED <<tape, head, tail>>

Next == \E r \in Rings :
  \/ CopyFromLinear(r)
  \/ WriteValue(r)
  \/ CopyFromLinearImpl(r)
  \/ CopyToLinear(r)
  \/ DropData(r)
  \/ \E s \in Rings : CopyFromRingbuf(r, s)
  \/ CompensateValue(r)
  \/ Rollback(r)
  \/ ChangeSize(r)

Spec == Init /\ [][Next]_vars

-----------------------------------------------------------------------------
(* Properties.                                                             *)

\* Types, in short: the pointers of every buffer lie inside its memory, one
\* before the end at most, whatever sequence of calls moved them.
TypeOK ==
  /\ \A r \in Rings :
       /\ rb[r].size \in Nat
       /\ rb[r].mem \in [0..(rb[r].size - 1) -> Byte]
       /\ rb[r].size > 0 => {rb[r].read, rb[r].write} \subseteq 0..(rb[r].size - 1)
  /\ setup \in Setups
  /\ result \in Seq(Byte)
  /\ tape \in [Rings -> [F!Places -> Byte]]
  /\ {head, tail, kept} \subseteq [Rings -> Int]

\* audio_ringbuf_count says how many bytes wait, though a full buffer and an
\* empty one have equal pointers, after any growing, shrinking, stepping back
\* and copying between buffers.
CountIsWaiting == \A r \in Rings : Count(rb[r]) = tail[r] - head[r]

\* The place of the byte d bytes from where read is.
Cell(B, d) ==
  IF B.read + d < 0 THEN B.read + d + B.size
  ELSE IF B.read + d >= B.size THEN B.read + d - B.size ELSE B.read + d

\* Every byte that waits, and every byte read since the memory last changed
\* that is still in free space, is where the pointers say: no call overwrites
\* either, and changing the size brings the bytes that wait along.
BytesInPlace == \A r \in Rings : \A i \in kept[r]..(tail[r] - 1) :
  i >= tail[r] - rb[r].size => tape[r][i] = rb[r].mem[Cell(rb[r], i - head[r])]

\* The buffers are FIFOs: what is read is what was written, once and in order,
\* and no write that makes room first is refused.
FifoSpec == F!Spec
=============================================================================
