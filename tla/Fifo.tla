-------------------------------- MODULE Fifo --------------------------------
(***************************************************************************)
(* What the byte buffers of the audio framework promise: first in, first   *)
(* out, without loss, and with a reader that may step back.  A buffer is a *)
(* tape with two marks.  Bytes from head up to tail wait for the reader;   *)
(* bytes from kept up to head were read and can be had again.              *)
(***************************************************************************)
EXTENDS Integers, Sequences

CONSTANTS
  Rings,     \* the buffers
  Byte,      \* what they hold
  Blank,     \* the byte of a tape that nobody wrote
  Chunks,    \* what is put in one call
  Behind,    \* a tape has this many places before the first one written
  Ahead      \* and this many from there on

Places == (-Behind)..(Ahead - 1)

VARIABLES
  tape,    \* the bytes of each buffer, by place
  head,    \* where the reader goes on
  tail,    \* where the writer goes on
  kept,    \* the oldest place the reader can go back to
  result   \* what the last call returned to its caller

Init ==
  /\ tape = [r \in Rings |-> [i \in Places |-> Blank]]
  /\ head = [r \in Rings |-> 0]
  /\ tail = [r \in Rings |-> 0]
  /\ kept = [r \in Rings |-> 0]
  /\ result = <<>>

\* The tape of r with data written from place i on.
Written(r, i, data) ==
  [j \in Places |->
     IF j - i + 1 \in DOMAIN data THEN data[j - i + 1] ELSE tape[r][j]]

\* The n bytes that the reader of r has next.
Waiting(r, n) == [k \in 1..n |-> tape[r][head[r] + k - 1]]

\* A buffer that grows or shrinks forgets what was read.
MayForget(r) == kept' = kept \/ kept' = [kept EXCEPT ![r] = head[r]]

Put(r, data) ==
  /\ tail[r] + Len(data) <= Ahead
  /\ tape' = [tape EXCEPT ![r] = Written(r, tail[r], data)]
  /\ tail' = [tail EXCEPT ![r] = @ + Len(data)]
  /\ MayForget(r)
  /\ result' = <<>>
  /\ UNCHANGED head

Skip(r, n) ==
  /\ head' = [head EXCEPT ![r] = @ + n]
  /\ result' = <<>>
  /\ UNCHANGED <<tape, tail, kept>>

Get(r, n) ==
  /\ result' = Waiting(r, n)
  /\ head' = [head EXCEPT ![r] = @ + n]
  /\ UNCHANGED <<tape, tail, kept>>

\* n bytes go from s to r.
Move(r, s, n) ==
  /\ r # s
  /\ tail[r] + n <= Ahead
  /\ tape' = [tape EXCEPT ![r] = Written(r, tail[r], Waiting(s, n))]
  /\ tail' = [tail EXCEPT ![r] = @ + n]
  /\ head' = [head EXCEPT ![s] = @ + n]
  /\ MayForget(r)
  /\ result' = <<>>

\* The reader has the last n bytes again.
StepBack(r, n) ==
  /\ head' = [head EXCEPT ![r] = @ - n]
  /\ result' = <<>>
  /\ UNCHANGED <<tape, tail, kept>>

\* The reader has data first, then what waits.
PutBefore(r, data) ==
  /\ -Behind <= head[r] - Len(data)
  /\ head' = [head EXCEPT ![r] = @ - Len(data)]
  /\ tape' = [tape EXCEPT ![r] = Written(r, head[r] - Len(data), data)]
  /\ \/ kept[r] <= head'[r] /\ kept' = kept
     \/ kept' = [kept EXCEPT ![r] = head'[r]]
  /\ result' = <<>>
  /\ UNCHANGED tail

Resize(r) ==
  /\ MayForget(r)
  /\ result' = <<>>
  /\ UNCHANGED <<tape, head, tail>>

Next == \E r \in Rings :
  \/ \E data \in Chunks : Put(r, data) \/ PutBefore(r, data)
  \/ \E n \in 1..(tail[r] - head[r]) : Skip(r, n) \/ Get(r, n)
  \/ \E s \in Rings : \E n \in 1..(tail[s] - head[s]) : Move(r, s, n)
  \/ \E n \in 1..(head[r] - kept[r]) : StepBack(r, n)
  \/ Resize(r)

Spec == Init /\ [][Next]_<<tape, head, tail, kept, result>>
=============================================================================
