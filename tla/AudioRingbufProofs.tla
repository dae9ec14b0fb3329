------------------------- MODULE AudioRingbufProofs -------------------------
(***************************************************************************)
(* The audio ring buffers are FIFOs, for every number and use of them, and *)
(* those of fixed length are queues.                                       *)
(*                                                                         *)
(* Below, a buffer B is described by the distance of a byte from where     *)
(* read is: Cell(B, d).  A lemma for each operation says which bytes are   *)
(* at which distance after it; Holds relates that to the tape of the FIFO. *)
(***************************************************************************)
EXTENDS AudioRingbuf, RingBuf, SequenceTheorems, TLAPS

\* A buffer with its pointers inside its memory and Spare bytes unused, or one
\* without memory.
Shape(B) ==
  /\ B = [size |-> B.size, read |-> B.read, write |-> B.write, mem |-> B.mem]
  /\ B.size \in Nat /\ B.read \in Nat /\ B.write \in Nat
  /\ B.mem \in [0..(B.size - 1) -> Byte]
  /\ B.size = 0 => B.read = 0 /\ B.write = 0
  /\ B.size > 0 => /\ B.read < B.size /\ B.write < B.size
                   /\ Count(B) <= B.size - Spare

\* B with its read pointer elsewhere.
Moved(B, read) == [B EXCEPT !.read = read]

LEMMA CountRange ==
  ASSUME NEW B, Shape(B)
  PROVE  /\ Count(B) \in Nat
         /\ FreeSpace(B) \in Nat
         /\ \A n \in Nat : n > 0 /\ n <= FreeSpace(B) =>
              B.size > 0 /\ Count(B) + n <= B.size - Spare
<1>1. Spare \in Nat \ {0}
  BY RingAssumption
<1>2. Count(B) \in Nat
  BY DEF Shape, Count
<1> QED
  BY <1>1, <1>2 DEF Shape, FreeSpace

\* C is B with n bytes of data behind what waits in B, and what was read still
\* in place as far as there is room for it.
Appended(B, C, n, data) ==
  /\ Shape(C)
  /\ C.size = B.size
  /\ Count(C) = Count(B) + n
  /\ \A d \in (Count(B) + n - B.size)..(Count(B) - 1) :
       C.mem[Cell(C, d)] = B.mem[Cell(B, d)]
  /\ \A d \in Count(B)..(Count(B) + n - 1) :
       C.mem[Cell(C, d)] = data[d - Count(B) + 1]

\* audio_ringbuf_copy_from_linear_impl leaves what waits and puts the data
\* behind it.
LEMMA CopiedInCells ==
  ASSUME NEW B, Shape(B), B.size > 0,
         NEW n \in Nat, Count(B) + n <= B.size - Spare,
         NEW data, \A k \in 1..n : data[k] \in Byte,
         NEW C, C = CopiedIn(B, data, n)
  PROVE  /\ Shape(C)
         /\ C.size = B.size
         /\ C.read = B.read
         /\ Count(C) = Count(B) + n
         /\ \A d \in (Count(B) + n - B.size)..(Count(B) - 1) :
              C.mem[Cell(C, d)] = B.mem[Cell(B, d)]
         /\ \A d \in Count(B)..(Count(B) + n - 1) :
              C.mem[Cell(C, d)] = data[d - Count(B) + 1]
<1> DEFINE w2e == B.size - B.write
           wraps == B.read <= B.write /\ n >= w2e
           newMem == [o \in 0..(B.size - 1) |->
                        IF o - B.write + 1 \in 1..n THEN data[o - B.write + 1]
                        ELSE IF wraps /\ o < n - w2e THEN data[w2e + o + 1]
                        ELSE B.mem[o]]
           newWrite == IF wraps THEN n - w2e ELSE B.write + n
<1>0. /\ B.size \in Nat /\ B.read \in Nat /\ B.write \in Nat
      /\ B.read < B.size /\ B.write < B.size
  BY DEF Shape
<1>1. /\ B.size \in Nat /\ B.read \in Nat /\ B.write \in Nat
      /\ B.read < B.size /\ B.write < B.size
      /\ B.mem \in [0..(B.size - 1) -> Byte]
      /\ DOMAIN B.mem = 0..(B.size - 1)
  BY DEF Shape
<1>2. C = [size |-> B.size, read |-> B.read, write |-> newWrite, mem |-> newMem]
  BY <1>1 DEF CopiedIn, Shape
<1>c. C.size = B.size /\ C.read = B.read /\ C.write = newWrite
  BY <1>2
<1>m. C.mem = newMem
  BY <1>2
<1>3. newMem \in [0..(B.size - 1) -> Byte]
  <2> SUFFICES ASSUME NEW o \in 0..(B.size - 1)
               PROVE  newMem[o] \in Byte
    OBVIOUS
  <2>1. CASE o - B.write + 1 \in 1..n
    BY <2>1
  <2>2. CASE o - B.write + 1 \notin 1..n /\ wraps /\ o < n - w2e
    <3>1. w2e + o + 1 \in 1..n
      BY <1>0, <2>2
    <3> QED
      BY <2>2, <3>1
  <2>3. CASE o - B.write + 1 \notin 1..n /\ ~(wraps /\ o < n - w2e)
    BY <1>1, <2>3
  <2> QED
    BY <2>1, <2>2, <2>3
<1>4. Spare \in Nat \ {0}
  BY RingAssumption
<1>5. newWrite \in 0..(B.size - 1)
  BY <1>0, <1>4 DEF Count
<1>6. Count(C) = Count(B) + n
  BY <1>0, <1>c, <1>4 DEF Count
<1>7. Shape(C)
  BY <1>1, <1>2, <1>3, <1>4, <1>5, <1>6 DEF Shape
<1>8. ASSUME NEW d \in (Count(B) + n - B.size)..(Count(B) - 1)
      PROVE  C.mem[Cell(C, d)] = B.mem[Cell(B, d)]
  <2> DEFINE o == Cell(B, d)
  <2>1. Cell(C, d) = o
    BY <1>c DEF Cell
  <2>2. /\ o \in 0..(B.size - 1)
        /\ o - B.write + 1 \notin 1..n
        /\ ~(wraps /\ o < n - w2e)
    <3>1. CASE B.read <= B.write
      BY <1>0, <1>4, <3>1 DEF Count, Cell
    <3>2. CASE ~(B.read <= B.write)
      BY <1>0, <1>4, <3>2 DEF Count, Cell
    <3> QED
      BY <3>1, <3>2
  <2>3. newMem[o] = B.mem[o]
    BY <2>2
  <2> QED
    BY <1>m, <2>1, <2>3
<1>9. ASSUME NEW d \in Count(B)..(Count(B) + n - 1)
      PROVE  C.mem[Cell(C, d)] = data[d - Count(B) + 1]
  <2> DEFINE o == Cell(B, d)
             k == d - Count(B) + 1
  <2>1. Cell(C, d) = o
    BY <1>c DEF Cell
  <2>2. o \in 0..(B.size - 1) /\ k \in 1..n
    BY <1>0, <1>4 DEF Count, Cell
  <2>3. CASE o - B.write + 1 = k
    BY <1>m, <2>1, <2>2, <2>3
  <2>4. CASE o - B.write + 1 # k
    <3>1. /\ o - B.write + 1 \notin 1..n
          /\ wraps /\ o < n - w2e
          /\ w2e + o + 1 = k
      BY <1>0, <1>4, <2>4 DEF Count, Cell
    <3> QED
      BY <1>m, <2>1, <2>2, <3>1
  <2> QED
    BY <2>3, <2>4
<1> QED
  BY <1>c, <1>6, <1>7, <1>8, <1>9

\* Reading and dropping move the reader on and leave the bytes.
LEMMA ForwardCells ==
  ASSUME NEW B, Shape(B), B.size > 0,
         NEW n \in Nat, n <= Count(B),
         NEW C, C = Moved(B, Forward(B, n))
  PROVE  /\ Shape(C)
         /\ C.size = B.size
         /\ Count(C) = Count(B) - n
         /\ \A d \in (Count(C) - B.size)..(Count(C) - 1) :
              C.mem[Cell(C, d)] = B.mem[Cell(B, d + n)]
<1>1. /\ B.size \in Nat /\ B.read \in Nat /\ B.write \in Nat
      /\ B.read < B.size /\ B.write < B.size
  BY DEF Shape
<1>2. C = [size |-> B.size, read |-> Forward(B, n), write |-> B.write, mem |-> B.mem]
  BY DEF Shape, Moved
<1>3. C.size = B.size /\ C.read = Forward(B, n) /\ C.write = B.write
  BY <1>2
<1>4. C.mem = B.mem
  BY <1>2
<1>5. Forward(B, n) \in 0..(B.size - 1)
  BY <1>1 DEF Count, Forward
<1>6. Count(C) = Count(B) - n
  BY <1>1, <1>3 DEF Count, Forward
<1>7. Count(B) <= B.size - Spare /\ Spare \in Nat \ {0}
  BY RingAssumption DEF Shape
<1>8. Shape(C)
  BY <1>1, <1>2, <1>5, <1>6, <1>7, CountRange DEF Shape
<1>9. ASSUME NEW d \in (Count(C) - B.size)..(Count(C) - 1)
      PROVE  Cell(C, d) = Cell(B, d + n)
  BY <1>1, <1>3, <1>6, <1>7 DEF Count, Forward, Cell
<1> QED
  BY <1>3, <1>4, <1>6, <1>8, <1>9

\* audio_ringbuf_rollback moves the reader back and leaves the bytes.
LEMMA BackwardCells ==
  ASSUME NEW B, Shape(B), B.size > 0,
         NEW n \in Nat, Count(B) + n <= B.size - Spare,
         NEW C, C = Moved(B, Backward(B, n))
  PROVE  /\ Shape(C)
         /\ C.size = B.size
         /\ Count(C) = Count(B) + n
         /\ \A d \in (Count(C) - B.size)..(Count(C) - 1) :
              C.mem[Cell(C, d)] = B.mem[Cell(B, d - n)]
<1>1. /\ B.size \in Nat /\ B.read \in Nat /\ B.write \in Nat
      /\ B.read < B.size /\ B.write < B.size
  BY DEF Shape
<1>2. C = [size |-> B.size, read |-> Backward(B, n), write |-> B.write, mem |-> B.mem]
  BY DEF Shape, Moved
<1>3. C.size = B.size /\ C.read = Backward(B, n) /\ C.write = B.write
  BY <1>2
<1>4. C.mem = B.mem
  BY <1>2
<1>5. Spare \in Nat \ {0}
  BY RingAssumption
<1>6. Backward(B, n) \in 0..(B.size - 1)
  BY <1>1, <1>5 DEF Count, Backward
<1>7. Count(C) = Count(B) + n
  BY <1>1, <1>3, <1>5 DEF Count, Backward
<1>8. Shape(C)
  BY <1>1, <1>2, <1>5, <1>6, <1>7, CountRange DEF Shape
<1>9. ASSUME NEW d \in (Count(C) - B.size)..(Count(C) - 1)
      PROVE  Cell(C, d) = Cell(B, d - n)
  BY <1>1, <1>3, <1>5, <1>7 DEF Count, Backward, Cell
<1> QED
  BY <1>3, <1>4, <1>7, <1>8, <1>9

\* audio_ringbuf_copy_to_linear returns the bytes in the order they wait.
LEMMA CopiedOutCells ==
  ASSUME NEW B, Shape(B), B.size > 0, NEW n \in Nat, n <= Count(B)
  PROVE  CopiedOut(B, n) = [k \in 1..n |-> B.mem[Cell(B, k - 1)]]
<1>1. /\ B.size \in Nat /\ B.read \in Nat /\ B.write \in Nat
      /\ B.read < B.size /\ B.write < B.size
  BY DEF Shape
<1>2. ASSUME NEW k \in 1..n
      PROVE  Cell(B, k - 1) = IF B.read <= B.write \/ k <= B.size - B.read
                              THEN B.read + k - 1 ELSE k - (B.size - B.read) - 1
  BY <1>1 DEF Cell, Count
<1> QED
  BY <1>2 DEF CopiedOut

\* The bytes that wait are bytes.
LEMMA CellIsByte ==
  ASSUME NEW B, Shape(B), NEW d \in 0..(Count(B) - 1)
  PROVE  Cell(B, d) \in 0..(B.size - 1) /\ B.mem[Cell(B, d)] \in Byte
<1>1. B.size \in Nat /\ B.read \in Nat /\ B.write \in Nat
  BY DEF Shape
<1>2. Count(B) \in Nat
  BY CountRange
<1>3. B.size > 0
  BY <1>1, <1>2 DEF Shape, Count
<1>4. B.read < B.size /\ B.write < B.size
  BY <1>3 DEF Shape
<1>5. Cell(B, d) \in 0..(B.size - 1)
  BY <1>1, <1>4 DEF Count, Cell
<1> QED
  BY <1>5 DEF Shape

\* audio_ringbuf_copy_from_ringbuf_impl, whose parts meet the end of either
\* memory anywhere, puts the bytes of S behind those of D in their order.
LEMMA CopiedAcrossCells ==
  ASSUME NEW D, Shape(D), D.size > 0, NEW S, Shape(S), S.size > 0,
         NEW n \in Nat, n <= Count(S), Count(D) + n <= D.size - Spare,
         NEW C, C = CopiedAcross(D, S, n)
  PROVE  /\ Shape(C)
         /\ C.size = D.size
         /\ Count(C) = Count(D) + n
         /\ \A d \in (Count(D) + n - D.size)..(Count(D) - 1) :
              C.mem[Cell(C, d)] = D.mem[Cell(D, d)]
         /\ \A d \in Count(D)..(Count(D) + n - 1) :
              C.mem[Cell(C, d)] = S.mem[Cell(S, d - Count(D))]
<1> DEFINE r2e == S.size - S.read
<1>1. /\ S.size \in Nat /\ S.read \in Nat /\ S.write \in Nat
      /\ S.read < S.size /\ S.write < S.size
  BY DEF Shape
<1>2. Count(D) \in Nat /\ Count(S) \in Nat
  BY CountRange
<1>3. D.size \in Nat /\ Spare \in Nat
  BY RingAssumption DEF Shape
<1>4. CASE S.read <= S.write \/ n <= r2e
  <2> DEFINE data == Linear(S, S.read, n)
  <2>1. ASSUME NEW k \in 1..n
        PROVE  data[k] = S.mem[Cell(S, k - 1)] /\ data[k] \in Byte
    <3>1. Cell(S, k - 1) = S.read + k - 1
      BY <1>1, <1>4 DEF Cell, Count
    <3>2. k - 1 \in 0..(Count(S) - 1)
      BY <1>2
    <3> QED
      BY <3>1, <3>2, CellIsByte DEF Linear
  <2>2. C = CopiedIn(D, data, n)
    BY <1>4 DEF CopiedAcross
  <2> HIDE DEF data
  <2>3. ASSUME NEW d \in Count(D)..(Count(D) + n - 1)
        PROVE  data[d - Count(D) + 1] = S.mem[Cell(S, d - Count(D))]
    <3>1. d - Count(D) + 1 \in 1..n /\ (d - Count(D) + 1) - 1 = d - Count(D)
      BY <1>2
    <3> QED
      BY <2>1, <3>1
  <2> QED
    BY <2>1, <2>2, <2>3, CopiedInCells
<1>5. CASE ~(S.read <= S.write \/ n <= r2e)
  <2> DEFINE first == Linear(S, S.read, r2e)
             rest == Linear(S, 0, n - r2e)
             E == CopiedIn(D, first, r2e)
  <2>1. r2e \in Nat /\ n - r2e \in Nat /\ r2e <= n
    BY <1>1, <1>5
  <2>2. ASSUME NEW k \in 1..r2e
        PROVE  first[k] = S.mem[Cell(S, k - 1)] /\ first[k] \in Byte
    <3>1. Cell(S, k - 1) = S.read + k - 1
      BY <1>1, <2>1 DEF Cell
    <3>2. k - 1 \in 0..(Count(S) - 1)
      BY <1>2, <2>1
    <3> QED
      BY <3>1, <3>2, CellIsByte DEF Linear
  <2>3. ASSUME NEW k \in 1..(n - r2e)
        PROVE  rest[k] = S.mem[Cell(S, r2e + k - 1)] /\ rest[k] \in Byte
    <3>1. Cell(S, r2e + k - 1) = 0 + k - 1
      BY <1>1, <2>1 DEF Cell
    <3>2. r2e + k - 1 \in 0..(Count(S) - 1)
      BY <1>2, <2>1
    <3> QED
      BY <3>1, <3>2, CellIsByte DEF Linear
  <2>4. C = CopiedIn(E, rest, n - r2e)
    BY <1>5 DEF CopiedAcross
  <2> HIDE DEF first, rest, E
  <2>5. /\ Shape(E) /\ E.size = D.size /\ Count(E) = Count(D) + r2e
        /\ \A d \in (Count(D) + r2e - D.size)..(Count(D) - 1) :
             E.mem[Cell(E, d)] = D.mem[Cell(D, d)]
        /\ \A d \in Count(D)..(Count(D) + r2e - 1) :
             E.mem[Cell(E, d)] = first[d - Count(D) + 1]
    <3>1. Count(D) + r2e <= D.size - Spare
      BY <1>2, <1>3, <2>1
    <3> QED
      BY <2>1, <2>2, <3>1, CopiedInCells DEF E
  <2>6. /\ Shape(C) /\ C.size = E.size /\ Count(C) = Count(E) + (n - r2e)
        /\ \A d \in (Count(E) + (n - r2e) - E.size)..(Count(E) - 1) :
             C.mem[Cell(C, d)] = E.mem[Cell(E, d)]
        /\ \A d \in Count(E)..(Count(E) + (n - r2e) - 1) :
             C.mem[Cell(C, d)] = rest[d - Count(E) + 1]
    <3>1. Count(E) + (n - r2e) <= E.size - Spare
      BY <1>2, <1>3, <2>1, <2>5
    <3> QED
      BY <2>1, <2>3, <2>4, <2>5, <3>1, CopiedInCells
  <2>7. Count(C) = Count(D) + n
    BY <1>2, <2>1, <2>5, <2>6
  <2>8. ASSUME NEW d \in (Count(D) + n - D.size)..(Count(D) - 1)
        PROVE  C.mem[Cell(C, d)] = D.mem[Cell(D, d)]
    <3>1. /\ d \in (Count(D) + r2e - D.size)..(Count(D) - 1)
          /\ d \in (Count(E) + (n - r2e) - E.size)..(Count(E) - 1)
      BY <1>2, <1>3, <2>1, <2>5
    <3> QED
      BY <2>5, <2>6, <3>1
  <2>9. ASSUME NEW d \in Count(D)..(Count(D) + n - 1)
        PROVE  C.mem[Cell(C, d)] = S.mem[Cell(S, d - Count(D))]
    <3>1. CASE d < Count(E)
      <4>1. /\ d \in (Count(E) + (n - r2e) - E.size)..(Count(E) - 1)
            /\ d \in Count(D)..(Count(D) + r2e - 1)
            /\ d - Count(D) + 1 \in 1..r2e
            /\ (d - Count(D) + 1) - 1 = d - Count(D)
        BY <1>2, <1>3, <2>1, <2>5, <3>1
      <4> QED
        BY <2>2, <2>5, <2>6, <4>1
    <3>2. CASE ~(d < Count(E))
      <4>1. /\ d \in Count(E)..(Count(E) + (n - r2e) - 1)
            /\ d - Count(E) + 1 \in 1..(n - r2e)
            /\ r2e + (d - Count(E) + 1) - 1 = d - Count(D)
        BY <1>2, <1>3, <2>1, <2>5, <3>2
      <4> QED
        BY <2>3, <2>6, <4>1
    <3> QED
      BY <3>1, <3>2
  <2> QED
    BY <2>5, <2>6, <2>7, <2>8, <2>9
<1> QED
  BY <1>4, <1>5

\* audio_ringbuf_compensate_value_impl puts n bytes v in front.
LEMMA CompensatedCells ==
  ASSUME NEW B, Shape(B), B.size > 0, NEW v \in Byte,
         NEW n \in Nat, Count(B) + n <= B.size - Spare,
         NEW C, C = Compensated(B, v, n)
  PROVE  /\ Shape(C)
         /\ C.size = B.size
         /\ Count(C) = Count(B) + n
         /\ \A d \in (Count(C) - B.size)..(Count(C) - 1) :
              C.mem[Cell(C, d)] = IF d \in 0..(n - 1) THEN v
                                  ELSE B.mem[Cell(B, d - n)]
<1>0. PICK M : M = Moved(B, Backward(B, n))
  OBVIOUS
<1> DEFINE wraps == B.read <= B.write /\ B.read < n
           filled == IF wraps
                     THEN 0..(B.read - 1) \union (B.size - (n - B.read))..(B.size - 1)
                     ELSE (B.read - n)..(B.read - 1)
           newMem == [o \in 0..(B.size - 1) |-> IF o \in filled THEN v ELSE B.mem[o]]
<1>1. /\ B.size \in Nat /\ B.read \in Nat /\ B.write \in Nat
      /\ B.read < B.size /\ B.write < B.size
  BY DEF Shape
<1>2. Spare \in Nat \ {0}
  BY RingAssumption
<1>3. /\ Shape(M) /\ M.size = B.size /\ Count(M) = Count(B) + n
      /\ \A d \in (Count(M) - B.size)..(Count(M) - 1) :
           M.mem[Cell(M, d)] = B.mem[Cell(B, d - n)]
  BY <1>0, BackwardCells
<1>4. M = [size |-> B.size, read |-> Backward(B, n), write |-> B.write, mem |-> B.mem]
  BY <1>0 DEF Shape, Moved
<1>5. DOMAIN B.mem = 0..(B.size - 1)
  BY DEF Shape
<1>6. C = [size |-> B.size, read |-> Backward(B, n), write |-> B.write, mem |-> newMem]
  BY <1>5 DEF Compensated, Shape
<1>7. /\ M.size = B.size /\ M.read = Backward(B, n) /\ M.write = B.write
      /\ C.size = B.size /\ C.read = Backward(B, n) /\ C.write = B.write
  BY <1>4, <1>6
<1>8. M.mem = B.mem /\ C.mem = newMem
  BY <1>4, <1>6
<1>9. newMem \in [0..(B.size - 1) -> Byte]
  BY DEF Shape
<1>10. Count(C) = Count(M)
  BY <1>7 DEF Count
<1>11. Shape(C)
  <2>1. M.read < M.size /\ M.read \in Nat /\ Count(M) <= M.size - Spare
    BY <1>1, <1>3 DEF Shape
  <2> QED
    BY <1>1, <1>3, <1>6, <1>7, <1>8, <1>9, <1>10, <2>1 DEF Shape
<1>12. ASSUME NEW d \in (Count(C) - B.size)..(Count(C) - 1)
       PROVE  C.mem[Cell(C, d)] = IF d \in 0..(n - 1) THEN v
                                  ELSE B.mem[Cell(B, d - n)]
  <2> DEFINE o == Cell(C, d)
  <2>1. Cell(M, d) = o
    BY <1>7 DEF Cell
  <2>2. o \in 0..(B.size - 1) /\ (o \in filled <=> d \in 0..(n - 1))
    <3>1. CASE wraps
      BY <1>1, <1>2, <1>3, <1>7, <1>10, <3>1 DEF Count, Cell, Backward
    <3>2. CASE ~wraps /\ B.read <= B.write
      <4>1. Backward(B, n) = B.read - n /\ n <= B.read
        BY <1>1, <3>2 DEF Backward
      <4>2. Count(B) = B.write - B.read
        BY <1>1, <3>2 DEF Count
      <4>3. /\ d \in Int
            /\ B.write - B.read + n - B.size <= d /\ d < B.write - B.read + n
        BY <1>1, <1>3, <1>10, <4>2
      <4>4. o = IF B.read - n + d < 0 THEN B.read - n + d + B.size
                ELSE IF B.read - n + d >= B.size THEN B.read - n + d - B.size
                ELSE B.read - n + d
        BY <1>7, <4>1 DEF Cell
      <4>5. filled = (B.read - n)..(B.read - 1)
        BY <3>2
      <4>6. n <= B.read /\ B.read <= B.write
        BY <3>2, <4>1
      <4> HIDE DEF filled, o, wraps
      <4>7. CASE B.read - n + d < 0
        <5>1. o = B.read - n + d + B.size
          BY <4>4, <4>7
        <5>2. B.write <= o /\ o < B.size /\ o \in Int
          BY <1>1, <4>3, <4>7, <5>1
        <5>3. d < 0 /\ o \notin (B.read - n)..(B.read - 1)
          BY <1>1, <4>3, <4>6, <4>7, <5>2
        <5> QED
          BY <1>1, <4>3, <4>5, <5>2, <5>3
      <4>8. CASE ~(B.read - n + d < 0)
        <5>1. o = B.read - n + d
          BY <1>1, <4>3, <4>4, <4>6, <4>8
        <5>2. o \in 0..(B.size - 1)
          BY <1>1, <4>3, <4>6, <4>8, <5>1
        <5>3. o \in filled <=> B.read - n <= o /\ o <= B.read - 1
          BY <1>1, <4>5, <5>2
        <5>4. d \in 0..(n - 1) <=> B.read - n <= o /\ o <= B.read - 1
          BY <1>1, <4>3, <5>1
        <5> QED
          BY <5>2, <5>3, <5>4
      <4> QED
        BY <4>7, <4>8
    <3>3. CASE ~(B.read <= B.write)
      BY <1>1, <1>2, <1>3, <1>7, <1>10, <3>3 DEF Count, Cell, Backward
    <3> QED
      BY <3>1, <3>2, <3>3
  <2> HIDE DEF o, filled
  <2>3. M.mem[o] = B.mem[Cell(B, d - n)]
    BY <1>3, <1>10, <2>1
  <2> QED
    BY <1>8, <2>2, <2>3 DEF o
<1> QED
  BY <1>3, <1>7, <1>10, <1>11, <1>12

\* AUDIO_ALLOC_CHAR_BUFFER of more than the spare bytes is an empty buffer.
LEMMA AllocatedShape ==
  ASSUME NEW c \in Nat, c > 0, NEW B, B = Allocated(c + Spare)
  PROVE  Shape(B) /\ B.size = c + Spare /\ Count(B) = 0
<1>1. Spare \in Nat \ {0}
  BY RingAssumption
<1>2. [o \in 0..((c + Spare) - 1) |-> Zero] \in [0..((c + Spare) - 1) -> Byte]
  BY RingAssumption
<1>3. /\ B = [size |-> c + Spare, read |-> 0, write |-> 0,
               mem |-> [o \in 0..((c + Spare) - 1) |-> Zero]]
  BY DEF Allocated
<1>4. B.size = c + Spare /\ B.read = 0 /\ B.write = 0
  BY DEF Allocated
<1>5. B.mem = [o \in 0..((c + Spare) - 1) |-> Zero]
  BY DEF Allocated
<1>6. Count(B) = 0
  BY <1>4 DEF Count
<1> QED
  BY <1>1, <1>2, <1>3, <1>4, <1>5, <1>6 DEF Shape

\* dynamic_change_ring_buf_size ends with room for w bytes, however full or
\* empty the buffer was, and keeps the bytes that wait.
LEMMA ResizedCells ==
  ASSUME NEW B, Shape(B), NEW w \in Nat \ {0}, NEW C \in Resized(B, w)
  PROVE  /\ Shape(C) /\ C.size > 0
         /\ Count(C) = Count(B)
         /\ w <= FreeSpace(C)
         /\ \A d \in 0..(Count(B) - 1) : C.mem[Cell(C, d)] = B.mem[Cell(B, d)]
         /\ ~Changes(B, w) => C = B
<1> DEFINE n == Count(B)
           free == FreeSpace(B)
<1>1. Spare \in Nat \ {0} /\ B.size \in Nat /\ n \in Nat /\ free \in Nat
  BY RingAssumption, CountRange DEF Shape
<1>2. CASE B.size = 0
  <2>1. C = Allocated(2 * w + Spare)
    BY <1>2 DEF Resized
  <2>2. 2 * w \in Nat /\ 2 * w > 0
    OBVIOUS
  <2>3. Shape(C) /\ C.size = 2 * w + Spare /\ Count(C) = 0
    BY <2>1, <2>2, AllocatedShape
  <2>4. Count(B) = 0
    BY <1>2 DEF Shape, Count
  <2>5. w <= FreeSpace(C)
    BY <1>1, <2>3 DEF FreeSpace
  <2> QED
    BY <1>1, <1>2, <2>3, <2>4, <2>5 DEF Changes
<1>3. ASSUME B.size > 0, NEW c \in Nat, c - n >= w, C = Reallocated(B, c)
      PROVE  /\ Shape(C) /\ C.size > 0 /\ Count(C) = Count(B) /\ w <= FreeSpace(C)
             /\ \A d \in 0..(Count(B) - 1) : C.mem[Cell(C, d)] = B.mem[Cell(B, d)]
  <2>1. PICK A : A = Allocated(c + Spare)
    OBVIOUS
  <2>2. Shape(A) /\ A.size = c + Spare /\ Count(A) = 0
    BY <1>1, <1>3, <2>1, AllocatedShape
  <2>3. A.size > 0 /\ n <= Count(B) /\ Count(A) + n <= A.size - Spare
    BY <1>1, <1>3, <2>2
  <2>4. C = CopiedAcross(A, B, n)
    BY <1>3, <2>1 DEF Reallocated
  <2>5. /\ Shape(C) /\ C.size = A.size /\ Count(C) = Count(A) + n
        /\ \A d \in Count(A)..(Count(A) + n - 1) :
             C.mem[Cell(C, d)] = B.mem[Cell(B, d - Count(A))]
    BY <1>1, <1>3, <2>2, <2>3, <2>4, CopiedAcrossCells
  <2>6. Count(C) = n /\ C.size = c + Spare
    BY <1>1, <2>2, <2>5
  <2>7. w <= FreeSpace(C) /\ C.size > 0
    BY <1>1, <1>3, <2>6 DEF FreeSpace
  <2>8. ASSUME NEW d \in 0..(Count(B) - 1)
        PROVE  C.mem[Cell(C, d)] = B.mem[Cell(B, d)]
    <3>1. d \in Count(A)..(Count(A) + n - 1) /\ d - Count(A) = d
      BY <1>1, <2>2
    <3> QED
      BY <2>5, <3>1
  <2> QED
    BY <2>5, <2>6, <2>7, <2>8
<1>4. CASE B.size > 0 /\ free < w
  <2>1. PICK c \in Doubled(n + free, n, w) : C = Reallocated(B, c)
    BY <1>4 DEF Resized
  <2>2. PICK x \in (n + free)..(n + w) : c = 2 * x /\ 2 * x - n >= w
    BY <2>1 DEF Doubled
  <2>3. c \in Nat /\ c - n >= w
    BY <1>1, <2>2
  <2> QED
    BY <1>3, <1>4, <2>1, <2>3 DEF Changes
<1>5. CASE B.size > 0 /\ ~(free < w) /\ free > 8 * (n + w)
  <2>1. PICK c \in Halved(n + free, n, w) : C = Reallocated(B, c)
    BY <1>5 DEF Resized
  <2>2. PICK x \in 0..(n + free) : c = x \div 2 /\ x - n > 8 * (n + w)
    BY <2>1 DEF Halved
  <2>3. c \in Nat /\ c - n >= w
    BY <1>1, <2>2
  <2> QED
    BY <1>3, <1>5, <2>1, <2>3 DEF Changes
<1>6. CASE B.size > 0 /\ ~(free < w) /\ ~(free > 8 * (n + w))
  <2>1. C = B
    BY <1>6 DEF Resized
  <2> QED
    BY <1>1, <1>6, <2>1
<1> QED
  BY <1>1, <1>2, <1>4, <1>5, <1>6

-----------------------------------------------------------------------------
(* The buffers and the tapes.                                              *)

Places == (-Behind)..(Ahead - 1)

Marks(h, t, k) ==
  /\ h \in Int /\ t \in Int /\ k \in Int
  /\ -Behind <= k /\ k <= h /\ h <= t /\ t <= Ahead

\* B is a FIFO with tape T and marks h, t, k.
Holds(B, h, t, k, T) ==
  /\ Shape(B)
  /\ Count(B) = t - h
  /\ \A i \in k..(t - 1) : i >= t - B.size => T[i] = B.mem[Cell(B, i - h)]

LEMMA AppendHolds ==
  ASSUME NEW h, NEW t, NEW k, Marks(h, t, k), NEW B, NEW T, Holds(B, h, t, k, T),
         NEW n \in Nat, t + n <= Ahead, NEW data, NEW C, Appended(B, C, n, data),
         NEW W, W = [j \in Places |-> IF j - t + 1 \in 1..n THEN data[j - t + 1] ELSE T[j]]
  PROVE  Marks(h, t + n, k) /\ Holds(C, h, t + n, k, W)
<1>1. /\ h \in Int /\ t \in Int /\ k \in Int /\ Behind \in Nat /\ Ahead \in Nat
      /\ -Behind <= k /\ k <= h /\ h <= t /\ t <= Ahead
  BY RingAssumption DEF Marks
<1>2. B.size \in Nat /\ Count(B) = t - h /\ C.size = B.size /\ Shape(C)
  BY DEF Holds, Shape, Appended
<1>3. Count(C) = (t + n) - h
  BY <1>1, <1>2 DEF Appended
<1>4. ASSUME NEW i \in k..((t + n) - 1), i >= (t + n) - C.size
      PROVE  W[i] = C.mem[Cell(C, i - h)]
  <2>1. i \in Places
    BY <1>1 DEF Places
  <2>2. CASE i >= t
    <3>1. i - h \in Count(B)..(Count(B) + n - 1) /\ (i - h) - Count(B) + 1 = i - t + 1
      BY <1>1, <1>2, <2>2
    <3>2. C.mem[Cell(C, i - h)] = data[i - t + 1]
      BY <3>1 DEF Appended
    <3>3. i - t + 1 \in 1..n
      BY <1>1, <2>2
    <3> QED
      BY <2>1, <3>2, <3>3
  <2>3. CASE i < t
    <3>1. /\ i - h \in (Count(B) + n - B.size)..(Count(B) - 1)
          /\ i \in k..(t - 1) /\ i >= t - B.size /\ i - t + 1 \notin 1..n
      BY <1>1, <1>2, <1>4, <2>3
    <3>2. C.mem[Cell(C, i - h)] = B.mem[Cell(B, i - h)]
      BY <3>1 DEF Appended
    <3>3. T[i] = B.mem[Cell(B, i - h)]
      BY <3>1 DEF Holds
    <3> QED
      BY <2>1, <3>1, <3>2, <3>3
  <2> QED
    BY <1>1, <2>2, <2>3
<1>5. Marks(h, t + n, k)
  BY <1>1 DEF Marks
<1> QED
  BY <1>2, <1>3, <1>4, <1>5 DEF Holds

LEMMA ResizeHolds ==
  ASSUME NEW h, NEW t, NEW k, Marks(h, t, k), NEW B, NEW T, Holds(B, h, t, k, T),
         NEW w \in Nat \ {0}, NEW C \in Resized(B, w),
         NEW l, l = IF Changes(B, w) THEN h ELSE k
  PROVE  /\ Marks(h, t, l) /\ Holds(C, h, t, l, T)
         /\ C.size > 0 /\ w <= FreeSpace(C) /\ Count(C) + w <= C.size - Spare
<1>1. /\ h \in Int /\ t \in Int /\ k \in Int /\ Behind \in Nat /\ Ahead \in Nat
      /\ -Behind <= k /\ k <= h /\ h <= t /\ t <= Ahead
  BY RingAssumption DEF Marks
<1>2. Shape(B) /\ Count(B) = t - h
  BY DEF Holds
<1>3. /\ Shape(C) /\ C.size > 0 /\ Count(C) = Count(B) /\ w <= FreeSpace(C)
      /\ \A d \in 0..(Count(B) - 1) : C.mem[Cell(C, d)] = B.mem[Cell(B, d)]
      /\ ~Changes(B, w) => C = B
  BY <1>2, ResizedCells
<1>4. Count(C) + w <= C.size - Spare
  BY <1>3, CountRange
<1>5. Marks(h, t, l)
  BY <1>1 DEF Marks
<1>6. CASE Changes(B, w)
  <2>1. B.size \in Nat /\ t - B.size <= h
    <3>1. Spare \in Nat /\ B.size \in Nat /\ (B.size = 0 => Count(B) = 0)
      BY <1>2, RingAssumption DEF Shape, Count
    <3>2. B.size > 0 => Count(B) <= B.size - Spare
      BY <1>2 DEF Shape
    <3> QED
      BY <1>1, <1>2, <3>1, <3>2
  <2>2. ASSUME NEW i \in l..(t - 1)
        PROVE  T[i] = C.mem[Cell(C, i - h)]
    <3>1. i \in k..(t - 1) /\ i >= t - B.size /\ i - h \in 0..(Count(B) - 1)
      BY <1>1, <1>2, <1>6, <2>1
    <3> QED
      BY <1>3, <3>1 DEF Holds
  <2> QED
    BY <1>2, <1>3, <1>4, <1>5, <2>2 DEF Holds
<1>7. CASE ~Changes(B, w)
  BY <1>3, <1>4, <1>5, <1>7
<1> QED
  BY <1>6, <1>7

LEMMA ForwardHolds ==
  ASSUME NEW h, NEW t, NEW k, Marks(h, t, k), NEW B, NEW T, Holds(B, h, t, k, T),
         B.size > 0, NEW n \in Nat, n <= Count(B)
  PROVE  Marks(h + n, t, k) /\ Holds(Moved(B, Forward(B, n)), h + n, t, k, T)
<1>1. /\ h \in Int /\ t \in Int /\ k \in Int
      /\ k <= h /\ h <= t
  BY DEF Marks
<1>2. PICK C : C = Moved(B, Forward(B, n))
  OBVIOUS
<1>3. Shape(B) /\ Count(B) = t - h /\ B.size \in Nat
  BY DEF Holds, Shape
<1>4. /\ Shape(C) /\ C.size = B.size /\ Count(C) = Count(B) - n
      /\ \A d \in (Count(C) - B.size)..(Count(C) - 1) :
           C.mem[Cell(C, d)] = B.mem[Cell(B, d + n)]
  BY <1>2, <1>3, ForwardCells
<1>5. ASSUME NEW i \in k..(t - 1), i >= t - C.size
      PROVE  T[i] = C.mem[Cell(C, i - (h + n))]
  <2>1. /\ i - (h + n) \in (Count(C) - B.size)..(Count(C) - 1)
        /\ (i - (h + n)) + n = i - h
    BY <1>1, <1>3, <1>4, <1>5
  <2>2. C.mem[Cell(C, i - (h + n))] = B.mem[Cell(B, i - h)]
    BY <1>4, <2>1
  <2> QED
    BY <1>4, <1>5, <2>2 DEF Holds
<1>6. Marks(h + n, t, k) /\ Count(C) = t - (h + n)
  BY <1>1, <1>3, <1>4 DEF Marks
<1> QED
  BY <1>2, <1>4, <1>5, <1>6 DEF Holds

LEMMA BackwardHolds ==
  ASSUME NEW h, NEW t, NEW k, Marks(h, t, k), NEW B, NEW T, Holds(B, h, t, k, T),
         B.size > 0, NEW n \in Nat, Count(B) + n <= B.size - Spare, k <= h - n
  PROVE  Marks(h - n, t, k) /\ Holds(Moved(B, Backward(B, n)), h - n, t, k, T)
<1>1. /\ h \in Int /\ t \in Int /\ k \in Int
      /\ k <= h /\ h <= t
  BY DEF Marks
<1>2. PICK C : C = Moved(B, Backward(B, n))
  OBVIOUS
<1>3. Shape(B) /\ Count(B) = t - h /\ B.size \in Nat
  BY DEF Holds, Shape
<1>4. /\ Shape(C) /\ C.size = B.size /\ Count(C) = Count(B) + n
      /\ \A d \in (Count(C) - B.size)..(Count(C) - 1) :
           C.mem[Cell(C, d)] = B.mem[Cell(B, d - n)]
  BY <1>2, <1>3, BackwardCells
<1>5. ASSUME NEW i \in k..(t - 1), i >= t - C.size
      PROVE  T[i] = C.mem[Cell(C, i - (h - n))]
  <2>1. /\ i - (h - n) \in (Count(C) - B.size)..(Count(C) - 1)
        /\ (i - (h - n)) - n = i - h
    BY <1>1, <1>3, <1>4, <1>5
  <2>2. C.mem[Cell(C, i - (h - n))] = B.mem[Cell(B, i - h)]
    BY <1>4, <2>1
  <2> QED
    BY <1>4, <1>5, <2>2 DEF Holds
<1>6. Marks(h - n, t, k) /\ Count(C) = t - (h - n)
  BY <1>1, <1>3, <1>4 DEF Marks
<1> QED
  BY <1>2, <1>4, <1>5, <1>6 DEF Holds

LEMMA CompensateHolds ==
  ASSUME NEW h, NEW t, NEW k, Marks(h, t, k), NEW B, NEW T, Holds(B, h, t, k, T),
         B.size > 0, NEW n \in Nat, Count(B) + n <= B.size - Spare,
         -Behind <= h - n, NEW v \in Byte, NEW l, l = IF h - n < k THEN h - n ELSE k,
         NEW W, W = [j \in Places |-> IF j - (h - n) + 1 \in 1..n THEN v ELSE T[j]]
  PROVE  Marks(h - n, t, l) /\ Holds(Compensated(B, v, n), h - n, t, l, W)
<1>1. /\ h \in Int /\ t \in Int /\ k \in Int /\ Behind \in Nat /\ Ahead \in Nat
      /\ -Behind <= k /\ k <= h /\ h <= t /\ t <= Ahead
  BY RingAssumption DEF Marks
<1>2. PICK C : C = Compensated(B, v, n)
  OBVIOUS
<1>3. Shape(B) /\ Count(B) = t - h /\ B.size \in Nat
  BY DEF Holds, Shape
<1>4. /\ Shape(C) /\ C.size = B.size /\ Count(C) = Count(B) + n
      /\ \A d \in (Count(C) - B.size)..(Count(C) - 1) :
           C.mem[Cell(C, d)] = IF d \in 0..(n - 1) THEN v ELSE B.mem[Cell(B, d - n)]
  BY <1>2, <1>3, CompensatedCells
<1>5. ASSUME NEW i \in l..(t - 1), i >= t - C.size
      PROVE  W[i] = C.mem[Cell(C, i - (h - n))]
  <2>1. /\ i - (h - n) \in (Count(C) - B.size)..(Count(C) - 1)
        /\ (i - (h - n)) - n = i - h
        /\ i \in Places
        /\ i - (h - n) + 1 \in 1..n <=> i - (h - n) \in 0..(n - 1)
    BY <1>1, <1>3, <1>4, <1>5 DEF Places
  <2>2. CASE i - (h - n) \in 0..(n - 1)
    BY <1>4, <2>1, <2>2
  <2>3. CASE i - (h - n) \notin 0..(n - 1)
    <3>1. i \in k..(t - 1) /\ i >= t - B.size
      BY <1>1, <1>4, <1>5, <2>3
    <3>2. C.mem[Cell(C, i - (h - n))] = B.mem[Cell(B, i - h)]
      BY <1>4, <2>1, <2>3
    <3>3. T[i] = B.mem[Cell(B, i - h)]
      BY <3>1 DEF Holds
    <3>4. W[i] = T[i]
      BY <2>1, <2>3
    <3> QED
      BY <3>2, <3>3, <3>4
  <2> QED
    BY <2>2, <2>3
<1>6. Marks(h - n, t, l) /\ Count(C) = t - (h - n)
  BY <1>1, <1>3, <1>4 DEF Marks
<1> QED
  BY <1>2, <1>4, <1>5, <1>6 DEF Holds

\* What a FIFO returns is what its tape has from the head on.
LEMMA ReadHolds ==
  ASSUME NEW h, NEW t, NEW k, Marks(h, t, k), NEW B, NEW T, Holds(B, h, t, k, T),
         B.size > 0, NEW n \in Nat, n <= Count(B), NEW j \in 1..n
  PROVE  /\ B.mem[Cell(B, j - 1)] = T[h + j - 1]
         /\ B.mem[Cell(B, j - 1)] \in Byte
<1>1. /\ h \in Int /\ t \in Int /\ k \in Int
      /\ k <= h /\ h <= t
  BY DEF Marks
<1>2. Shape(B) /\ Count(B) = t - h /\ B.size \in Nat /\ Count(B) <= B.size - Spare
  BY DEF Holds, Shape
<1>3. Spare \in Nat
  BY RingAssumption
<1>4. /\ h + j - 1 \in k..(t - 1) /\ h + j - 1 >= t - B.size
      /\ (h + j - 1) - h = j - 1 /\ j - 1 \in 0..(Count(B) - 1)
  BY <1>1, <1>2, <1>3
<1>5. T[h + j - 1] = B.mem[Cell(B, j - 1)]
  BY <1>4 DEF Holds
<1> QED
  BY <1>2, <1>4, <1>5, CellIsByte

-----------------------------------------------------------------------------
(* The invariant, and one lemma per call: it keeps the invariant and is a  *)
(* step of the FIFO.                                                       *)

Good(r) == /\ Marks(head[r], tail[r], kept[r])
           /\ Holds(rb[r], head[r], tail[r], kept[r], tape[r])

Types ==
  /\ setup \in Setups
  /\ rb = [r \in Rings |-> rb[r]]
  /\ tape \in [Rings -> [Places -> Byte]]
  /\ head \in [Rings -> Int]
  /\ tail \in [Rings -> Int]
  /\ kept \in [Rings -> Int]
  /\ result \in Seq(Byte)

Inv == Types /\ \A r \in Rings : Good(r)

\* What a write may put: see the instance F.
Data == Chunks \union {Repeat(Value, n) : n \in Counts}

LEMMA DataIsBytes ==
  ASSUME NEW data \in Data
  PROVE  /\ data \in Seq(Byte) /\ Len(data) \in Nat \ {0}
         /\ data \in [1..Len(data) -> Byte]
<1>1. CASE data \in Chunks
  <2>1. data \in Seq(Byte) /\ data # <<>>
    BY <1>1, RingAssumption
  <2> QED
    BY <2>1, LenProperties, EmptySeq
<1>2. CASE data \in {Repeat(Value, n) : n \in Counts}
  <2>1. PICK n \in Counts : data = [k \in 1..n |-> Value]
    BY <1>2 DEF Repeat
  <2>2. n \in Nat \ {0} /\ data \in [1..n -> Byte]
    BY <2>1, RingAssumption
  <2>3. data \in Seq(Byte)
    BY <2>2, SeqDef
  <2>4. Len(data) \in Nat /\ DOMAIN data = 1..Len(data) /\ DOMAIN data = 1..n
    BY <2>2, <2>3, LenProperties
  <2>5. Len(data) = n
    BY <2>2, <2>4
  <2> QED
    BY <2>2, <2>3, <2>5
<1> QED
  BY <1>1, <1>2 DEF Data

LEMMA RepeatIsData ==
  ASSUME NEW n \in Counts
  PROVE  Repeat(Value, n) \in Data /\ Len(Repeat(Value, n)) = n
<1>1. PICK data : data = Repeat(Value, n)
  OBVIOUS
<1>2. data \in Data
  BY <1>1 DEF Data
<1>3. Len(data) \in Nat \ {0} /\ DOMAIN data = 1..Len(data)
  BY <1>2, DataIsBytes
<1>4. DOMAIN data = 1..n /\ n \in Nat \ {0}
  BY <1>1, RingAssumption DEF Repeat
<1>5. n \in 1..Len(data) /\ Len(data) \in 1..n
  BY <1>3, <1>4
<1>6. Len(data) = n
  <2>1. n <= Len(data) /\ Len(data) <= n
    BY <1>5
  <2>2. n \in Int /\ Len(data) \in Int
    BY <1>3, <1>4
  <2> QED
    BY <2>1, <2>2
<1> QED
  BY <1>1, <1>2, <1>6

\* The tape of one buffer after a write of n bytes at place i is as typed.
LEMMA WrittenType ==
  ASSUME NEW T \in [Places -> Byte], NEW i \in Int, NEW n \in Nat,
         NEW data, \A k \in 1..n : data[k] \in Byte
  PROVE  [j \in Places |-> IF j - i + 1 \in 1..n THEN data[j - i + 1] ELSE T[j]]
           \in [Places -> Byte]
OBVIOUS

\* A call on one buffer.
LEMMA OneBuffer ==
  ASSUME Inv, NEW r \in Rings, NEW C, NEW h, NEW t, NEW k, NEW W \in [Places -> Byte],
         Marks(h, t, k), Holds(C, h, t, k, W),
         rb' = [rb EXCEPT ![r] = C], tape' = [tape EXCEPT ![r] = W],
         head' = [head EXCEPT ![r] = h], tail' = [tail EXCEPT ![r] = t],
         kept' = [kept EXCEPT ![r] = k], setup' = setup, result' \in Seq(Byte)
  PROVE  Inv'
<1>1. h \in Int /\ t \in Int /\ k \in Int
  BY DEF Marks
<1>2. Types'
  BY <1>1 DEF Inv, Types
<1>3. ASSUME NEW q \in Rings
      PROVE  Good(q)'
  <2>1. CASE q = r
    BY <2>1 DEF Inv, Types, Good
  <2>2. CASE q # r
    <3>1. /\ rb'[q] = rb[q] /\ tape'[q] = tape[q] /\ head'[q] = head[q]
          /\ tail'[q] = tail[q] /\ kept'[q] = kept[q]
      BY <2>2 DEF Inv, Types
    <3> QED
      BY <3>1 DEF Inv, Good
  <2> QED
    BY <2>1, <2>2
<1> QED
  BY <1>2, <1>3 DEF Inv

FNext == F!Next

LEMMA PutStep ==
  ASSUME NEW r \in Rings, NEW data \in Data, F!Put(r, data)
  PROVE  FNext
BY DEF FNext, F!Next, Data

\* audio_ringbuf_copy_from_linear, audio_ringbuf_write_value: never refused.
LEMMA StoreStep ==
  ASSUME Inv, NEW r \in Rings, NEW data \in Data, NEW n, n = Len(data),
         Store(r, data, n), setup' = setup
  PROVE  Inv' /\ FNext
<1> DEFINE t == tail[r] + n
           W == [j \in Places |-> IF j - tail[r] + 1 \in 1..n
                                  THEN data[j - tail[r] + 1] ELSE tape[r][j]]
           k == IF Changes(rb[r], n) THEN head[r] ELSE kept[r]
<1>1. /\ n \in Nat \ {0} /\ data \in [1..n -> Byte]
      /\ \A m \in 1..n : data[m] \in Byte
  BY DataIsBytes
<1>2. /\ Marks(head[r], tail[r], kept[r])
      /\ Holds(rb[r], head[r], tail[r], kept[r], tape[r])
      /\ tape[r] \in [Places -> Byte] /\ tail[r] \in Int
  BY DEF Inv, Good, Types
<1>3. t <= Ahead
  <2>1. setup \in [calls : [Rings -> SUBSET Calls], ahead : 0..Ahead]
    BY RingAssumption DEF Inv, Types
  <2> QED
    BY <1>1, <1>2, <2>1, RingAssumption DEF Store
<1>4. PICK B \in Resized(rb[r], n) :
        IF n > FreeSpace(B)
        THEN rb' = [rb EXCEPT ![r] = B] /\ Refuse
        ELSE /\ rb' = [rb EXCEPT ![r] = CopiedIn(B, data, n)]
             /\ tape' = [tape EXCEPT ![r] = F!Written(r, tail[r], data)]
             /\ tail' = [tail EXCEPT ![r] = @ + n]
             /\ Forgets(r, n)
             /\ result' = <<>>
             /\ UNCHANGED head
  BY DEF Store
<1>5. /\ Marks(head[r], tail[r], k) /\ Holds(B, head[r], tail[r], k, tape[r])
      /\ B.size > 0 /\ n <= FreeSpace(B) /\ Count(B) + n <= B.size - Spare
  BY <1>1, <1>2, ResizeHolds
<1>6. /\ rb' = [rb EXCEPT ![r] = CopiedIn(B, data, n)]
      /\ tape' = [tape EXCEPT ![r] = F!Written(r, tail[r], data)]
      /\ tail' = [tail EXCEPT ![r] = @ + n]
      /\ Forgets(r, n)
      /\ result' = <<>>
      /\ UNCHANGED head
  <2>1. FreeSpace(B) \in Nat
    BY <1>5, CountRange DEF Holds
  <2> QED
    BY <1>1, <1>4, <1>5, <2>1
<1>7. F!Written(r, tail[r], data) = W
  BY <1>1 DEF F!Written, F!Places, Places
<1>8. Appended(B, CopiedIn(B, data, n), n, data)
  BY <1>1, <1>5, CopiedInCells DEF Appended, Holds
<1>9. W \in [Places -> Byte]
  BY <1>1, <1>2, WrittenType
<1> HIDE DEF W
<1>10. Marks(head[r], t, k) /\ Holds(CopiedIn(B, data, n), head[r], t, k, W)
  BY <1>1, <1>3, <1>5, <1>8, AppendHolds DEF W
<1>11. kept' = [kept EXCEPT ![r] = k]
  BY <1>6 DEF Forgets, Inv, Types
<1>12. head' = [head EXCEPT ![r] = head[r]]
  BY <1>6 DEF Inv, Types
<1>13. Inv'
  BY <1>6, <1>7, <1>9, <1>10, <1>11, <1>12, EmptySeq, OneBuffer
<1>14. F!Put(r, data)
  BY <1>3, <1>6 DEF F!Put, F!MayForget, Forgets
<1> QED
  BY <1>13, <1>14, PutStep

LEMMA CopyFromLinearStep ==
  ASSUME Inv, NEW r \in Rings, CopyFromLinear(r)
  PROVE  Inv' /\ FNext
BY StoreStep DEF CopyFromLinear, MayCall, Data

LEMMA WriteValueStep ==
  ASSUME Inv, NEW r \in Rings, WriteValue(r)
  PROVE  Inv' /\ FNext
BY StoreStep, RepeatIsData DEF WriteValue, MayCall

LEMMA CopyFromLinearImplStep ==
  ASSUME Inv, NEW r \in Rings, CopyFromLinearImpl(r)
  PROVE  Inv' /\ FNext
<1>1. PICK data \in Chunks :
        /\ rb[r].size > 0
        /\ Len(data) <= FreeSpace(rb[r])
        /\ tail[r] + Len(data) <= setup.ahead
        /\ rb' = [rb EXCEPT ![r] = CopiedIn(rb[r], data, Len(data))]
        /\ tape' = [tape EXCEPT ![r] = F!Written(r, tail[r], data)]
        /\ tail' = [tail EXCEPT ![r] = @ + Len(data)]
        /\ result' = <<>>
        /\ UNCHANGED <<head, kept>>
        /\ setup' = setup
  BY DEF CopyFromLinearImpl, MayCall
<1> DEFINE n == Len(data)
           t == tail[r] + n
           W == [j \in Places |-> IF j - tail[r] + 1 \in 1..n
                                  THEN data[j - tail[r] + 1] ELSE tape[r][j]]
<1>2. data \in Data
  BY DEF Data
<1>3. /\ n \in Nat \ {0} /\ data \in [1..n -> Byte]
      /\ \A m \in 1..n : data[m] \in Byte
  BY <1>2, DataIsBytes
<1>4. /\ Marks(head[r], tail[r], kept[r])
      /\ Holds(rb[r], head[r], tail[r], kept[r], tape[r])
      /\ tape[r] \in [Places -> Byte] /\ tail[r] \in Int
  BY DEF Inv, Good, Types
<1> HIDE DEF n
<1>5. t <= Ahead
  <2>1. setup \in [calls : [Rings -> SUBSET Calls], ahead : 0..Ahead]
    BY RingAssumption DEF Inv, Types
  <2> QED
    BY <1>1, <1>3, <1>4, <2>1, RingAssumption DEF n
<1>6. /\ Shape(rb[r]) /\ rb[r].size > 0
      /\ Count(rb[r]) + n <= rb[r].size - Spare
  <2>1. n <= FreeSpace(rb[r]) /\ rb[r].size > 0
    BY <1>1 DEF n
  <2>2. Shape(rb[r])
    BY <1>4 DEF Holds
  <2>3. \A m \in Nat : m > 0 /\ m <= FreeSpace(rb[r]) =>
          Count(rb[r]) + m <= rb[r].size - Spare
    BY <2>2, CountRange
  <2>4. n \in Nat /\ n > 0
    BY <1>3
  <2> QED
    BY <2>1, <2>2, <2>3, <2>4
<1>7. F!Written(r, tail[r], data) = W
  BY <1>3 DEF F!Written, F!Places, Places
<1>8. Appended(rb[r], CopiedIn(rb[r], data, n), n, data)
  <2>1. n \in Nat /\ \A m \in 1..n : data[m] \in Byte
    BY <1>3
  <2>2. PICK C : C = CopiedIn(rb[r], data, n)
    OBVIOUS
  <2> QED
    BY <1>6, <2>1, <2>2, CopiedInCells DEF Appended
<1>9. W \in [Places -> Byte]
  BY <1>3, <1>4, WrittenType
<1> HIDE DEF W
<1>10. /\ Marks(head[r], t, kept[r])
       /\ Holds(CopiedIn(rb[r], data, n), head[r], t, kept[r], W)
  BY <1>3, <1>4, <1>5, <1>8, AppendHolds DEF W
<1>11. head' = [head EXCEPT ![r] = head[r]] /\ kept' = [kept EXCEPT ![r] = kept[r]]
  BY <1>1 DEF Inv, Types
<1>12. Inv'
  BY <1>1, <1>7, <1>9, <1>10, <1>11, EmptySeq, OneBuffer DEF n
<1>13. F!Put(r, data)
  BY <1>1, <1>5 DEF F!Put, F!MayForget, n
<1> QED
  BY <1>2, <1>12, <1>13, PutStep

\* The reader of r goes on by n.
LEMMA ReaderHolds ==
  ASSUME Inv, NEW r \in Rings, NEW n \in Counts, rb[r].size > 0, n <= Count(rb[r]),
         NEW C, C = Moved(rb[r], Forward(rb[r], n))
  PROVE  /\ Marks(head[r] + n, tail[r], kept[r])
         /\ Holds(C, head[r] + n, tail[r], kept[r], tape[r])
         /\ tape[r] \in [Places -> Byte]
         /\ n \in 1..(tail[r] - head[r])
<1>1. /\ Marks(head[r], tail[r], kept[r])
      /\ Holds(rb[r], head[r], tail[r], kept[r], tape[r])
      /\ tape[r] \in [Places -> Byte]
  BY DEF Inv, Good, Types
<1>2. n \in Nat \ {0}
  BY RingAssumption
<1>3. n \in 1..(tail[r] - head[r])
  BY <1>1, <1>2 DEF Holds, Marks
<1> QED
  BY <1>1, <1>2, <1>3, ForwardHolds

\* A call that does no more than that.
LEMMA ReaderStep ==
  ASSUME Inv, NEW r \in Rings, NEW n \in Counts, rb[r].size > 0, n <= Count(rb[r]),
         NEW C, C = Moved(rb[r], Forward(rb[r], n)),
         rb' = [rb EXCEPT ![r] = C],
         tape' = [tape EXCEPT ![r] = tape[r]],
         head' = [head EXCEPT ![r] = head[r] + n],
         tail' = [tail EXCEPT ![r] = tail[r]],
         kept' = [kept EXCEPT ![r] = kept[r]],
         setup' = setup, result' \in Seq(Byte)
  PROVE  Inv' /\ n \in 1..(tail[r] - head[r])
BY ReaderHolds, OneBuffer

\* audio_ringbuf_copy_to_linear returns what the FIFO returns.
LEMMA CopyToLinearStep ==
  ASSUME Inv, NEW r \in Rings, CopyToLinear(r)
  PROVE  Inv' /\ FNext
<1>1. PICK n \in Counts :
        /\ rb[r].size > 0
        /\ n <= Count(rb[r])
        /\ result' = CopiedOut(rb[r], n)
        /\ rb' = [rb EXCEPT ![r].read = Forward(rb[r], n)]
        /\ head' = [head EXCEPT ![r] = @ + n]
        /\ UNCHANGED <<tape, tail, kept>>
        /\ setup' = setup
  BY DEF CopyToLinear, MayCall
<1>2. /\ Marks(head[r], tail[r], kept[r])
      /\ Holds(rb[r], head[r], tail[r], kept[r], tape[r])
  BY DEF Inv, Good
<1>3. n \in Nat
  BY RingAssumption
<1>4. CopiedOut(rb[r], n) = [k \in 1..n |-> rb[r].mem[Cell(rb[r], k - 1)]]
  BY <1>1, <1>2, <1>3, CopiedOutCells DEF Holds
<1>5. ASSUME NEW k \in 1..n
      PROVE  /\ rb[r].mem[Cell(rb[r], k - 1)] = tape[r][head[r] + k - 1]
             /\ rb[r].mem[Cell(rb[r], k - 1)] \in Byte
  BY <1>1, <1>2, <1>3, ReadHolds
<1>6. result' = F!Waiting(r, n)
  BY <1>1, <1>4, <1>5 DEF F!Waiting
<1>7. result' \in Seq(Byte)
  <2>1. result' \in [1..n -> Byte]
    BY <1>1, <1>4, <1>5
  <2> QED
    BY <1>3, <2>1, SeqDef
<1>8. /\ rb' = [rb EXCEPT ![r] = Moved(rb[r], Forward(rb[r], n))]
      /\ tape' = [tape EXCEPT ![r] = tape[r]]
      /\ tail' = [tail EXCEPT ![r] = tail[r]]
      /\ kept' = [kept EXCEPT ![r] = kept[r]]
  BY <1>1 DEF Moved, Inv, Types
<1>9. Inv' /\ n \in 1..(tail[r] - head[r])
  BY <1>1, <1>7, <1>8, ReaderStep
<1>10. F!Get(r, n)
  BY <1>1, <1>6 DEF F!Get
<1> QED
  BY <1>9, <1>10 DEF FNext, F!Next

LEMMA DropDataStep ==
  ASSUME Inv, NEW r \in Rings, DropData(r)
  PROVE  Inv' /\ FNext
<1>1. PICK n \in Counts :
        /\ n <= Count(rb[r])
        /\ rb' = [rb EXCEPT ![r].read = Forward(rb[r], n)]
        /\ head' = [head EXCEPT ![r] = @ + n]
        /\ result' = <<>>
        /\ UNCHANGED <<tape, tail, kept>>
        /\ setup' = setup
  BY DEF DropData, MayCall
<1>2. rb[r].size > 0
  <2>1. Shape(rb[r])
    BY DEF Inv, Good, Holds
  <2>2. n \in Nat \ {0}
    BY RingAssumption
  <2> QED
    BY <1>1, <2>1, <2>2 DEF Shape, Count
<1>3. /\ rb' = [rb EXCEPT ![r] = Moved(rb[r], Forward(rb[r], n))]
      /\ tape' = [tape EXCEPT ![r] = tape[r]]
      /\ tail' = [tail EXCEPT ![r] = tail[r]]
      /\ kept' = [kept EXCEPT ![r] = kept[r]]
  BY <1>1 DEF Moved, Inv, Types
<1>4. Inv' /\ n \in 1..(tail[r] - head[r])
  BY <1>1, <1>2, <1>3, EmptySeq, ReaderStep
<1>5. F!Skip(r, n)
  BY <1>1 DEF F!Skip
<1> QED
  BY <1>4, <1>5 DEF FNext, F!Next

LEMMA RollbackStep ==
  ASSUME Inv, NEW r \in Rings, Rollback(r)
  PROVE  Inv' /\ FNext
<1>1. PICK n \in Counts :
        /\ kept[r] <= head[r] - n
        /\ n <= FreeSpace(rb[r])
        /\ rb' = [rb EXCEPT ![r].read = Backward(rb[r], n)]
        /\ head' = [head EXCEPT ![r] = @ - n]
        /\ result' = <<>>
        /\ UNCHANGED <<tape, tail, kept>>
        /\ setup' = setup
  BY DEF Rollback, MayCall
<1>2. /\ Marks(head[r], tail[r], kept[r])
      /\ Holds(rb[r], head[r], tail[r], kept[r], tape[r])
      /\ tape[r] \in [Places -> Byte]
  BY DEF Inv, Good, Types
<1>3. n \in Nat \ {0}
  BY RingAssumption
<1>4. rb[r].size > 0 /\ Count(rb[r]) + n <= rb[r].size - Spare
  BY <1>1, <1>2, <1>3, CountRange DEF Holds
<1>5. /\ Marks(head[r] - n, tail[r], kept[r])
      /\ Holds(Moved(rb[r], Backward(rb[r], n)), head[r] - n, tail[r], kept[r], tape[r])
  BY <1>1, <1>2, <1>3, <1>4, BackwardHolds
<1>6. /\ rb' = [rb EXCEPT ![r] = Moved(rb[r], Backward(rb[r], n))]
      /\ tape' = [tape EXCEPT ![r] = tape[r]]
      /\ tail' = [tail EXCEPT ![r] = tail[r]]
      /\ kept' = [kept EXCEPT ![r] = kept[r]]
      /\ head' = [head EXCEPT ![r] = head[r] - n]
  BY <1>1 DEF Inv, Types, Moved
<1>a. PICK C : C = Moved(rb[r], Backward(rb[r], n))
  OBVIOUS
<1>b. setup' = setup /\ result' \in Seq(Byte)
  BY <1>1, EmptySeq
<1>7. Inv'
  BY <1>2, <1>5, <1>6, <1>a, <1>b, OneBuffer
<1>8. F!StepBack(r, n)
  BY <1>1 DEF F!StepBack
<1>9. n \in 1..(head[r] - kept[r])
  BY <1>1, <1>2, <1>3 DEF Marks
<1> QED
  BY <1>7, <1>8, <1>9 DEF FNext, F!Next

LEMMA ChangeSizeStep ==
  ASSUME Inv, NEW r \in Rings, ChangeSize(r)
  PROVE  Inv' /\ FNext
<1>1. PICK w \in Counts :
        /\ \E B \in Resized(rb[r], w) : rb' = [rb EXCEPT ![r] = B]
        /\ Forgets(r, w)
        /\ result' = <<>>
        /\ UNCHANGED <<tape, head, tail>>
        /\ setup' = setup
  BY DEF ChangeSize, MayCall
<1>2. PICK B \in Resized(rb[r], w) : rb' = [rb EXCEPT ![r] = B]
  BY <1>1
<1> DEFINE k == IF Changes(rb[r], w) THEN head[r] ELSE kept[r]
<1>3. /\ Marks(head[r], tail[r], kept[r])
      /\ Holds(rb[r], head[r], tail[r], kept[r], tape[r])
      /\ tape[r] \in [Places -> Byte] /\ w \in Nat \ {0}
  BY RingAssumption DEF Inv, Good, Types
<1>4. Marks(head[r], tail[r], k) /\ Holds(B, head[r], tail[r], k, tape[r])
  BY <1>3, ResizeHolds
<1>5. /\ tape' = [tape EXCEPT ![r] = tape[r]]
      /\ tail' = [tail EXCEPT ![r] = tail[r]]
      /\ head' = [head EXCEPT ![r] = head[r]]
      /\ kept' = [kept EXCEPT ![r] = k]
  BY <1>1 DEF Inv, Types, Forgets
<1>6. Inv'
  <2>1. result' \in Seq(Byte) /\ setup' = setup /\ tape[r] \in [Places -> Byte]
    BY <1>1, <1>3, EmptySeq
  <2>2. rb' = [rb EXCEPT ![r] = B]
    BY <1>2
  <2> HIDE DEF k
  <2> QED
    BY <1>4, <1>5, <2>1, <2>2, OneBuffer
<1>7. F!Resize(r)
  BY <1>1 DEF F!Resize, F!MayForget, Forgets
<1> QED
  BY <1>6, <1>7 DEF FNext, F!Next

LEMMA PutBeforeStep ==
  ASSUME NEW r \in Rings, NEW data \in Data, F!PutBefore(r, data)
  PROVE  FNext
BY DEF FNext, F!Next, Data

\* audio_ringbuf_compensate_value: never refused.
LEMMA CompensateValueStep ==
  ASSUME Inv, NEW r \in Rings, CompensateValue(r)
  PROVE  Inv' /\ FNext
<1>1. PICK n \in Counts :
        /\ setup' = setup
        /\ -Behind <= head[r] - n
        /\ \E B \in Resized(rb[r], n) :
             IF n > FreeSpace(B)
             THEN rb' = [rb EXCEPT ![r] = B] /\ Refuse
             ELSE /\ rb' = [rb EXCEPT ![r] = Compensated(B, Value, n)]
                  /\ head' = [head EXCEPT ![r] = @ - n]
                  /\ tape' = [tape EXCEPT ![r] =
                                F!Written(r, head[r] - n, Repeat(Value, n))]
                  /\ kept' = IF Changes(rb[r], n) \/ head'[r] < kept[r]
                             THEN [kept EXCEPT ![r] = head'[r]] ELSE kept
                  /\ result' = <<>>
                  /\ UNCHANGED tail
  BY DEF CompensateValue, MayCall
<1>2. PICK B \in Resized(rb[r], n) :
        IF n > FreeSpace(B)
        THEN rb' = [rb EXCEPT ![r] = B] /\ Refuse
        ELSE /\ rb' = [rb EXCEPT ![r] = Compensated(B, Value, n)]
             /\ head' = [head EXCEPT ![r] = @ - n]
             /\ tape' = [tape EXCEPT ![r] =
                           F!Written(r, head[r] - n, Repeat(Value, n))]
             /\ kept' = IF Changes(rb[r], n) \/ head'[r] < kept[r]
                        THEN [kept EXCEPT ![r] = head'[r]] ELSE kept
             /\ result' = <<>>
             /\ UNCHANGED tail
  BY <1>1
<1> DEFINE h == head[r] - n
           k == IF Changes(rb[r], n) THEN head[r] ELSE kept[r]
           l == IF h < k THEN h ELSE k
           W == [j \in Places |-> IF j - h + 1 \in 1..n THEN Value ELSE tape[r][j]]
<1>3. /\ Marks(head[r], tail[r], kept[r])
      /\ Holds(rb[r], head[r], tail[r], kept[r], tape[r])
      /\ tape[r] \in [Places -> Byte] /\ n \in Nat \ {0} /\ Value \in Byte
      /\ head[r] \in Int
  BY RingAssumption DEF Inv, Good, Types
<1>4. /\ Marks(head[r], tail[r], k) /\ Holds(B, head[r], tail[r], k, tape[r])
      /\ B.size > 0 /\ n <= FreeSpace(B) /\ Count(B) + n <= B.size - Spare
  BY <1>3, ResizeHolds
<1>5. FreeSpace(B) \in Nat
  BY <1>4, CountRange DEF Holds
<1>6. ~(n > FreeSpace(B))
  BY <1>3, <1>4, <1>5
<1>7. /\ rb' = [rb EXCEPT ![r] = Compensated(B, Value, n)]
      /\ head' = [head EXCEPT ![r] = h]
      /\ tape' = [tape EXCEPT ![r] = F!Written(r, h, Repeat(Value, n))]
      /\ kept' = IF Changes(rb[r], n) \/ head'[r] < kept[r]
                 THEN [kept EXCEPT ![r] = head'[r]] ELSE kept
      /\ result' = <<>>
      /\ tail' = tail
  BY <1>2, <1>6
<1>8. F!Written(r, h, Repeat(Value, n)) = W
  BY DEF F!Written, F!Places, Places, Repeat
<1>9. W \in [Places -> Byte]
  BY <1>3
<1>10. Marks(h, tail[r], l) /\ Holds(Compensated(B, Value, n), h, tail[r], l, W)
  <2>1. l = IF head[r] - n < k THEN head[r] - n ELSE k
    OBVIOUS
  <2>2. W = [j \in Places |-> IF j - (head[r] - n) + 1 \in 1..n
                              THEN Value ELSE tape[r][j]]
    OBVIOUS
  <2>3. n \in Nat /\ -Behind <= head[r] - n /\ h = head[r] - n
    BY <1>1, <1>3
  <2> HIDE DEF k, l, W, h
  <2> QED
    BY <1>3, <1>4, <2>1, <2>2, <2>3, CompensateHolds
<1>11. head'[r] = h
  BY <1>7 DEF Inv, Types
<1>12. kept' = [kept EXCEPT ![r] = l]
  <2>1. kept = [kept EXCEPT ![r] = kept[r]]
    BY DEF Inv, Types
  <2>2. h < head[r]
    BY <1>3
  <2> QED
    BY <1>7, <1>11, <2>1, <2>2
<1>13. tail' = [tail EXCEPT ![r] = tail[r]]
  BY <1>7 DEF Inv, Types
<1>14. tape' = [tape EXCEPT ![r] = W]
  BY <1>7, <1>8
<1>15. result' \in Seq(Byte)
  BY <1>7, EmptySeq
<1>16. PICK C : C = Compensated(B, Value, n)
  OBVIOUS
<1>17. F!PutBefore(r, Repeat(Value, n))
  <2>1. PICK data : data = Repeat(Value, n)
    OBVIOUS
  <2>2. Len(data) = n
    BY <2>1, RepeatIsData
  <2>3. /\ -Behind <= head[r] - Len(data)
        /\ head' = [head EXCEPT ![r] = @ - Len(data)]
        /\ tape' = [tape EXCEPT ![r] = F!Written(r, head[r] - Len(data), data)]
    BY <1>1, <1>7, <2>1, <2>2
  <2>4. \/ kept[r] <= head'[r] /\ kept' = kept
        \/ kept' = [kept EXCEPT ![r] = head'[r]]
    <3>1. kept[r] \in Int
      BY DEF Inv, Types
    <3> QED
      BY <1>3, <1>7, <1>11, <3>1
  <2> QED
    BY <1>7, <2>1, <2>3, <2>4 DEF F!PutBefore
<1> HIDE DEF h, l, W
<1>18. Inv'
  BY <1>1, <1>7, <1>9, <1>10, <1>12, <1>13, <1>14, <1>15, <1>16, OneBuffer
<1> QED
  BY <1>17, <1>18, PutBeforeStep, RepeatIsData

\* A call on two buffers: the data goes to r, and the reader of s goes on.
LEMMA TwoBuffers ==
  ASSUME Inv, NEW r \in Rings, NEW s \in Rings, r # s,
         NEW C, NEW t, NEW k, NEW W \in [Places -> Byte],
         Marks(head[r], t, k), Holds(C, head[r], t, k, W),
         NEW E, NEW h,
         Marks(h, tail[s], kept[s]), Holds(E, h, tail[s], kept[s], tape[s]),
         rb' = [rb EXCEPT ![r] = C, ![s] = E], tape' = [tape EXCEPT ![r] = W],
         head' = [head EXCEPT ![s] = h], tail' = [tail EXCEPT ![r] = t],
         kept' = [kept EXCEPT ![r] = k], setup' = setup, result' \in Seq(Byte)
  PROVE  Inv'
<1>1. h \in Int /\ t \in Int /\ k \in Int
  BY DEF Marks
<1>2. Types'
  BY <1>1 DEF Inv, Types
<1>3. ASSUME NEW q \in Rings
      PROVE  Good(q)'
  <2>1. CASE q = r
    <3>1. /\ rb'[q] = C /\ tape'[q] = W /\ head'[q] = head[r]
          /\ tail'[q] = t /\ kept'[q] = k
      BY <2>1 DEF Inv, Types
    <3> QED
      BY <3>1 DEF Good
  <2>2. CASE q = s
    <3>1. /\ rb'[q] = E /\ tape'[q] = tape[s] /\ head'[q] = h
          /\ tail'[q] = tail[s] /\ kept'[q] = kept[s]
      BY <2>2 DEF Inv, Types
    <3> QED
      BY <3>1 DEF Good
  <2>3. CASE q # r /\ q # s
    <3>1. /\ rb'[q] = rb[q] /\ tape'[q] = tape[q] /\ head'[q] = head[q]
          /\ tail'[q] = tail[q] /\ kept'[q] = kept[q]
      BY <2>3 DEF Inv, Types
    <3> QED
      BY <3>1 DEF Inv, Good
  <2> QED
    BY <2>1, <2>2, <2>3
<1> QED
  BY <1>2, <1>3 DEF Inv

\* audio_ringbuf_copy_from_ringbuf: never refused, and what goes to r is what
\* s had next.
LEMMA CopyFromRingbufStep ==
  ASSUME Inv, NEW r \in Rings, NEW s \in Rings, CopyFromRingbuf(r, s)
  PROVE  Inv' /\ FNext
<1>1. PICK n \in Counts \union {Count(rb[s])} :
        /\ setup' = setup
        /\ r # s
        /\ rb[s].size > 0
        /\ n \in 1..Count(rb[s])
        /\ tail[r] + n <= setup.ahead
        /\ \E B \in Resized(rb[r], n) :
             IF n > FreeSpace(B)
             THEN rb' = [rb EXCEPT ![r] = B] /\ Refuse
             ELSE /\ rb' = [rb EXCEPT ![r] = CopiedAcross(B, rb[s], n),
                                      ![s].read = Forward(rb[s], n)]
                  /\ tape' = [tape EXCEPT ![r] = F!Written(r, tail[r], F!Waiting(s, n))]
                  /\ tail' = [tail EXCEPT ![r] = @ + n]
                  /\ head' = [head EXCEPT ![s] = @ + n]
                  /\ Forgets(r, n)
                  /\ result' = <<>>
  BY DEF CopyFromRingbuf, MayCall
<1>2. PICK B \in Resized(rb[r], n) :
        IF n > FreeSpace(B)
        THEN rb' = [rb EXCEPT ![r] = B] /\ Refuse
        ELSE /\ rb' = [rb EXCEPT ![r] = CopiedAcross(B, rb[s], n),
                                 ![s].read = Forward(rb[s], n)]
             /\ tape' = [tape EXCEPT ![r] = F!Written(r, tail[r], F!Waiting(s, n))]
             /\ tail' = [tail EXCEPT ![r] = @ + n]
             /\ head' = [head EXCEPT ![s] = @ + n]
             /\ Forgets(r, n)
             /\ result' = <<>>
  BY <1>1
<1> DEFINE t == tail[r] + n
           h == head[s] + n
           k == IF Changes(rb[r], n) THEN head[r] ELSE kept[r]
           data == [m \in 1..n |-> tape[s][head[s] + m - 1]]
           W == [j \in Places |-> IF j - tail[r] + 1 \in 1..n
                                  THEN data[j - tail[r] + 1] ELSE tape[r][j]]
           C == CopiedAcross(B, rb[s], n)
           E == Moved(rb[s], Forward(rb[s], n))
<1>3. /\ Marks(head[r], tail[r], kept[r])
      /\ Holds(rb[r], head[r], tail[r], kept[r], tape[r])
      /\ Marks(head[s], tail[s], kept[s])
      /\ Holds(rb[s], head[s], tail[s], kept[s], tape[s])
      /\ tape[r] \in [Places -> Byte] /\ tail[r] \in Int
  BY DEF Inv, Good, Types
<1>4. n \in Nat \ {0} /\ n <= Count(rb[s]) /\ Count(rb[s]) \in Nat
  BY <1>1, <1>3, CountRange DEF Holds
<1>5. t <= Ahead
  <2>1. setup \in [calls : [Rings -> SUBSET Calls], ahead : 0..Ahead]
    BY RingAssumption DEF Inv, Types
  <2> QED
    BY <1>1, <1>3, <1>4, <2>1, RingAssumption
<1>6. /\ Marks(head[r], tail[r], k) /\ Holds(B, head[r], tail[r], k, tape[r])
      /\ B.size > 0 /\ n <= FreeSpace(B) /\ Count(B) + n <= B.size - Spare
  BY <1>3, <1>4, ResizeHolds
<1>7. ~(n > FreeSpace(B))
  <2>1. FreeSpace(B) \in Nat
    BY <1>6, CountRange DEF Holds
  <2> QED
    BY <1>4, <1>6, <2>1
<1>8. /\ rb' = [rb EXCEPT ![r] = C, ![s].read = Forward(rb[s], n)]
      /\ tape' = [tape EXCEPT ![r] = F!Written(r, tail[r], F!Waiting(s, n))]
      /\ tail' = [tail EXCEPT ![r] = t]
      /\ head' = [head EXCEPT ![s] = h]
      /\ Forgets(r, n)
      /\ result' = <<>>
  BY <1>2, <1>7
<1>9. ASSUME NEW m \in 1..n
      PROVE  data[m] = rb[s].mem[Cell(rb[s], m - 1)] /\ data[m] \in Byte
  BY <1>1, <1>3, <1>4, ReadHolds
<1>10. F!Waiting(s, n) = data
  BY DEF F!Waiting
<1>11. F!Written(r, tail[r], F!Waiting(s, n)) = W
  BY <1>10 DEF F!Written, F!Places, Places
<1> HIDE DEF data
<1>12. W \in [Places -> Byte]
  BY <1>3, <1>4, <1>9, WrittenType
<1>13. Appended(B, C, n, data)
  <2>1. /\ Shape(B) /\ Shape(rb[s])
    BY <1>3, <1>6 DEF Holds
  <2>2. /\ Shape(C) /\ C.size = B.size /\ Count(C) = Count(B) + n
        /\ \A d \in (Count(B) + n - B.size)..(Count(B) - 1) :
             C.mem[Cell(C, d)] = B.mem[Cell(B, d)]
        /\ \A d \in Count(B)..(Count(B) + n - 1) :
             C.mem[Cell(C, d)] = rb[s].mem[Cell(rb[s], d - Count(B))]
    BY <1>1, <1>4, <1>6, <2>1, CopiedAcrossCells
  <2> HIDE DEF C
  <2>3. Count(B) \in Nat
    BY <2>1, CountRange
  <2>4. ASSUME NEW d \in Count(B)..(Count(B) + n - 1)
        PROVE  C.mem[Cell(C, d)] = data[d - Count(B) + 1]
    <3>1. d - Count(B) + 1 \in 1..n /\ (d - Count(B) + 1) - 1 = d - Count(B)
      BY <1>4, <2>3
    <3>2. data[d - Count(B) + 1] = rb[s].mem[Cell(rb[s], d - Count(B))]
      BY <1>9, <3>1
    <3> QED
      BY <2>2, <3>2
  <2> QED
    BY <2>2, <2>4 DEF Appended
<1> HIDE DEF C, E
<1>14. Marks(head[r], t, k) /\ Holds(C, head[r], t, k, W)
  BY <1>4, <1>5, <1>6, <1>13, AppendHolds
<1>15. Marks(h, tail[s], kept[s]) /\ Holds(E, h, tail[s], kept[s], tape[s])
  BY <1>1, <1>3, <1>4, ForwardHolds DEF E
<1>16. rb' = [rb EXCEPT ![r] = C, ![s] = E]
  BY <1>1, <1>8 DEF E, Moved, Inv, Types
<1>17. kept' = [kept EXCEPT ![r] = k]
  BY <1>8 DEF Forgets, Inv, Types
<1>18. tape' = [tape EXCEPT ![r] = W] /\ result' \in Seq(Byte)
  BY <1>8, <1>11, EmptySeq
<1>19. F!Move(r, s, n)
  BY <1>1, <1>5, <1>8 DEF F!Move, F!MayForget, Forgets
<1>20. n \in 1..(tail[s] - head[s])
  BY <1>3, <1>4 DEF Holds
<1> HIDE DEF t, h, k, W
<1>21. Inv'
  <2>1. r # s /\ setup' = setup
    BY <1>1
  <2>2. tail' = [tail EXCEPT ![r] = t] /\ head' = [head EXCEPT ![s] = h]
    BY <1>8
  <2> QED
    BY <1>12, <1>14, <1>15, <1>16, <1>17, <1>18, <2>1, <2>2, TwoBuffers
<1> QED
  BY <1>19, <1>20, <1>21 DEF FNext, F!Next

LEMMA InitHolds ==
  ASSUME Init
  PROVE  Inv /\ F!Init
<1>1. /\ setup \in Setups /\ rb = [r \in Rings |-> NoBase] /\ result = <<>>
      /\ tape = [r \in Rings |-> [i \in Places |-> Zero]]
      /\ head = [r \in Rings |-> 0] /\ tail = [r \in Rings |-> 0]
      /\ kept = [r \in Rings |-> 0]
  BY DEF Init, Places
<1>2. Types
  <2>1. Zero \in Byte
    BY RingAssumption
  <2>2. result \in Seq(Byte)
    BY <1>1, EmptySeq
  <2>3. rb = [r \in Rings |-> rb[r]]
    BY <1>1
  <2> QED
    BY <1>1, <2>1, <2>2, <2>3 DEF Types
<1>3. Shape(NoBase) /\ NoBase.size = 0 /\ Count(NoBase) = 0
  <2>1. NoBase.size = 0 /\ NoBase.read = 0 /\ NoBase.write = 0
    BY DEF NoBase
  <2>2. NoBase.mem \in [0..(0 - 1) -> Byte]
    BY DEF NoBase
  <2>3. NoBase = [size |-> 0, read |-> 0, write |-> 0, mem |-> NoBase.mem]
    BY DEF NoBase
  <2>4. Count(NoBase) = 0
    BY <2>1 DEF Count
  <2> QED
    BY <2>1, <2>2, <2>3, <2>4 DEF Shape
<1>4. ASSUME NEW r \in Rings
      PROVE  Good(r)
  <2>1. head[r] = 0 /\ tail[r] = 0 /\ kept[r] = 0 /\ rb[r] = NoBase
    BY <1>1
  <2>2. Marks(0, 0, 0)
    BY RingAssumption DEF Marks
  <2>3. Holds(NoBase, 0, 0, 0, tape[r])
    BY <1>3 DEF Holds
  <2> QED
    BY <2>1, <2>2, <2>3 DEF Good
<1>5. F!Init
  BY <1>1 DEF F!Init, F!Places, Places
<1> QED
  BY <1>2, <1>4, <1>5 DEF Inv

LEMMA StepHolds ==
  ASSUME Inv, [Next]_vars
  PROVE  Inv' /\ [FNext]_<<tape, head, tail, kept, result>>
<1>1. CASE Next
  <2>1. PICK r \in Rings :
          \/ CopyFromLinear(r)
          \/ WriteValue(r)
          \/ CopyFromLinearImpl(r)
          \/ CopyToLinear(r)
          \/ DropData(r)
          \/ \E s \in Rings : CopyFromRingbuf(r, s)
          \/ CompensateValue(r)
          \/ Rollback(r)
          \/ ChangeSize(r)
    BY <1>1 DEF Next
  <2>2. CASE CopyFromLinear(r)
    BY <2>2, CopyFromLinearStep
  <2>3. CASE WriteValue(r)
    BY <2>3, WriteValueStep
  <2>4. CASE CopyFromLinearImpl(r)
    BY <2>4, CopyFromLinearImplStep
  <2>5. CASE CopyToLinear(r)
    BY <2>5, CopyToLinearStep
  <2>6. CASE DropData(r)
    BY <2>6, DropDataStep
  <2>7. ASSUME NEW s \in Rings, CopyFromRingbuf(r, s)
        PROVE  Inv' /\ FNext
    BY <2>7, CopyFromRingbufStep
  <2>8. CASE CompensateValue(r)
    BY <2>8, CompensateValueStep
  <2>9. CASE Rollback(r)
    BY <2>9, RollbackStep
  <2>10. CASE ChangeSize(r)
    BY <2>10, ChangeSizeStep
  <2> QED
    BY <2>1, <2>2, <2>3, <2>4, <2>5, <2>6, <2>7, <2>8, <2>9, <2>10
<1>2. CASE UNCHANGED vars
  <2>1. /\ setup' = setup /\ rb' = rb /\ result' = result /\ tape' = tape
        /\ head' = head /\ tail' = tail /\ kept' = kept
    BY <1>2 DEF vars
  <2>2. Inv'
    BY <2>1 DEF Inv, Types, Good
  <2> QED
    BY <2>1, <2>2
<1> QED
  BY <1>1, <1>2

-----------------------------------------------------------------------------
(* The theorems.                                                           *)

\* The invariant of the calls: each buffer holds what its tape says between
\* its marks, at the distance from read that Cell gives.
THEOREM RingInvariant == Spec => []Inv
<1>1. Init => Inv
  BY InitHolds
<1>2. Inv /\ [Next]_vars => Inv'
  BY StepHolds
<1> QED
  BY <1>1, <1>2, PTL DEF Spec

\* The pointers of every buffer stay inside its memory, for any number of
\* buffers, sizes and calls.
THEOREM TypeCorrect == Spec => []TypeOK
<1>1. Inv => TypeOK
  <2> SUFFICES ASSUME Inv PROVE TypeOK
    OBVIOUS
  <2>1. ASSUME NEW r \in Rings
        PROVE  /\ rb[r].size \in Nat
               /\ rb[r].mem \in [0..(rb[r].size - 1) -> Byte]
               /\ rb[r].size > 0 => {rb[r].read, rb[r].write} \subseteq 0..(rb[r].size - 1)
    <3>1. Shape(rb[r])
      BY DEF Inv, Good, Holds
    <3> QED
      BY <3>1 DEF Shape
  <2>2. /\ setup \in Setups /\ result \in Seq(Byte)
        /\ tape \in [Rings -> [F!Places -> Byte]]
        /\ {head, tail, kept} \subseteq [Rings -> Int]
    BY DEF Inv, Types, Places, F!Places
  <2> QED
    BY <2>1, <2>2 DEF TypeOK
<1> QED
  BY <1>1, RingInvariant, PTL

\* audio_ringbuf_count is right after any sequence of calls, though full and
\* empty buffers have equal pointers.
THEOREM CountIsWaitingHolds == Spec => []CountIsWaiting
<1>1. Inv => CountIsWaiting
  BY DEF Inv, Good, Holds, CountIsWaiting
<1> QED
  BY <1>1, RingInvariant, PTL

\* No call overwrites a byte that waits, or one that the reader may step back
\* to, and a change of the size brings along what waits.
THEOREM BytesInPlaceHolds == Spec => []BytesInPlace
<1>1. Inv => BytesInPlace
  BY DEF Inv, Good, Holds, BytesInPlace
<1> QED
  BY <1>1, RingInvariant, PTL

\* The buffers implement the FIFO: the calls on them map to its steps, and none
\* of those that make room is refused.
THEOREM ImplementsFifo == Spec => FifoSpec
<1>1. Init => F!Init
  BY InitHolds
<1>2. Inv /\ [Next]_vars => [F!Next]_<<tape, head, tail, kept, result>>
  BY StepHolds DEF FNext
<1> QED
  BY <1>1, <1>2, RingInvariant, PTL DEF Spec, FifoSpec, F!Spec
---------------------------------------------------------------------------
(* The ring buffers of fixed length.  A place of one is RbAt(p, k), k      *)
(* after p; RbLies says which bytes are at which places after the reader,  *)
(* and RbShares how the AP's copy of the pointers lags behind.             *)

\* The place k after p, and how far q is after p.
RbAt(p, k) == IF p + k < RbLen THEN p + k ELSE p + k - RbLen
RbDist(p, q) == IF q >= p THEN q - p ELSE RbLen - (p - q)

RbSpots == 0 .. RbLen - 1
RbRings == [read : RbSpots, write : RbSpots, count : Nat]
RbTypeOK ==
    /\ rbRing \in [RbBufs -> RbRings]
    /\ rbMem \in [RbBufs -> [RbSpots -> Nat]]
    /\ rbBridge \in RbRings /\ rbAp \in RbRings
    /\ rbSent \in Nat /\ rbNext \in Nat
    /\ rbQueue \in [RbBufs -> Seq(Nat)]
    /\ rbStale \subseteq RbBufs /\ rbOver \subseteq RbBufs

\* The bytes q lie in a row from place r.
RbLies(mem, r, q) ==
    Len(q) <= RbLen /\ \A k \in 1 .. Len(q) : mem[RbAt(r, k - 1)] = q[k]

\* A ring with n bytes, of which it may count more.
RbHas(ring, n) == ring.write = RbAt(ring.read, n) /\ 0 <= n /\ n <= ring.count /\ ring.count <= RbLen

RbWell(b) ==
    /\ RbHas(rbRing[b], RbWaiting(b))
    /\ RbLies(rbMem[b], rbRing[b].read, rbQueue[b])
    /\ b \in rbStale \/ rbRing[b].count = RbWaiting(b)

\* The AP counts what it wrote and was not told that it was read; it has told of the
\* end of what it wrote last, and was told of a place that was read to.
RbShares ==
    LET ring == rbRing[RbShared]  n == Len(rbQueue[RbShared])
        ahead == RbDist(rbAp.read, ring.read) IN
    /\ RbShared \notin rbOver \cup rbStale
    /\ rbAp.count = n + ahead /\ rbAp.count <= RbLen
    /\ rbAp.write = RbAt(ring.read, n)
    /\ rbSent > 0 => rbBridge.write = rbAp.write
    /\ rbSent = RbLen => rbBridge.count = RbLen
    /\ RbDist(rbAp.read, rbBridge.read) <= ahead

RbInv == /\ RbTypeOK /\ rbGiven /\ RbShares
         /\ \A b \in RbBufs \ rbOver : RbWell(b)

LEMMA RbAtIs ==
  ASSUME NEW p \in RbSpots, NEW k \in 0 .. RbLen
  PROVE  (p + k) % RbLen = RbAt(p, k) /\ RbAt(p, k) \in RbSpots
<1>1. RbLen \in Nat \ {0}
  BY RbAssumption
<1>2. p \in Nat /\ p < RbLen /\ k \in Nat /\ k <= RbLen
  BY <1>1 DEF RbSpots
<1>3. CASE p + k < RbLen
  BY <1>1, <1>2, <1>3 DEF RbAt, RbSpots
<1>4. CASE p + k >= RbLen
  <2>1. (p + k) % RbLen = p + k - RbLen
    BY <1>1, <1>2, <1>4
  <2> QED
    BY <1>1, <1>2, <1>4, <2>1 DEF RbAt, RbSpots
<1> QED
  BY <1>1, <1>2, <1>3, <1>4

LEMMA RbDistIs ==
  ASSUME NEW p \in RbSpots, NEW q \in RbSpots
  PROVE  /\ (q - p) % RbLen = RbDist(p, q) /\ RbDist(p, q) \in RbSpots
         /\ RbAt(p, RbDist(p, q)) = q
<1>1. RbLen \in Nat \ {0}
  BY RbAssumption
<1>2. p \in Nat /\ p < RbLen /\ q \in Nat /\ q < RbLen
  BY <1>1 DEF RbSpots
<1>3. CASE q >= p
  BY <1>1, <1>2, <1>3 DEF RbAt, RbDist, RbSpots
<1>4. CASE q < p
  <2>1. (q - p) % RbLen = q - p + RbLen
    BY <1>1, <1>2, <1>4
  <2> QED
    BY <1>1, <1>2, <1>4, <2>1 DEF RbAt, RbDist, RbSpots
<1> QED
  BY <1>1, <1>2, <1>3, <1>4

LEMMA RbAtAt ==
  ASSUME NEW p \in RbSpots, NEW j \in Nat, NEW k \in Nat, j + k <= RbLen
  PROVE  RbAt(RbAt(p, j), k) = RbAt(p, j + k)
BY RbAssumption DEF RbAt, RbSpots

LEMMA RbAtOne ==
  ASSUME NEW p \in RbSpots, NEW j \in RbSpots, NEW k \in RbSpots, RbAt(p, j) = RbAt(p, k)
  PROVE  j = k
BY RbAssumption DEF RbAt, RbSpots

LEMMA RbDistAt ==
  ASSUME NEW p \in RbSpots, NEW q \in RbSpots, NEW n \in Nat, RbDist(p, q) + n < RbLen
  PROVE  RbDist(p, RbAt(q, n)) = RbDist(p, q) + n
BY RbAssumption DEF RbAt, RbDist, RbSpots

\* The writer splits its bytes where it has to.
LEMMA RbPlacesAre ==
  ASSUME NEW ring \in RbRings, NEW c \in Nat, RbHas(ring, c),
         NEW n \in Nat, n <= RbLen - ring.count
  PROVE  RbPlaces(ring, n) = [k \in 1 .. n |-> RbAt(ring.write, k - 1)]
<1>1. RbLen \in Nat \ {0}
  BY RbAssumption
<1>2. /\ ring.read \in Nat /\ ring.read < RbLen /\ ring.write \in Nat /\ ring.write < RbLen
      /\ ring.read \in RbSpots /\ ring.write \in RbSpots
      /\ ring.count \in Nat /\ ring.write = RbAt(ring.read, c) /\ c <= ring.count /\ ring.count <= RbLen
  BY <1>1 DEF RbRings, RbSpots, RbHas
<1>3. ASSUME NEW k \in 1 .. n
      PROVE  (IF ring.read <= ring.write THEN (ring.write + k - 1) % RbLen
              ELSE ring.write + k - 1) = RbAt(ring.write, k - 1)
  <2>1. k - 1 \in 0 .. RbLen /\ ring.write + k - 1 = ring.write + (k - 1)
    BY <1>1, <1>2
  <2>2. CASE ring.read <= ring.write
    BY <1>2, <2>1, <2>2, RbAtIs
  <2>3. CASE ring.read > ring.write
    <3>1. c = ring.write + RbLen - ring.read
      BY <1>1, <1>2, <2>3 DEF RbAt
    <3>2. ring.write + k - 1 < RbLen
      BY <1>1, <1>2, <2>3, <3>1
    <3> QED
      BY <1>1, <1>2, <2>1, <2>3, <3>2 DEF RbAt
  <2> QED
    BY <1>2, <2>2, <2>3
<1> QED
  BY <1>3 DEF RbPlaces

\* The memory m is mem with data in a row from place w.
RbFills(m, mem, w, data) ==
    /\ \A k \in 1 .. Len(data) : m[RbAt(w, k - 1)] = data[k]
    /\ \A p \in RbSpots : (\A k \in 1 .. Len(data) : RbAt(w, k - 1) # p) => m[p] = mem[p]

LEMMA RbStores ==
  ASSUME NEW mem \in [RbSpots -> Nat], NEW ring \in RbRings, NEW c \in Nat, RbHas(ring, c),
         NEW data \in Seq(Nat), Len(data) <= RbLen - ring.count
  PROVE  /\ RbStored(mem, ring, data) \in [RbSpots -> Nat]
         /\ RbFills(RbStored(mem, ring, data), mem, ring.write, data)
<1> DEFINE n == Len(data)
           at == RbPlaces(ring, n)
           Of(p) == IF \E k \in DOMAIN data : at[k] = p
                    THEN data[CHOOSE k \in DOMAIN data : at[k] = p] ELSE mem[p]
<1>1. RbLen \in Nat \ {0} /\ n \in Nat /\ DOMAIN data = 1 .. n /\ ring.write \in RbSpots
      /\ n <= RbLen
  BY RbAssumption DEF RbRings, RbHas
<1>2. at = [k \in 1 .. n |-> RbAt(ring.write, k - 1)]
  BY <1>1, RbPlacesAre
<1>3. RbStored(mem, ring, data) = [p \in RbSpots |-> Of(p)]
  BY DEF RbStored, RbSpots
<1> HIDE DEF at
<1>4. ASSUME NEW k \in 1 .. n PROVE k - 1 \in RbSpots /\ k - 1 \in 0 .. RbLen /\ data[k] \in Nat
  BY <1>1, ElementOfSeq DEF RbSpots
<1>5. ASSUME NEW p \in RbSpots, NEW k \in 1 .. n, at[k] = p PROVE Of(p) = data[k]
  <2> DEFINE j == CHOOSE i \in DOMAIN data : at[i] = p
  <2>1. j \in 1 .. n /\ at[j] = p
    BY <1>1, <1>5
  <2> HIDE DEF j
  <2>2. RbAt(ring.write, j - 1) = RbAt(ring.write, k - 1)
    BY <1>2, <1>5, <2>1
  <2>3. j - 1 = k - 1
    BY <1>1, <1>4, <2>1, <2>2, RbAtOne
  <2>4. j = k
    BY <2>1, <2>3
  <2>5. Of(p) = data[j]
    BY <1>1, <1>5 DEF j
  <2> QED
    BY <2>4, <2>5
<1>6. ASSUME NEW p \in RbSpots PROVE Of(p) \in Nat
  <2>1. CASE \E k \in DOMAIN data : at[k] = p
    BY <1>1, <1>4, <1>5, <2>1
  <2>2. CASE ~\E k \in DOMAIN data : at[k] = p
    BY <2>2
  <2> QED
    BY <2>1, <2>2
<1>7. ASSUME NEW k \in 1 .. n
      PROVE  RbStored(mem, ring, data)[RbAt(ring.write, k - 1)] = data[k]
  <2>1. RbAt(ring.write, k - 1) \in RbSpots
    BY <1>1, <1>4, RbAtIs
  <2>2. at[k] = RbAt(ring.write, k - 1)
    BY <1>2
  <2>3. Of(RbAt(ring.write, k - 1)) = data[k]
    BY <1>5, <2>1, <2>2
  <2> HIDE DEF Of
  <2> QED
    BY <1>3, <2>1, <2>3
<1>8. ASSUME NEW p \in RbSpots, \A k \in 1 .. n : RbAt(ring.write, k - 1) # p
      PROVE  RbStored(mem, ring, data)[p] = mem[p]
  BY <1>1, <1>2, <1>3, <1>8
<1>9. RbStored(mem, ring, data) \in [RbSpots -> Nat]
  <2> HIDE DEF Of
  <2> QED
    BY <1>3, <1>6
<1> QED
  BY <1>7, <1>8, <1>9 DEF RbFills

\* What is stored behind a row is the end of the row.
LEMMA RbLiesOn ==
  ASSUME NEW mem \in [RbSpots -> Nat], NEW m \in [RbSpots -> Nat], NEW r \in RbSpots,
         NEW q \in Seq(Nat), NEW data \in Seq(Nat), Len(q) + Len(data) <= RbLen,
         RbLies(mem, r, q), RbFills(m, mem, RbAt(r, Len(q)), data)
  PROVE  q \o data \in Seq(Nat) /\ Len(q \o data) = Len(q) + Len(data) /\ RbLies(m, r, q \o data)
<1>0. /\ \A k \in 1 .. Len(data) : m[RbAt(RbAt(r, Len(q)), k - 1)] = data[k]
      /\ \A p \in RbSpots : (\A k \in 1 .. Len(data) : RbAt(RbAt(r, Len(q)), k - 1) # p) =>
            m[p] = mem[p]
  BY DEF RbFills
<1>1. RbLen \in Nat \ {0} /\ Len(q) \in Nat /\ Len(data) \in Nat
  BY RbAssumption
<1>2. /\ q \o data \in Seq(Nat) /\ Len(q \o data) = Len(q) + Len(data)
      /\ \A k \in 1 .. Len(q) : (q \o data)[k] = q[k]
      /\ \A k \in 1 .. Len(data) : (q \o data)[Len(q) + k] = data[k]
  <2>1. q \in Seq(Nat) /\ data \in Seq(Nat)
    OBVIOUS
  <2> QED
    BY <2>1, ConcatProperties
<1>3. ASSUME NEW k \in 1 .. Len(q)
      PROVE  m[RbAt(r, k - 1)] = (q \o data)[k]
  <2>1a. k - 1 \in RbSpots /\ k - 1 \in 0 .. RbLen
    BY <1>1 DEF RbSpots
  <2>1. k - 1 \in RbSpots /\ k - 1 \in 0 .. RbLen /\ RbAt(r, k - 1) \in RbSpots
    BY <2>1a, RbAtIs
  <2>2. ASSUME NEW j \in 1 .. Len(data) PROVE RbAt(RbAt(r, Len(q)), j - 1) # RbAt(r, k - 1)
    <3>0. j \in Nat /\ 1 <= j /\ j <= Len(data) /\ k \in Nat /\ k <= Len(q)
      BY <1>1
    <3>a. j - 1 \in Nat /\ Len(q) + (j - 1) <= RbLen - 1 /\ Len(q) + (j - 1) # k - 1
      BY <1>1, <3>0
    <3>1. j - 1 \in Nat /\ Len(q) + (j - 1) \in RbSpots /\ Len(q) + (j - 1) # k - 1
      BY <1>1, <3>a DEF RbSpots
    <3>2. RbAt(RbAt(r, Len(q)), j - 1) = RbAt(r, Len(q) + (j - 1))
      BY <1>1, <3>1, RbAtAt
    <3>3. RbAt(r, Len(q) + (j - 1)) # RbAt(r, k - 1)
      BY <2>1, <3>1, RbAtOne
    <3> QED
      BY <3>2, <3>3
  <2>3. m[RbAt(r, k - 1)] = mem[RbAt(r, k - 1)]
    BY <1>0, <2>1, <2>2
  <2> QED
    BY <1>2, <2>3 DEF RbLies
<1>4. ASSUME NEW k \in 1 .. (Len(q) + Len(data)), k > Len(q)
      PROVE  m[RbAt(r, k - 1)] = (q \o data)[k]
  <2> DEFINE j == k - Len(q)
  <2>1. j \in 1 .. Len(data) /\ k = Len(q) + j /\ j - 1 \in Nat /\ Len(q) + (j - 1) <= RbLen
        /\ k - 1 = Len(q) + (j - 1)
    BY <1>1, <1>4
  <2> HIDE DEF j
  <2>2. RbAt(RbAt(r, Len(q)), j - 1) = RbAt(r, k - 1)
    BY <1>1, <2>1, RbAtAt
  <2>3. m[RbAt(RbAt(r, Len(q)), j - 1)] = data[j] /\ (q \o data)[Len(q) + j] = data[j]
    BY <1>0, <1>2, <2>1
  <2> QED
    BY <2>1, <2>2, <2>3
<1>5. ASSUME NEW k \in 1 .. Len(q \o data)
      PROVE  m[RbAt(r, k - 1)] = (q \o data)[k]
  <2>1. k \in 1 .. (Len(q) + Len(data))
    BY <1>2
  <2>2. CASE k > Len(q)
    BY <1>4, <2>1, <2>2
  <2>3. CASE k <= Len(q)
    <3>1. k \in 1 .. Len(q)
      BY <1>1, <2>1, <2>3
    <3> QED
      BY <1>3, <3>1
  <2> QED
    BY <1>1, <2>1, <2>2, <2>3
<1> QED
  BY <1>1, <1>2, <1>5 DEF RbLies

\* The row without its first n bytes.
LEMMA RbLeaves ==
  ASSUME NEW mem \in [RbSpots -> Nat], NEW r \in RbSpots, NEW q \in Seq(Nat),
         RbLies(mem, r, q), NEW n \in Nat, n <= Len(q)
  PROVE  /\ SubSeq(q, n + 1, Len(q)) \in Seq(Nat) /\ Len(SubSeq(q, n + 1, Len(q))) = Len(q) - n
         /\ RbAt(r, n) \in RbSpots /\ RbLies(mem, RbAt(r, n), SubSeq(q, n + 1, Len(q)))
<1>1. RbLen \in Nat \ {0} /\ Len(q) \in Nat /\ Len(q) <= RbLen
  BY RbAssumption DEF RbLies
<1>2. /\ SubSeq(q, n + 1, Len(q)) \in Seq(Nat) /\ Len(SubSeq(q, n + 1, Len(q))) = Len(q) - n
      /\ \A k \in 1 .. (Len(q) - n) : SubSeq(q, n + 1, Len(q))[k] = q[n + k]
  <2>1. n + 1 \in 1 .. (Len(q) + 1)
    BY <1>1
  <2>2. \A i \in (n + 1) .. Len(q) : q[i] \in Nat
    BY <1>1, ElementOfSeq
  <2>3. /\ SubSeq(q, n + 1, Len(q)) \in Seq(Nat)
        /\ Len(SubSeq(q, n + 1, Len(q))) = IF n + 1 <= Len(q) THEN Len(q) - (n + 1) + 1 ELSE 0
        /\ \A i \in 1 .. (Len(q) - (n + 1) + 1) : SubSeq(q, n + 1, Len(q))[i] = q[n + 1 + i - 1]
    BY <1>1, <2>2, SubSeqProperties
  <2> DEFINE rest == SubSeq(q, n + 1, Len(q))
  <2>4. Len(q) - (n + 1) + 1 = Len(q) - n /\ \A i \in 1 .. (Len(q) - n) : n + 1 + i - 1 = n + i
    BY <1>1
  <2>5. Len(q) - n = IF n + 1 <= Len(q) THEN Len(q) - (n + 1) + 1 ELSE 0
    BY <1>1
  <2>6. Len(rest) = Len(q) - n
    BY <2>3, <2>5
  <2>7. \A i \in 1 .. (Len(q) - n) : rest[i] = q[n + i]
    BY <2>3, <2>4
  <2> QED
    BY <2>3, <2>6, <2>7
<1>3. RbAt(r, n) \in RbSpots
  BY <1>1, RbAtIs
<1>4. ASSUME NEW k \in 1 .. (Len(q) - n)
      PROVE  mem[RbAt(RbAt(r, n), k - 1)] = q[n + k]
  <2>1. k - 1 \in Nat /\ n + (k - 1) <= RbLen /\ n + k \in 1 .. Len(q) /\ n + (k - 1) = (n + k) - 1
    BY <1>1
  <2>2. RbAt(RbAt(r, n), k - 1) = RbAt(r, (n + k) - 1)
    BY <2>1, RbAtAt
  <2> QED
    BY <2>1, <2>2 DEF RbLies
<1>5. ASSUME NEW k \in 1 .. Len(SubSeq(q, n + 1, Len(q)))
      PROVE  mem[RbAt(RbAt(r, n), k - 1)] = SubSeq(q, n + 1, Len(q))[k]
  <2>1. k \in 1 .. (Len(q) - n)
    BY <1>2
  <2> QED
    BY <1>2, <1>4, <2>1
<1>6. Len(SubSeq(q, n + 1, Len(q))) <= RbLen
  BY <1>1, <1>2
<1>7. RbLies(mem, RbAt(r, n), SubSeq(q, n + 1, Len(q)))
  <2> DEFINE rest == SubSeq(q, n + 1, Len(q))
  <2> HIDE DEF rest
  <2> QED
    BY <1>5, <1>6 DEF RbLies, rest
<1> QED
  BY <1>2, <1>3, <1>7

\* What is copied out of a row is its beginning.
LEMMA RbReads ==
  ASSUME RbTypeOK, NEW b \in RbBufs, NEW c \in Nat, RbHas(rbRing[b], c), c <= Len(rbQueue[b]),
         RbLies(rbMem[b], rbRing[b].read, rbQueue[b]),
         NEW n \in Nat, n <= c, NEW whole \in BOOLEAN,
         whole => n = 0 \/ rbRing[b].read < rbRing[b].write
  PROVE  /\ RbPiece(b, n, whole) = SubSeq(rbQueue[b], 1, n)
         /\ RbPiece(b, n, whole) \in Seq(Nat) /\ Len(RbPiece(b, n, whole)) = n
<1> DEFINE ring == rbRing[b]
           q == rbQueue[b]
           at(k) == ring.read + k - 1
<1>1. RbLen \in Nat \ {0} /\ q \in Seq(Nat) /\ Len(q) \in Nat /\ Len(q) <= RbLen
  BY RbAssumption DEF RbTypeOK, RbLies
<1>2a. ring \in RbRings
  BY DEF RbTypeOK
<1>2. /\ ring.read \in RbSpots /\ ring.write \in RbSpots
      /\ ring.read \in Nat /\ ring.read < RbLen /\ ring.write \in Nat /\ ring.write < RbLen
      /\ ring.write = RbAt(ring.read, c)
  <2> HIDE DEF ring
  <2>1. ring.read \in RbSpots /\ ring.write \in RbSpots
    BY <1>2a DEF RbRings
  <2> QED
    BY <1>1, <2>1 DEF RbSpots, RbHas, ring
<1>3. ASSUME NEW k \in 1 .. n
      PROVE  (IF ~whole THEN rbMem[b][at(k) % RbLen]
              ELSE IF at(k) < RbLen THEN rbMem[b][at(k)] ELSE RbWild) = q[k]
  <2>1. k - 1 \in 0 .. RbLen /\ at(k) = ring.read + (k - 1) /\ k \in 1 .. Len(q)
    BY <1>1, <1>2
  <2>2. rbMem[b][RbAt(ring.read, k - 1)] = q[k]
    BY <2>1 DEF RbLies
  <2>3. CASE ~whole
    <3>1. at(k) % RbLen = RbAt(ring.read, k - 1)
      BY <1>2, <2>1, RbAtIs
    <3> QED
      BY <2>2, <2>3, <3>1
  <2>4. CASE whole
    <3>1. ring.read < ring.write
      BY <2>4
    <3>2. at(k) < RbLen
      BY <1>1, <1>2, <2>1, <3>1 DEF RbAt
    <3>3. at(k) = RbAt(ring.read, k - 1)
      BY <2>1, <3>2 DEF RbAt
    <3> QED
      BY <2>2, <2>4, <3>2, <3>3
  <2> QED
    BY <2>3, <2>4
<1>4. RbPiece(b, n, whole) = [k \in 1 .. n |-> q[k]]
  BY <1>3 DEF RbPiece
<1>5. \A i \in 1 .. n : q[i] \in Nat
  BY <1>1, ElementOfSeq
<1>6. /\ SubSeq(q, 1, n) \in Seq(Nat)
      /\ Len(SubSeq(q, 1, n)) = IF 1 <= n THEN n - 1 + 1 ELSE 0
      /\ \A i \in 1 .. (n - 1 + 1) : SubSeq(q, 1, n)[i] = q[1 + i - 1]
  BY <1>5, SubSeqProperties
<1>7. Len(SubSeq(q, 1, n)) = n /\ \A i \in 1 .. n : SubSeq(q, 1, n)[i] = q[i]
  BY <1>6
<1>8. RbPiece(b, n, whole) \in Seq(Nat) /\ Len(RbPiece(b, n, whole)) = n
  BY <1>4, <1>5
<1>9. RbPiece(b, n, whole) = SubSeq(q, 1, n)
  BY <1>4, <1>6, <1>7, <1>8, SeqEqual
<1> QED
  BY <1>8, <1>9

LEMMA RbFreshIs ==
  ASSUME RbTypeOK, NEW n \in Nat
  PROVE  RbFresh(n) \in Seq(Nat) /\ Len(RbFresh(n)) = n /\ (rbNext + n) % RbBytes \in Nat
<1>1. rbNext \in Nat /\ RbBytes \in Nat \ {0}
  BY RbAssumption DEF RbTypeOK
<1>2. \A k \in 1 .. n : (rbNext + k - 1) % RbBytes \in Nat
  BY <1>1
<1>3. RbFresh(n) \in [1 .. n -> Nat]
  BY <1>2 DEF RbFresh
<1>4. (rbNext + n) % RbBytes \in Nat
  BY <1>1
<1> QED
  BY <1>3, <1>4

\* A row into which bytes are written that there is room for.
LEMMA RbWrites ==
  ASSUME NEW mem \in [RbSpots -> Nat], NEW ring \in RbRings, NEW c \in Nat, RbHas(ring, c),
         NEW r \in RbSpots, NEW q \in Seq(Nat), RbLies(mem, r, q), ring.write = RbAt(r, Len(q)),
         NEW data \in Seq(Nat), Len(data) <= RbLen - ring.count, Len(q) + Len(data) <= RbLen
  PROVE  /\ RbStored(mem, ring, data) \in [RbSpots -> Nat]
         /\ q \o data \in Seq(Nat) /\ Len(q \o data) = Len(q) + Len(data)
         /\ RbLies(RbStored(mem, ring, data), r, q \o data)
<1> DEFINE m == RbStored(mem, ring, data)
<1>1. m \in [RbSpots -> Nat] /\ RbFills(m, mem, RbAt(r, Len(q)), data)
  BY RbStores
<1> HIDE DEF m
<1>2. q \o data \in Seq(Nat) /\ Len(q \o data) = Len(q) + Len(data) /\ RbLies(m, r, q \o data)
  BY <1>1, RbLiesOn
<1> QED
  BY <1>1, <1>2 DEF m

LEMMA RbPuts ==
  ASSUME NEW ring \in RbRings, NEW c \in Nat, RbHas(ring, c),
         NEW n \in Nat, n <= RbLen - ring.count
  PROVE  /\ RbPut(ring, n) \in RbRings /\ RbHas(RbPut(ring, n), c + n)
         /\ RbPut(ring, n).read = ring.read /\ RbPut(ring, n).count = ring.count + n
         /\ RbPut(ring, n).write = RbAt(ring.write, n)
<1>1. RbLen \in Nat \ {0}
  BY RbAssumption
<1>2. /\ ring.read \in RbSpots /\ ring.write \in RbSpots /\ ring.count \in Nat
      /\ ring.write = RbAt(ring.read, c) /\ c <= ring.count /\ ring.count <= RbLen
  BY DEF RbRings, RbHas
<1>3. n \in 0 .. RbLen /\ c + n <= RbLen
  BY <1>1, <1>2
<1>4. (ring.write + n) % RbLen = RbAt(ring.write, n) /\ RbAt(ring.write, n) \in RbSpots
  BY <1>2, <1>3, RbAtIs
<1>5. RbAt(ring.write, n) = RbAt(ring.read, c + n)
  BY <1>2, <1>3, RbAtAt
<1>6. RbPut(ring, n) = [ring EXCEPT !.write = RbAt(ring.write, n), !.count = ring.count + n]
  BY <1>4 DEF RbPut
<1>7. ring.count + n \in Nat
  BY <1>2
<1>8. RbPut(ring, n) \in RbRings
  BY <1>4, <1>6, <1>7 DEF RbRings
<1>9. /\ RbPut(ring, n).read = ring.read /\ RbPut(ring, n).count = ring.count + n
      /\ RbPut(ring, n).write = RbAt(ring.write, n)
  BY <1>6 DEF RbRings
<1>10. c + n <= ring.count + n /\ ring.count + n <= RbLen /\ 0 <= c + n
  BY <1>1, <1>2
<1> QED
  BY <1>5, <1>8, <1>9, <1>10 DEF RbHas

LEMMA RbTakes ==
  ASSUME NEW ring \in RbRings, NEW c \in Nat, RbHas(ring, c), NEW n \in Nat, n <= c
  PROVE  /\ RbTake(ring, n) \in RbRings /\ RbHas(RbTake(ring, n), c - n) /\ c - n \in Nat
         /\ RbTake(ring, n).read = RbAt(ring.read, n) /\ RbTake(ring, n).count = ring.count - n
         /\ RbTake(ring, n).write = ring.write /\ RbTake(ring, n) = RbReadPtr(ring, n)
<1>1. RbLen \in Nat \ {0}
  BY RbAssumption
<1>2. /\ ring.read \in RbSpots /\ ring.write \in RbSpots /\ ring.count \in Nat
      /\ ring.write = RbAt(ring.read, c) /\ c <= ring.count /\ ring.count <= RbLen
  BY DEF RbRings, RbHas
<1>3. n \in 0 .. RbLen /\ c - n \in Nat /\ n + (c - n) = c /\ n <= ring.count /\ c <= RbLen
  BY <1>1, <1>2
<1>4. (ring.read + n) % RbLen = RbAt(ring.read, n) /\ RbAt(ring.read, n) \in RbSpots
  BY <1>2, <1>3, RbAtIs
<1>5. RbAt(RbAt(ring.read, n), c - n) = RbAt(ring.read, c)
  BY <1>2, <1>3, RbAtAt
<1>6. RbTake(ring, n) = [ring EXCEPT !.read = RbAt(ring.read, n), !.count = ring.count - n]
  BY <1>4 DEF RbTake
<1>7. RbWrap(ring.read + n) = RbAt(ring.read, n)
  <2>1. ring.read \in Nat
    BY <1>1, <1>2 DEF RbSpots
  <2> QED
    BY <1>1, <1>3, <2>1 DEF RbAt, RbWrap
<1>8. RbReadPtr(ring, n) = [ring EXCEPT !.read = RbAt(ring.read, n), !.count = ring.count - n]
  <2>1. ~(n > ring.count)
    BY <1>2, <1>3
  <2> QED
    BY <1>7, <2>1 DEF RbReadPtr
<1>9. ring.count - n \in Nat
  BY <1>2, <1>3
<1>10. RbTake(ring, n) \in RbRings
  BY <1>4, <1>6, <1>9 DEF RbRings
<1>11. /\ RbTake(ring, n).read = RbAt(ring.read, n) /\ RbTake(ring, n).count = ring.count - n
       /\ RbTake(ring, n).write = ring.write
  BY <1>6 DEF RbRings
<1>12. c - n <= ring.count - n /\ ring.count - n <= RbLen /\ 0 <= c - n
  BY <1>1, <1>2, <1>3
<1>13. RbHas(RbTake(ring, n), c - n)
  BY <1>2, <1>5, <1>11, <1>12 DEF RbHas
<1> QED
  BY <1>3, <1>6, <1>8, <1>10, <1>11, <1>13

\* The writer's pointer stays in the buffer, and is where RingBuf_copyFromLinear puts it
\* if there is room.
LEMMA RbWritePtrIs ==
  ASSUME NEW ring \in RbRings, NEW c \in Nat, RbHas(ring, c), NEW n \in Nat, n <= RbLen
  PROVE  /\ RbWritePtr(ring, n) \in RbRings
         /\ n <= RbLen - ring.count => RbWritePtr(ring, n) = RbPut(ring, n)
<1> DEFINE past == ring.write + n - RbLen
           write == IF ring.read > ring.write \/ past <= 0 THEN RbWrap(ring.write + n)
                    ELSE IF past > ring.read THEN 0 ELSE past
           over == ring.count + n > RbLen
           odd == IF ring.read >= write THEN ring.read - write ELSE write + RbLen - ring.read
           count == IF over THEN odd ELSE ring.count + n
<1>1. RbLen \in Nat \ {0}
  BY RbAssumption
<1>2. /\ ring.read \in RbSpots /\ ring.write \in RbSpots /\ ring.count \in Nat
      /\ ring.write = RbAt(ring.read, c) /\ c <= ring.count /\ ring.count <= RbLen
  BY DEF RbRings, RbHas
<1>3. /\ ring.read \in Nat /\ ring.read < RbLen /\ ring.write \in Nat /\ ring.write < RbLen
  BY <1>1, <1>2 DEF RbSpots
<1>4. RbWritePtr(ring, n) = [ring EXCEPT !.write = write, !.count = count]
  BY DEF RbWritePtr
<1>5. write \in Nat /\ write < RbLen
  BY <1>1, <1>3 DEF RbWrap
<1>6. ASSUME n <= RbLen - ring.count PROVE write = RbAt(ring.write, n) /\ ~over
  BY <1>1, <1>2, <1>3, <1>6 DEF RbAt, RbWrap
<1> HIDE DEF write, over
<1>7. count \in Nat
  BY <1>1, <1>2, <1>3, <1>5
<1> HIDE DEF count
<1>8. RbWritePtr(ring, n) \in RbRings
  <2>1. write \in RbSpots
    BY <1>1, <1>5 DEF RbSpots
  <2> QED
    BY <1>4, <1>7, <2>1 DEF RbRings
<1>9. ASSUME n <= RbLen - ring.count PROVE RbWritePtr(ring, n) = RbPut(ring, n)
  <2>1. n \in 0 .. RbLen /\ (ring.write + n) % RbLen = RbAt(ring.write, n)
    BY <1>1, <1>2, RbAtIs
  <2>2. RbPut(ring, n) = [ring EXCEPT !.write = RbAt(ring.write, n), !.count = ring.count + n]
    BY <2>1 DEF RbPut
  <2>3. count = ring.count + n
    BY <1>6, <1>9 DEF count
  <2> QED
    BY <1>4, <1>6, <1>9, <2>2, <2>3
<1> QED
  BY <1>8, <1>9

\* How the places of the AP's reader, of what it was told and of the task's reader lie.
LEMMA RbDistLess ==
  ASSUME NEW p \in RbSpots, NEW q \in RbSpots, NEW r \in RbSpots, RbDist(p, q) <= RbDist(p, r)
  PROVE  RbDist(q, r) = RbDist(p, r) - RbDist(p, q)
<1>1. RbLen \in Nat \ {0}
  BY RbAssumption
<1>2. p \in Nat /\ p < RbLen /\ q \in Nat /\ q < RbLen /\ r \in Nat /\ r < RbLen
  BY <1>1 DEF RbSpots
<1> QED
  BY <1>1, <1>2 DEF RbDist

LEMMA RbHalves ==
  ASSUME NEW s \in Seq(Nat), NEW m \in 0 .. Len(s)
  PROVE  /\ SubSeq(s, 1, m) \in Seq(Nat) /\ Len(SubSeq(s, 1, m)) = m
         /\ SubSeq(s, m + 1, Len(s)) \in Seq(Nat) /\ Len(SubSeq(s, m + 1, Len(s))) = Len(s) - m
         /\ SubSeq(s, 1, m) \o SubSeq(s, m + 1, Len(s)) = s
<1> DEFINE a == SubSeq(s, 1, m)
           b == SubSeq(s, m + 1, Len(s))
<1>1. Len(s) \in Nat /\ m \in Nat /\ m <= Len(s)
  OBVIOUS
<1>2. \A i \in 1 .. Len(s) : s[i] \in Nat
  BY ElementOfSeq
<1>3. /\ a \in Seq(Nat) /\ Len(a) = IF 1 <= m THEN m - 1 + 1 ELSE 0
      /\ \A i \in 1 .. (m - 1 + 1) : a[i] = s[1 + i - 1]
  BY <1>1, <1>2, SubSeqProperties
<1>4. /\ b \in Seq(Nat) /\ Len(b) = IF m + 1 <= Len(s) THEN Len(s) - (m + 1) + 1 ELSE 0
      /\ \A i \in 1 .. (Len(s) - (m + 1) + 1) : b[i] = s[m + 1 + i - 1]
  BY <1>1, <1>2, SubSeqProperties
<1> HIDE DEF a, b
<1>5. Len(a) = m /\ Len(b) = Len(s) - m
  BY <1>1, <1>3, <1>4
<1>6. \A i \in 1 .. m : a[i] = s[i]
  BY <1>1, <1>3
<1>7. \A i \in 1 .. (Len(s) - m) : b[i] = s[m + i]
  BY <1>1, <1>4
<1>8. /\ a \o b \in Seq(Nat) /\ Len(a \o b) = Len(a) + Len(b)
      /\ \A i \in 1 .. Len(a) : (a \o b)[i] = a[i]
      /\ \A i \in 1 .. Len(b) : (a \o b)[Len(a) + i] = b[i]
  <2>1. a \in Seq(Nat) /\ b \in Seq(Nat)
    BY <1>3, <1>4
  <2> QED
    BY <2>1, ConcatProperties
<1>9. ASSUME NEW i \in 1 .. Len(s) PROVE (a \o b)[i] = s[i]
  <2>1. CASE i <= m
    BY <1>1, <1>5, <1>6, <1>8, <2>1
  <2>2. CASE i > m
    <3> DEFINE j == i - m
    <3>1. j \in 1 .. (Len(s) - m) /\ i = m + j
      BY <1>1, <2>2
    <3> HIDE DEF j
    <3>2. (a \o b)[m + j] = b[j] /\ b[j] = s[m + j]
      BY <1>5, <1>7, <1>8, <3>1
    <3> QED
      BY <3>1, <3>2
  <2>3. i <= m \/ i > m
    BY <1>1
  <2> QED
    BY <2>1, <2>2, <2>3
<1>10. a \o b = s
  <2> DEFINE ab == a \o b
  <2>1. ab \in Seq(Nat) /\ Len(ab) = Len(s)
    BY <1>1, <1>5, <1>8
  <2>2. \A i \in 1 .. Len(ab) : ab[i] = s[i]
    BY <1>9, <2>1
  <2> HIDE DEF ab
  <2>3. ab = s
    BY <2>1, <2>2, SeqEqual
  <2> QED
    BY <2>3 DEF ab
<1> QED
  BY <1>3, <1>4, <1>5, <1>10 DEF a, b

\* What a buffer that only the tasks use holds.
RbOwn(ring, mem, q, stale) ==
    RbHas(ring, Len(q)) /\ RbLies(mem, ring.read, q) /\ (stale \/ ring.count = Len(q))

LEMMA RbOwnIs ==
  ASSUME RbTypeOK, NEW b \in RbBufs
  PROVE  /\ rbRing[b] \in RbRings /\ rbRing[b].read \in RbSpots /\ rbRing[b].write \in RbSpots
         /\ rbRing[b].count \in Nat /\ rbMem[b] \in [RbSpots -> Nat]
         /\ rbQueue[b] \in Seq(Nat) /\ Len(rbQueue[b]) \in Nat
         /\ b # RbShared => RbWaiting(b) = Len(rbQueue[b]) /\
                            (RbWell(b) <=> RbOwn(rbRing[b], rbMem[b], rbQueue[b], b \in rbStale))
<1>1. rbRing[b] \in RbRings /\ rbMem[b] \in [RbSpots -> Nat] /\ rbQueue[b] \in Seq(Nat)
  BY DEF RbTypeOK
<1>2. Len(rbQueue[b]) \in Nat
  BY <1>1
<1>3. b # RbShared => RbWaiting(b) = Len(rbQueue[b])
  BY <1>2 DEF RbWaiting
<1>4. b # RbShared => (RbWell(b) <=> RbOwn(rbRing[b], rbMem[b], rbQueue[b], b \in rbStale))
  BY <1>3 DEF RbWell, RbOwn
<1>5. rbRing[b].read \in RbSpots /\ rbRing[b].write \in RbSpots /\ rbRing[b].count \in Nat
  BY <1>1 DEF RbRings
<1> QED
  BY <1>1, <1>2, <1>3, <1>4, <1>5

\* A step of two buffers of the tasks, which may be one.
LEMMA RbOwnStep ==
  ASSUME RbInv, NEW s \in RbBufs, NEW t \in RbBufs, s # RbShared, t # RbShared,
         RbTypeOK', rbGiven', rbLink' = rbLink,
         \A b \in RbBufs : b # s /\ b # t =>
            rbRing'[b] = rbRing[b] /\ rbMem'[b] = rbMem[b] /\ rbQueue'[b] = rbQueue[b],
         rbStale' \ {s, t} = rbStale \ {s, t}, rbOver' \ {s, t} = rbOver \ {s, t},
         \A b \in {s, t} : b \notin rbOver' =>
            RbOwn(rbRing'[b], rbMem'[b], rbQueue'[b], b \in rbStale')
  PROVE  RbInv'
<1>1. RbShared \in RbBufs
  BY RbAssumption
<1>2. rbBridge' = rbBridge /\ rbAp' = rbAp /\ rbSent' = rbSent
  BY DEF rbLink
<1>3. RbShares'
  BY <1>1, <1>2 DEF RbShares, RbInv
<1>4. ASSUME NEW b \in RbBufs, b \notin rbOver' PROVE RbWell(b)'
  <2>1. CASE b \in {s, t}
    <3>1. RbOwn(rbRing'[b], rbMem'[b], rbQueue'[b], b \in rbStale')
      BY <1>4, <2>1
    <3>2. rbQueue'[b] \in Seq(Nat) /\ b # RbShared
      BY <2>1 DEF RbTypeOK
    <3>3. RbWaiting(b)' = Len(rbQueue'[b])
      BY <3>2 DEF RbWaiting
    <3> QED
      BY <3>1, <3>3 DEF RbWell, RbOwn
  <2>2. CASE b \notin {s, t}
    <3>1. b \notin rbOver /\ (b \in rbStale' <=> b \in rbStale)
      BY <1>4, <2>2
    <3>2. RbWell(b)
      BY <3>1 DEF RbInv
    <3>3. rbRing'[b] = rbRing[b] /\ rbMem'[b] = rbMem[b] /\ rbQueue'[b] = rbQueue[b]
      BY <2>2
    <3>4. RbWaiting(b)' = RbWaiting(b)
      BY <1>2, <3>3 DEF RbWaiting
    <3> QED
      BY <3>1, <3>2, <3>3, <3>4 DEF RbWell
  <2> QED
    BY <2>1, <2>2
<1> QED
  BY <1>3, <1>4 DEF RbInv

\* A step of one.
LEMMA RbOneStep ==
  ASSUME RbInv, NEW b \in RbBufs, b # RbShared, NEW ring, NEW mem, NEW q,
         rbRing' = [rbRing EXCEPT ![b] = ring], rbMem' = [rbMem EXCEPT ![b] = mem],
         rbQueue' = [rbQueue EXCEPT ![b] = q],
         ring \in RbRings, mem \in [RbSpots -> Nat], q \in Seq(Nat),
         rbNext' \in Nat, rbGiven', rbLink' = rbLink,
         rbStale' \ {b} = rbStale \ {b}, rbOver' \ {b} = rbOver \ {b},
         b \notin rbOver' => RbOwn(ring, mem, q, b \in rbStale')
  PROVE  RbInv'
<1>1. /\ rbRing'[b] = ring /\ rbMem'[b] = mem /\ rbQueue'[b] = q
      /\ \A c \in RbBufs : c # b => rbRing'[c] = rbRing[c] /\ rbMem'[c] = rbMem[c]
                                    /\ rbQueue'[c] = rbQueue[c]
  BY DEF RbInv, RbTypeOK
<1>2. RbTypeOK'
  <2>1. rbRing' \in [RbBufs -> RbRings] /\ rbMem' \in [RbBufs -> [RbSpots -> Nat]]
        /\ rbQueue' \in [RbBufs -> Seq(Nat)]
    BY DEF RbInv, RbTypeOK
  <2>2. rbStale' \subseteq RbBufs /\ rbOver' \subseteq RbBufs
    BY DEF RbInv, RbTypeOK
  <2>3. rbBridge' = rbBridge /\ rbAp' = rbAp /\ rbSent' = rbSent
    BY DEF rbLink
  <2> QED
    BY <2>1, <2>2, <2>3 DEF RbInv, RbTypeOK
<1>3. rbStale' \ {b, b} = rbStale \ {b, b} /\ rbOver' \ {b, b} = rbOver \ {b, b}
  OBVIOUS
<1>4. \A c \in {b, b} : c \notin rbOver' => RbOwn(rbRing'[c], rbMem'[c], rbQueue'[c], c \in rbStale')
  BY <1>1
<1> QED
  BY <1>1, <1>2, <1>3, <1>4, RbOwnStep

\* What a buffer of the tasks becomes when bytes are written that there is room for.
LEMMA RbOwnGrows ==
  ASSUME NEW ring \in RbRings, NEW mem \in [RbSpots -> Nat], NEW q \in Seq(Nat),
         NEW stale, RbOwn(ring, mem, q, stale),
         NEW data \in Seq(Nat), RbFits(ring, data)
  PROVE  /\ RbPut(ring, Len(data)) \in RbRings /\ RbStored(mem, ring, data) \in [RbSpots -> Nat]
         /\ q \o data \in Seq(Nat) /\ Len(q \o data) = Len(q) + Len(data)
         /\ RbOwn(RbPut(ring, Len(data)), RbStored(mem, ring, data), q \o data, stale)
         /\ RbPut(ring, Len(data)).count = ring.count + Len(data)
<1>1. RbLen \in Nat \ {0} /\ Len(q) \in Nat /\ Len(data) \in Nat /\ ring.count \in Nat
      /\ ring.read \in RbSpots
  BY RbAssumption DEF RbRings
<1>2. RbHas(ring, Len(q)) /\ RbLies(mem, ring.read, q) /\ ring.write = RbAt(ring.read, Len(q))
      /\ Len(q) <= ring.count /\ (stale \/ ring.count = Len(q))
  BY DEF RbOwn, RbHas
<1>3. Len(data) <= RbLen - ring.count /\ Len(q) + Len(data) <= RbLen
  <2>1. Len(data) <= RbLen - ring.count
    BY DEF RbFits, RbSpace
  <2> QED
    BY <1>1, <1>2, <2>1
<1>4. /\ RbStored(mem, ring, data) \in [RbSpots -> Nat]
      /\ q \o data \in Seq(Nat) /\ Len(q \o data) = Len(q) + Len(data)
      /\ RbLies(RbStored(mem, ring, data), ring.read, q \o data)
  BY <1>1, <1>2, <1>3, RbWrites
<1>5. /\ RbPut(ring, Len(data)) \in RbRings /\ RbHas(RbPut(ring, Len(data)), Len(q) + Len(data))
      /\ RbPut(ring, Len(data)).read = ring.read
      /\ RbPut(ring, Len(data)).count = ring.count + Len(data)
  BY <1>1, <1>2, <1>3, RbPuts
<1>6. stale \/ RbPut(ring, Len(data)).count = Len(q \o data)
  BY <1>2, <1>4, <1>5
<1>7. RbOwn(RbPut(ring, Len(data)), RbStored(mem, ring, data), q \o data, stale)
  BY <1>4, <1>5, <1>6 DEF RbOwn
<1> QED
  BY <1>4, <1>5, <1>7

LEMMA RbOwnKeeps ==
  ASSUME RbInv, NEW b \in RbBufs, b \notin rbOver, b # RbShared
  PROVE  RbOwn(rbRing[b], rbMem[b], rbQueue[b], b \in rbStale)
<1>1. RbWell(b) /\ RbTypeOK
  BY DEF RbInv
<1> QED
  BY <1>1, RbOwnIs

LEMMA RbUsesOwn ==
  ASSUME NEW b \in RbBufs, NEW call \in {"write", "value", "moved", "source", "target"},
         RbCall(call, b)
  PROVE  b # RbShared /\ b \notin rbOver
BY RbAssumption DEF RbCall

LEMMA RbCopyFromLinearKeeps ==
  ASSUME RbInv, NEW b \in RbBufs, NEW n \in RbCounts, RbCall("write", b),
         RingBuf_copyFromLinear(b, n)
  PROVE  RbInv'
<1> DEFINE data == RbFresh(n)
           ring == rbRing[b]
           mem == rbMem[b]
           q == rbQueue[b]
<1>1. n \in Nat /\ b # RbShared /\ b \notin rbOver /\ RbTypeOK
  BY RbUsesOwn, RbAssumption DEF RbInv
<1>2. data \in Seq(Nat) /\ Len(data) = n /\ rbNext' \in Nat
  BY <1>1, RbFreshIs DEF RingBuf_copyFromLinear
<1>3. ring \in RbRings /\ mem \in [RbSpots -> Nat] /\ q \in Seq(Nat)
      /\ RbOwn(ring, mem, q, b \in rbStale)
  BY <1>1, RbOwnIs, RbOwnKeeps
<1>4. /\ rbRing' = [rbRing EXCEPT ![b] = RbIn(ring, data)]
      /\ rbMem' = [rbMem EXCEPT ![b] = RbMemIn(mem, ring, data)]
      /\ rbQueue' = [rbQueue EXCEPT ![b] = IF RbFits(ring, data) THEN q \o data ELSE q]
      /\ rbGiven' /\ rbLink' = rbLink /\ rbStale' = rbStale /\ rbOver' = rbOver
  BY DEF RingBuf_copyFromLinear
<1> HIDE DEF data, ring, mem, q
<1>5. CASE RbFits(ring, data)
  <2>1. /\ RbPut(ring, Len(data)) \in RbRings /\ RbStored(mem, ring, data) \in [RbSpots -> Nat]
        /\ q \o data \in Seq(Nat)
        /\ RbOwn(RbPut(ring, Len(data)), RbStored(mem, ring, data), q \o data, b \in rbStale)
    BY <1>2, <1>3, <1>5, RbOwnGrows
  <2>2. /\ rbRing' = [rbRing EXCEPT ![b] = RbPut(ring, Len(data))]
        /\ rbMem' = [rbMem EXCEPT ![b] = RbStored(mem, ring, data)]
        /\ rbQueue' = [rbQueue EXCEPT ![b] = q \o data]
    BY <1>4, <1>5 DEF RbIn, RbMemIn
  <2> QED
    BY <1>1, <1>2, <1>4, <2>1, <2>2, RbOneStep
<1>6. CASE ~RbFits(ring, data)
  <2>1. /\ rbRing' = [rbRing EXCEPT ![b] = ring] /\ rbMem' = [rbMem EXCEPT ![b] = mem]
        /\ rbQueue' = [rbQueue EXCEPT ![b] = q]
    BY <1>4, <1>6 DEF RbIn, RbMemIn
  <2> QED
    BY <1>1, <1>2, <1>3, <1>4, <2>1, RbOneStep
<1> QED
  BY <1>5, <1>6

LEMMA RbWriteDataValueKeeps ==
  ASSUME RbInv, NEW b \in RbBufs, NEW n \in RbCounts, RbCall("value", b),
         RingBuf_writeDataValue(b, n)
  PROVE  RbInv'
<1> DEFINE data == [k \in 1 .. n |-> rbNext]
           ring == rbRing[b]
           mem == rbMem[b]
           q == rbQueue[b]
<1>1. n \in Nat /\ b # RbShared /\ b \notin rbOver /\ RbTypeOK /\ rbNext \in Nat
      /\ RbBytes \in Nat \ {0}
  BY RbUsesOwn, RbAssumption DEF RbInv, RbTypeOK
<1>2. data \in Seq(Nat) /\ Len(data) = n
  <2>1. data \in [1 .. n -> Nat]
    BY <1>1
  <2> QED
    BY <1>1, <2>1
<1>3. rbNext' \in Nat
  BY <1>1 DEF RingBuf_writeDataValue
<1>4. ring \in RbRings /\ mem \in [RbSpots -> Nat] /\ q \in Seq(Nat)
      /\ RbOwn(ring, mem, q, b \in rbStale)
  BY <1>1, RbOwnIs, RbOwnKeeps
<1>5. /\ rbRing' = [rbRing EXCEPT ![b] = RbPut(ring, n)]
      /\ rbMem' = [rbMem EXCEPT ![b] = RbStored(mem, ring, data)]
      /\ rbQueue' = [rbQueue EXCEPT ![b] = q \o data] /\ n <= RbSpace(ring)
      /\ rbGiven' /\ rbLink' = rbLink /\ rbStale' = rbStale /\ rbOver' = rbOver
  BY DEF RingBuf_writeDataValue
<1> HIDE DEF data, ring, mem, q
<1>6. RbFits(ring, data)
  BY <1>2, <1>5 DEF RbFits
<1>7. /\ RbPut(ring, n) \in RbRings /\ RbStored(mem, ring, data) \in [RbSpots -> Nat]
      /\ q \o data \in Seq(Nat)
      /\ RbOwn(RbPut(ring, n), RbStored(mem, ring, data), q \o data, b \in rbStale)
  BY <1>2, <1>4, <1>6, RbOwnGrows
<1> QED
  BY <1>1, <1>3, <1>5, <1>7, RbOneStep

\* The hardware writes the same bytes in the same places as RingBuf_copyFromLinear.
LEMMA RbHardwareWrites ==
  ASSUME RbTypeOK, NEW mem \in [RbSpots -> Nat], NEW w \in RbSpots, NEW n \in Nat, n <= RbLen,
         NEW m, m = RbFilled(mem, w, n), NEW data, data = RbFresh(n)
  PROVE  /\ m \in [RbSpots -> Nat]
         /\ RbFills(m, mem, w, data)
<1>1. RbLen \in Nat \ {0} /\ RbBytes \in Nat \ {0} /\ rbNext \in Nat /\ Len(RbFresh(n)) = n
  BY RbAssumption, RbFreshIs DEF RbTypeOK
<1>2. \A p \in RbSpots : (p - w) % RbLen = RbDist(w, p) /\ RbDist(w, p) \in RbSpots
                         /\ RbAt(w, RbDist(w, p)) = p
  BY RbDistIs
<1>3. \A j \in Nat : (rbNext + j) % RbBytes \in Nat
  BY <1>1
<1>4. m = [p \in RbSpots |-> IF RbDist(w, p) < n THEN (rbNext + RbDist(w, p)) % RbBytes ELSE mem[p]]
  BY <1>2 DEF RbSpots, RbFilled
<1>5. \A p \in RbSpots : RbDist(w, p) \in Nat
  <2>1. \A x \in RbSpots : x \in Nat
    BY <1>1 DEF RbSpots
  <2> QED
    BY <1>2, <2>1
<1>6. m \in [RbSpots -> Nat]
  BY <1>3, <1>4, <1>5
<1>7. ASSUME NEW k \in 1 .. n PROVE m[RbAt(w, k - 1)] = RbFresh(n)[k]
  <2> DEFINE p == RbAt(w, k - 1)
             d == RbDist(w, p)
  <2>1. k - 1 \in 0 .. RbLen /\ k - 1 < n
    BY <1>1
  <2>2. k - 1 \in RbSpots
    BY <1>1, <2>1 DEF RbSpots
  <2>3. p \in RbSpots
    BY <2>1, RbAtIs
  <2>4. d \in RbSpots /\ RbAt(w, d) = RbAt(w, k - 1)
    BY <1>2, <2>3
  <2> HIDE DEF d
  <2>5. d = k - 1
    BY <2>2, <2>4, RbAtOne
  <2>6. m[p] = IF d < n THEN (rbNext + d) % RbBytes ELSE mem[p]
    BY <1>4, <2>3 DEF d
  <2>7. rbNext + (k - 1) = rbNext + k - 1
    BY <1>1, <2>1
  <2>8. m[p] = (rbNext + k - 1) % RbBytes
    BY <2>1, <2>5, <2>6, <2>7
  <2> QED
    BY <2>8 DEF RbFresh
<1>8. ASSUME NEW p \in RbSpots, \A k \in 1 .. n : RbAt(w, k - 1) # p PROVE m[p] = mem[p]
  <2> DEFINE d == RbDist(w, p)
  <2>1. d \in Nat /\ RbAt(w, d) = p
    BY <1>2, <1>5
  <2>2. m[p] = IF d < n THEN (rbNext + d) % RbBytes ELSE mem[p]
    BY <1>4
  <2> HIDE DEF d
  <2>3. ~(d < n)
    <3>1. SUFFICES ASSUME d < n PROVE FALSE
      OBVIOUS
    <3>2. d + 1 \in 1 .. n /\ (d + 1) - 1 = d
      BY <2>1, <3>1
    <3> QED
      BY <1>8, <2>1, <3>2
  <2> QED
    BY <2>2, <2>3
<1> QED
  BY <1>1, <1>6, <1>7, <1>8 DEF RbFills

LEMMA RbUpdateWriteptrKeeps ==
  ASSUME RbInv, NEW b \in RbBufs, NEW n \in RbCounts, RbCall("moved", b),
         RingBuf_update_writeptr(b, n)
  PROVE  RbInv'
<1> DEFINE data == RbFresh(n)
           ring == rbRing[b]
           mem == rbMem[b]
           q == rbQueue[b]
           m == RbFilled(mem, ring.write, n)
<1>1. n \in Nat /\ n <= RbLen /\ b # RbShared /\ b \notin rbOver /\ RbTypeOK /\ RbLen \in Nat \ {0}
  BY RbUsesOwn, RbAssumption DEF RbInv
<1>2. data \in Seq(Nat) /\ Len(data) = n /\ rbNext' \in Nat
  BY <1>1, RbFreshIs DEF RingBuf_update_writeptr
<1>3. ring \in RbRings /\ mem \in [RbSpots -> Nat] /\ q \in Seq(Nat) /\ Len(q) \in Nat
      /\ ring.write \in RbSpots /\ ring.read \in RbSpots /\ ring.count \in Nat
      /\ RbOwn(ring, mem, q, b \in rbStale)
  BY <1>1, RbOwnIs, RbOwnKeeps
<1>4. /\ rbRing' = [rbRing EXCEPT ![b] = RbWritePtr(ring, n)]
      /\ rbMem' = [rbMem EXCEPT ![b] = m]
      /\ rbQueue' = [rbQueue EXCEPT ![b] = q \o data]
      /\ rbOver' = IF n > RbSpace(ring) THEN rbOver \cup {b} ELSE rbOver
      /\ rbGiven' /\ rbLink' = rbLink /\ rbStale' = rbStale
  BY DEF RingBuf_update_writeptr
<1>5. m \in [RbSpots -> Nat] /\ RbFills(m, mem, ring.write, data)
  <2> HIDE DEF ring, mem, q
  <2> QED
    BY <1>1, <1>3, RbHardwareWrites
<1> HIDE DEF data, ring, mem, q, m
<1>6. RbHas(ring, Len(q)) /\ RbLies(mem, ring.read, q) /\ ring.write = RbAt(ring.read, Len(q))
      /\ Len(q) <= ring.count /\ (b \in rbStale \/ ring.count = Len(q))
  BY <1>3 DEF RbOwn, RbHas
<1>7. RbWritePtr(ring, n) \in RbRings
      /\ (n <= RbLen - ring.count => RbWritePtr(ring, n) = RbPut(ring, n))
  BY <1>1, <1>3, <1>6, RbWritePtrIs
<1>8. q \o data \in Seq(Nat)
  BY <1>2, <1>3
<1>9. CASE n > RbSpace(ring)
  <2>1. rbOver' \ {b} = rbOver \ {b} /\ b \in rbOver'
    BY <1>4, <1>9
  <2> QED
    BY <1>1, <1>2, <1>4, <1>5, <1>7, <1>8, <2>1, RbOneStep
<1>10. CASE ~(n > RbSpace(ring))
  <2>1. n <= RbLen - ring.count /\ rbOver' = rbOver /\ Len(q) + n <= RbLen
    BY <1>1, <1>3, <1>4, <1>6, <1>10 DEF RbSpace
  <2>2. RbWritePtr(ring, n) \in RbRings /\ RbHas(RbWritePtr(ring, n), Len(q) + n)
        /\ RbWritePtr(ring, n).read = ring.read /\ RbWritePtr(ring, n).count = ring.count + n
    BY <1>1, <1>3, <1>6, <1>7, <2>1, RbPuts
  <2>3. Len(q \o data) = Len(q) + n /\ RbLies(m, ring.read, q \o data)
    <3>1. m \in [RbSpots -> Nat] /\ mem \in [RbSpots -> Nat] /\ ring.read \in RbSpots
          /\ q \in Seq(Nat) /\ data \in Seq(Nat) /\ Len(q) + Len(data) <= RbLen
          /\ RbLies(mem, ring.read, q)
      BY <1>2, <1>3, <1>5, <1>6, <2>1
    <3>2. RbFills(m, mem, RbAt(ring.read, Len(q)), data)
      BY <1>5, <1>6
    <3> DEFINE r == ring.read
    <3> HIDE DEF r
    <3>3. /\ m \in [RbSpots -> Nat] /\ mem \in [RbSpots -> Nat] /\ r \in RbSpots
          /\ q \in Seq(Nat) /\ data \in Seq(Nat) /\ Len(q) + Len(data) <= RbLen
          /\ RbLies(mem, r, q) /\ RbFills(m, mem, RbAt(r, Len(q)), data)
      BY <3>1, <3>2 DEF r
    <3>4. q \o data \in Seq(Nat) /\ Len(q \o data) = Len(q) + Len(data) /\ RbLies(m, r, q \o data)
      BY <3>3, RbLiesOn
    <3> QED
      BY <1>2, <3>4 DEF r
  <2>4. RbOwn(RbWritePtr(ring, n), m, q \o data, b \in rbStale')
    BY <1>3, <1>4, <1>6, <2>2, <2>3 DEF RbOwn
  <2> QED
    BY <1>1, <1>2, <1>4, <1>5, <1>7, <1>8, <2>1, <2>4, RbOneStep
<1> QED
  BY <1>9, <1>10

LEMMA RbWaitingIs ==
  ASSUME RbInv, NEW b \in RbBufs, b \notin rbOver
  PROVE  /\ RbWaiting(b) \in Nat /\ RbWaiting(b) <= Len(rbQueue[b])
         /\ RbHas(rbRing[b], RbWaiting(b)) /\ RbLies(rbMem[b], rbRing[b].read, rbQueue[b])
<1>1. RbTypeOK /\ RbWell(b)
  BY DEF RbInv
<1>2. Len(rbQueue[b]) \in Nat /\ rbSent \in Nat
  BY <1>1, RbOwnIs DEF RbTypeOK
<1>3. RbWaiting(b) \in Int /\ RbWaiting(b) <= Len(rbQueue[b])
  <2>1. CASE b = RbShared
    BY <1>2, <2>1 DEF RbWaiting
  <2>2. CASE b # RbShared
    <3>1. RbWaiting(b) = Len(rbQueue[b]) - 0
      BY <2>2 DEF RbWaiting
    <3> QED
      BY <1>2, <3>1
  <2> QED
    BY <2>1, <2>2
<1> QED
  BY <1>1, <1>3 DEF RbWell, RbHas

\* A reader takes the first n bytes that wait, and has told the AP before.
LEMMA RbTakesKeeps ==
  ASSUME RbInv, NEW b \in RbBufs, b \notin rbOver, NEW n \in Nat,
         RbTold(b, n), n <= RbWaiting(b),
         rbRing' = [rbRing EXCEPT ![b] = RbTake(rbRing[b], n)],
         rbQueue' = [rbQueue EXCEPT ![b] = SubSeq(rbQueue[b], n + 1, Len(rbQueue[b]))],
         rbMem' = rbMem, rbLink' = rbLink, rbNext' = rbNext, rbGiven',
         rbStale' = rbStale, rbOver' = rbOver
  PROVE  RbInv'
<1> DEFINE ring == rbRing[b]
           q == rbQueue[b]
           rest == SubSeq(q, n + 1, Len(q))
           c == RbWaiting(b)
<1>1. RbTypeOK /\ RbShared \in RbBufs /\ RbLen \in Nat \ {0}
  BY RbAssumption DEF RbInv
<1>2. /\ ring \in RbRings /\ ring.read \in RbSpots /\ ring.count \in Nat
      /\ rbMem[b] \in [RbSpots -> Nat] /\ q \in Seq(Nat) /\ Len(q) \in Nat
  BY <1>1, RbOwnIs
<1>3. c \in Nat /\ c <= Len(q) /\ RbHas(ring, c) /\ RbLies(rbMem[b], ring.read, q)
  BY RbWaitingIs
<1>4. rbLink' = rbLink /\ rbBridge' = rbBridge /\ rbAp' = rbAp /\ rbSent' = rbSent
  BY DEF rbLink
<1>5. n <= c /\ n <= Len(q)
  BY <1>2, <1>3
<1> HIDE DEF ring, c
<1>6. /\ rest \in Seq(Nat) /\ Len(rest) = Len(q) - n
      /\ RbAt(ring.read, n) \in RbSpots /\ RbLies(rbMem[b], RbAt(ring.read, n), rest)
  BY <1>2, <1>3, <1>5, RbLeaves
<1>7. /\ RbTake(ring, n) \in RbRings /\ RbHas(RbTake(ring, n), c - n)
      /\ RbTake(ring, n).read = RbAt(ring.read, n) /\ RbTake(ring, n).count = ring.count - n
  BY <1>2, <1>3, <1>5, RbTakes
<1>8. rbRing' = [rbRing EXCEPT ![b] = RbTake(ring, n)] /\ rbQueue' = [rbQueue EXCEPT ![b] = rest]
  BY DEF ring
<1> HIDE DEF q, rest
<1>9. rbRing'[b] = RbTake(ring, n) /\ rbQueue'[b] = rest
  BY <1>1, <1>8 DEF RbTypeOK
<1>10. RbTypeOK'
  <2>1. rbRing' \in [RbBufs -> RbRings] /\ rbQueue' \in [RbBufs -> Seq(Nat)]
    BY <1>1, <1>6, <1>7, <1>8 DEF RbTypeOK
  <2> QED
    BY <1>1, <1>4, <2>1 DEF RbTypeOK
<1>11. b \in rbStale \/ ring.count = c
  BY DEF RbInv, RbWell, ring, c
<1>12. b \in rbStale \/ RbTake(ring, n).count = c - n
  BY <1>7, <1>11
<1>13. CASE b # RbShared
  <2>1. c = Len(q)
    BY <1>1, <1>13, RbOwnIs DEF c, q
  <2>2. RbOwn(RbTake(ring, n), rbMem[b], rest, b \in rbStale')
    BY <1>6, <1>7, <1>12, <2>1 DEF RbOwn
  <2>3. rbMem' = [rbMem EXCEPT ![b] = rbMem[b]] /\ rbNext' \in Nat
    BY <1>1 DEF RbTypeOK
  <2> QED
    BY <1>2, <1>4, <1>6, <1>7, <1>8, <1>13, <2>2, <2>3, RbOneStep
<1>14. CASE b = RbShared
  <2> DEFINE ahead == RbDist(rbAp.read, ring.read)
             told == RbDist(rbAp.read, rbBridge.read)
  <2>1. /\ RbShared \notin rbOver \cup rbStale
        /\ rbAp.count = Len(q) + ahead /\ rbAp.count <= RbLen
        /\ rbAp.write = RbAt(ring.read, Len(q))
        /\ rbSent > 0 => rbBridge.write = rbAp.write
        /\ rbSent = RbLen => rbBridge.count = RbLen
        /\ told <= ahead
    BY <1>14 DEF RbInv, RbShares, ring, q
  <2>2. rbAp.read \in RbSpots /\ rbBridge.read \in RbSpots
    BY <1>1 DEF RbTypeOK, RbRings
  <2>3. ahead \in RbSpots /\ told \in RbSpots /\ (ring.read - rbAp.read) % RbLen = ahead
    BY <1>2, <2>2, RbDistIs
  <2>4. ahead \in Nat /\ told \in Nat
    BY <1>1, <2>3 DEF RbSpots
  <2>5. ahead + n < RbLen
    <3>1. n + ahead < RbLen
      BY <1>14, <2>3 DEF RbTold, ring
    <3> QED
      BY <2>4, <3>1
  <2>6. RbDist(rbAp.read, RbAt(ring.read, n)) = ahead + n
    BY <1>2, <2>2, <2>5, RbDistAt
  <2>7. RbAt(RbAt(ring.read, n), Len(q) - n) = RbAt(ring.read, Len(q))
    <3>1. Len(q) - n \in Nat /\ n + (Len(q) - n) = Len(q) /\ Len(q) <= RbLen
      BY <1>2, <1>3, <1>5 DEF RbLies
    <3> QED
      BY <1>2, <3>1, RbAtAt
  <2> HIDE DEF ahead, told
  <2>8. rbAp.count = Len(rest) + (ahead + n) /\ told <= ahead + n
    BY <1>2, <1>6, <2>1, <2>4
  <2>9. RbShares'
    BY <1>4, <1>6, <1>7, <1>9, <1>14, <2>1, <2>6, <2>7, <2>8 DEF RbShares, told
  <2>10. ASSUME NEW a \in RbBufs, a \notin rbOver' PROVE RbWell(a)'
    <3>1. CASE a = b
      <4>1. RbWaiting(a)' = c - n
        <5>1. c = Len(q) - rbSent /\ rbSent \in Nat
          BY <1>1, <1>14 DEF RbTypeOK, RbWaiting, c, q
        <5>2. RbWaiting(a)' = Len(rest) - rbSent
          BY <1>4, <1>9, <1>14, <3>1 DEF RbWaiting
        <5> QED
          BY <1>2, <1>6, <5>1, <5>2
      <4>2. rbRing'[a] = RbTake(ring, n) /\ rbQueue'[a] = rest /\ rbMem'[a] = rbMem[b]
        BY <1>9, <3>1
      <4> QED
        BY <1>6, <1>7, <1>12, <3>1, <4>1, <4>2 DEF RbWell
    <3>2. CASE a # b
      <4>1. rbRing'[a] = rbRing[a] /\ rbQueue'[a] = rbQueue[a] /\ RbWell(a)
        BY <1>1, <1>8, <2>10, <3>2 DEF RbTypeOK, RbInv
      <4>2. RbWaiting(a)' = RbWaiting(a)
        BY <1>4, <4>1 DEF RbWaiting
      <4> QED
        BY <4>1, <4>2 DEF RbWell
    <3> QED
      BY <3>1, <3>2
  <2> QED
    BY <1>10, <2>9, <2>10 DEF RbInv
<1> QED
  BY <1>13, <1>14

LEMMA RbOutKeeps ==
  ASSUME RbInv, NEW b \in RbBufs, b \notin rbOver, NEW n \in RbCounts, RbTold(b, n),
         NEW whole \in BOOLEAN, RbOut(b, n, whole),
         whole => n = 0 \/ rbRing[b].read < rbRing[b].write
  PROVE  RbInv'
<1>1. RbTypeOK /\ n \in Nat
  BY RbAssumption DEF RbInv
<1>2. /\ RbWaiting(b) \in Nat /\ RbWaiting(b) <= Len(rbQueue[b])
      /\ RbHas(rbRing[b], RbWaiting(b)) /\ RbLies(rbMem[b], rbRing[b].read, rbQueue[b])
  BY RbWaitingIs
<1>3. n <= RbWaiting(b)
  BY DEF RbOut
<1>4. RbPiece(b, n, whole) = SubSeq(rbQueue[b], 1, n)
  BY <1>1, <1>2, <1>3, RbReads
<1>5. /\ rbRing' = [rbRing EXCEPT ![b] = RbTake(rbRing[b], n)]
      /\ rbQueue' = [rbQueue EXCEPT ![b] = SubSeq(rbQueue[b], n + 1, Len(rbQueue[b]))]
      /\ rbMem' = rbMem /\ rbLink' = rbLink /\ rbNext' = rbNext
      /\ rbStale' = rbStale /\ rbOver' = rbOver
  BY DEF RbOut
<1>6. rbGiven'
  BY <1>4 DEF RbOut
<1> QED
  BY <1>1, <1>3, <1>5, <1>6, RbTakesKeeps

LEMMA RbReadsKeep ==
  ASSUME RbInv, NEW b \in RbBufs, b \notin rbOver, NEW n \in RbCounts, RbTold(b, n),
         RingBuf_copyToLinear(b, n) \/ RingBuf_copyToLinear_dma(b, n)
  PROVE  RbInv'
<1>1. RbTypeOK /\ n \in Nat
  BY RbAssumption DEF RbInv
<1>2. CASE RingBuf_copyToLinear(b, n)
  <2> DEFINE whole == rbRing[b].read < rbRing[b].write
  <2>1. RbOut(b, n, whole) /\ whole \in BOOLEAN
    BY <1>2 DEF RingBuf_copyToLinear
  <2> QED
    BY <2>1, RbOutKeeps
<1>3. CASE RingBuf_copyToLinear_dma(b, n)
  <2> DEFINE whole == rbRing[b].read <= rbRing[b].write
  <2>1. RbOut(b, n, whole) /\ whole \in BOOLEAN /\ n <= RbWaiting(b) /\ rbRing[b].count < RbLen
    BY <1>3 DEF RingBuf_copyToLinear_dma, RbOut
  <2>2. RbWaiting(b) \in Nat /\ RbHas(rbRing[b], RbWaiting(b))
    BY RbWaitingIs
  <2>3. /\ rbRing[b].read \in RbSpots /\ rbRing[b].write \in RbSpots /\ rbRing[b].count \in Nat
        /\ RbLen \in Nat \ {0}
    BY <1>1, RbOwnIs, RbAssumption
  <2>4. /\ rbRing[b].read \in Nat /\ rbRing[b].write \in Nat /\ rbRing[b].read < RbLen
    BY <2>3 DEF RbSpots
  <2>5. rbRing[b].write = RbAt(rbRing[b].read, RbWaiting(b)) /\ RbWaiting(b) < RbLen
    BY <2>1, <2>2, <2>3 DEF RbHas
  <2>6. rbRing[b].read = rbRing[b].write => n = 0
    BY <1>1, <2>1, <2>2, <2>3, <2>4, <2>5 DEF RbAt
  <2>7. whole => n = 0 \/ rbRing[b].read < rbRing[b].write
    BY <2>4, <2>6
  <2> QED
    BY <2>1, <2>7, RbOutKeeps
<1> QED
  BY <1>2, <1>3

LEMMA RbSkipKeeps ==
  ASSUME RbInv, NEW b \in RbBufs, b \notin rbOver, NEW n \in RbCounts, RbTold(b, n),
         RingBuf_update_readptr(b, n)
  PROVE  RbInv'
<1>1. RbTypeOK /\ n \in Nat
  BY RbAssumption DEF RbInv
<1>2. RbWaiting(b) \in Nat /\ RbHas(rbRing[b], RbWaiting(b)) /\ rbRing[b] \in RbRings
  BY <1>1, RbWaitingIs, RbOwnIs
<1>3. /\ rbRing' = [rbRing EXCEPT ![b] = RbReadPtr(rbRing[b], n)]
      /\ rbQueue' = [rbQueue EXCEPT ![b] = SubSeq(rbQueue[b], n + 1, Len(rbQueue[b]))]
      /\ rbMem' = rbMem /\ rbLink' = rbLink /\ rbNext' = rbNext /\ rbGiven'
      /\ rbStale' = rbStale /\ rbOver' = rbOver /\ n <= RbWaiting(b)
  BY DEF RingBuf_update_readptr
<1>4. RbReadPtr(rbRing[b], n) = RbTake(rbRing[b], n)
  BY <1>1, <1>2, <1>3, RbTakes
<1> QED
  BY <1>1, <1>3, <1>4, RbTakesKeeps

LEMMA RbConcat ==
  ASSUME NEW a \in Seq(Nat), NEW b \in Seq(Nat), NEW c \in Seq(Nat)
  PROVE  (a \o b) \o c = a \o (b \o c)
BY ConcatAssociative

\* Bytes of one buffer go to another in two calls of RingBuf_copyFromLinear; the source
\* keeps its count.
LEMMA RbMovedKeeps ==
  ASSUME RbInv, NEW s \in RbBufs, NEW t \in RbBufs, RbCall("source", s), RbCall("target", t),
         NEW n \in Nat, NEW one \in Seq(Nat), NEW two \in Seq(Nat),
         one \o two = SubSeq(rbQueue[s], 1, n), Len(one) + Len(two) = n,
         RbMoved(s, t, n, <<one, two>>)
  PROVE  RbInv'
<1> DEFINE sr == rbRing[s]
           sq == rbQueue[s]
           tr == rbRing[t]
           tm == rbMem[t]
           tq == rbQueue[t]
           tr1 == RbPut(tr, Len(one))
           tm1 == RbStored(tm, tr, one)
           tq1 == tq \o one
           tr2 == RbPut(tr1, Len(two))
           tm2 == RbStored(tm1, tr1, two)
           tq2 == tq1 \o two
           rest == SubSeq(sq, n + 1, Len(sq))
           gone == [sr EXCEPT !.read = (@ + n) % RbLen]
<1>1. /\ RbTypeOK /\ s # RbShared /\ t # RbShared /\ s \notin rbOver /\ t \notin rbOver /\ s # t
      /\ RbLen \in Nat \ {0} /\ Len(one) \in Nat /\ Len(two) \in Nat
  BY RbUsesOwn, RbAssumption DEF RbInv, RbMoved
<1>2. /\ RbOwn(sr, rbMem[s], sq, s \in rbStale) /\ RbOwn(tr, tm, tq, t \in rbStale)
  BY <1>1, RbOwnKeeps
<1>3. /\ sr \in RbRings /\ rbMem[s] \in [RbSpots -> Nat] /\ sq \in Seq(Nat) /\ Len(sq) \in Nat
      /\ sr.read \in RbSpots /\ sr.write \in RbSpots /\ sr.count \in Nat /\ RbWaiting(s) = Len(sq)
  BY <1>1, RbOwnIs
<1>4. /\ tr \in RbRings /\ tm \in [RbSpots -> Nat] /\ tq \in Seq(Nat) /\ Len(tq) \in Nat
      /\ tr.count \in Nat
  BY <1>1, RbOwnIs
<1>5. /\ n <= Len(sq) /\ n <= RbLen - tr.count
  BY <1>3 DEF RbMoved, RbSpace
<1>6. /\ rbRing' = [rbRing EXCEPT ![t] = RbIn(RbIn(tr, one), two), ![s].read = (@ + n) % RbLen]
      /\ rbMem' = [rbMem EXCEPT ![t] = RbMemIn(RbMemIn(tm, tr, one), RbIn(tr, one), two)]
      /\ rbQueue' = [rbQueue EXCEPT ![t] = tq \o (one \o two), ![s] = rest]
      /\ rbStale' = IF n > 0 THEN rbStale \cup {s} ELSE rbStale
      /\ rbGiven' /\ rbLink' = rbLink /\ rbNext' = rbNext /\ rbOver' = rbOver
  BY DEF RbMoved
<1> HIDE DEF sr, sq, tr, tm, tq
<1>7. RbFits(tr, one)
  BY <1>1, <1>4, <1>5 DEF RbFits, RbSpace
<1>8. /\ tr1 \in RbRings /\ tm1 \in [RbSpots -> Nat] /\ tq1 \in Seq(Nat)
      /\ RbOwn(tr1, tm1, tq1, t \in rbStale) /\ tr1.count = tr.count + Len(one)
  BY <1>2, <1>4, <1>7, RbOwnGrows
<1>9. RbIn(tr, one) = tr1 /\ RbMemIn(tm, tr, one) = tm1
  BY <1>7 DEF RbIn, RbMemIn
<1> HIDE DEF tr1, tm1, tq1
<1>10. RbFits(tr1, two)
  BY <1>1, <1>4, <1>5, <1>8 DEF RbFits, RbSpace
<1>11. /\ tr2 \in RbRings /\ tm2 \in [RbSpots -> Nat] /\ tq2 \in Seq(Nat)
       /\ RbOwn(tr2, tm2, tq2, t \in rbStale)
  BY <1>8, <1>10, RbOwnGrows
<1>12. RbIn(tr1, two) = tr2 /\ RbMemIn(tm1, tr1, two) = tm2
  BY <1>10 DEF RbIn, RbMemIn
<1>13. tq2 = tq \o (one \o two)
  <2>1. tq \in Seq(Nat) /\ one \in Seq(Nat) /\ two \in Seq(Nat)
    BY <1>4
  <2>2. (tq \o one) \o two = tq \o (one \o two)
    BY <2>1, RbConcat
  <2> QED
    BY <2>2 DEF tq1
<1> HIDE DEF tr2, tm2, tq2
<1>14. RbHas(sr, Len(sq)) /\ RbLies(rbMem[s], sr.read, sq) /\ (s \in rbStale \/ sr.count = Len(sq))
       /\ Len(sq) <= sr.count /\ sr.count <= RbLen
  BY <1>2 DEF RbOwn, RbHas
<1>15. /\ rest \in Seq(Nat) /\ Len(rest) = Len(sq) - n
       /\ RbLies(rbMem[s], RbAt(sr.read, n), rest)
  BY <1>3, <1>5, <1>14, RbLeaves
<1>16. /\ RbTake(sr, n).read = RbAt(sr.read, n) /\ RbHas(RbTake(sr, n), Len(sq) - n)
       /\ RbTake(sr, n).write = sr.write /\ RbTake(sr, n) \in RbRings
  BY <1>3, <1>5, <1>14, RbTakes
<1>17. n \in 0 .. RbLen
  BY <1>1, <1>3, <1>5, <1>14
<1>18. gone = [sr EXCEPT !.read = RbAt(sr.read, n)] /\ RbAt(sr.read, n) \in RbSpots
  BY <1>3, <1>17, RbAtIs
<1> HIDE DEF gone, rest
<1>19. gone \in RbRings
  BY <1>3, <1>18 DEF RbRings
<1>20. gone.read = RbAt(sr.read, n) /\ gone.write = sr.write /\ gone.count = sr.count
  BY <1>3, <1>18 DEF RbRings
<1>21. sr.write = RbAt(RbAt(sr.read, n), Len(sq) - n)
  BY <1>16 DEF RbHas
<1>22. RbHas(gone, Len(rest))
  <2>1. 0 <= Len(rest) /\ Len(rest) <= gone.count /\ gone.count <= RbLen
    BY <1>3, <1>5, <1>14, <1>15, <1>20
  <2> QED
    BY <1>15, <1>20, <1>21, <2>1 DEF RbHas
<1>23. s \in rbStale' \/ gone.count = Len(rest)
  BY <1>3, <1>6, <1>14, <1>15, <1>20
<1>24. RbOwn(gone, rbMem[s], rest, s \in rbStale')
  BY <1>15, <1>20, <1>22, <1>23 DEF RbOwn
<1>25. RbOwn(tr2, tm2, tq2, t \in rbStale')
  <2>1. t \in rbStale' <=> t \in rbStale
    BY <1>1, <1>6
  <2> QED
    BY <1>11, <2>1 DEF RbOwn
<1>26. /\ rbRing' = [rbRing EXCEPT ![t] = tr2, ![s].read = (@ + n) % RbLen]
       /\ rbMem' = [rbMem EXCEPT ![t] = tm2]
       /\ rbQueue' = [rbQueue EXCEPT ![t] = tq2, ![s] = rest]
  BY <1>6, <1>9, <1>12, <1>13
<1>27. /\ rbRing'[s] = gone /\ rbRing'[t] = tr2
       /\ \A b \in RbBufs : b # s /\ b # t => rbRing'[b] = rbRing[b]
       /\ DOMAIN rbRing' = RbBufs /\ rbRing' = [b \in RbBufs |-> rbRing'[b]]
  BY <1>1, <1>26 DEF RbTypeOK, gone, sr
<1>28. /\ rbMem'[s] = rbMem[s] /\ rbMem'[t] = tm2 /\ rbQueue'[s] = rest /\ rbQueue'[t] = tq2
       /\ \A b \in RbBufs : b # s /\ b # t => rbMem'[b] = rbMem[b] /\ rbQueue'[b] = rbQueue[b]
  BY <1>1, <1>26 DEF RbTypeOK
<1>29. RbTypeOK'
  <2>1. \A b \in RbBufs : rbRing'[b] \in RbRings
    BY <1>1, <1>11, <1>19, <1>27 DEF RbTypeOK
  <2>2. rbRing' \in [RbBufs -> RbRings]
    BY <1>27, <2>1
  <2>3. rbMem' \in [RbBufs -> [RbSpots -> Nat]] /\ rbQueue' \in [RbBufs -> Seq(Nat)]
    BY <1>1, <1>11, <1>15, <1>26 DEF RbTypeOK
  <2>4. rbBridge' = rbBridge /\ rbAp' = rbAp /\ rbSent' = rbSent
    BY <1>6 DEF rbLink
  <2>5. rbStale' \subseteq RbBufs
    BY <1>1, <1>6 DEF RbTypeOK
  <2> QED
    BY <1>1, <1>6, <2>2, <2>3, <2>4, <2>5 DEF RbTypeOK
<1>30. \A b \in {s, t} : b \notin rbOver' => RbOwn(rbRing'[b], rbMem'[b], rbQueue'[b], b \in rbStale')
  <2>1. RbOwn(rbRing'[s], rbMem'[s], rbQueue'[s], s \in rbStale')
    BY <1>24, <1>27, <1>28
  <2>2. RbOwn(rbRing'[t], rbMem'[t], rbQueue'[t], t \in rbStale')
    BY <1>25, <1>27, <1>28
  <2> QED
    BY <2>1, <2>2
<1>31. rbStale' \ {s, t} = rbStale \ {s, t} /\ rbOver' \ {s, t} = rbOver \ {s, t}
  BY <1>6
<1>32. /\ rbGiven' /\ rbLink' = rbLink
       /\ \A b \in RbBufs : b # s /\ b # t =>
             rbRing'[b] = rbRing[b] /\ rbMem'[b] = rbMem[b] /\ rbQueue'[b] = rbQueue[b]
  BY <1>6, <1>27, <1>28
<1> QED
  BY <1>1, <1>29, <1>30, <1>31, <1>32, RbOwnStep

\* What is copied out of the source in one piece or two.
LEMMA RbSourceKeeps ==
  ASSUME RbInv, NEW s \in RbBufs, NEW t \in RbBufs, RbCall("source", s), RbCall("target", t),
         NEW n \in Nat, n <= RbWaiting(s), NEW whole \in BOOLEAN,
         whole => n = 0 \/ rbRing[s].read < rbRing[s].write,
         NEW two \in BOOLEAN, two => RbLen - rbRing[s].read <= n,
         NEW datas,
         datas = IF two THEN <<SubSeq(RbPiece(s, n, whole), 1, RbLen - rbRing[s].read),
                               SubSeq(RbPiece(s, n, whole), RbLen - rbRing[s].read + 1, n)>>
                 ELSE <<RbPiece(s, n, whole), <<>>>>,
         RbMoved(s, t, n, datas)
  PROVE  RbInv'
<1> DEFINE bytes == RbPiece(s, n, whole)
           m == RbLen - rbRing[s].read
<1>1. RbTypeOK /\ s # RbShared /\ s \notin rbOver
  BY RbUsesOwn DEF RbInv
<1>2. /\ RbWaiting(s) \in Nat /\ RbWaiting(s) <= Len(rbQueue[s])
      /\ RbHas(rbRing[s], RbWaiting(s)) /\ RbLies(rbMem[s], rbRing[s].read, rbQueue[s])
  BY <1>1, RbWaitingIs
<1>3. bytes = SubSeq(rbQueue[s], 1, n) /\ bytes \in Seq(Nat) /\ Len(bytes) = n
  BY <1>1, <1>2, RbReads
<1>4. m \in Nat
  <2>1. RbLen \in Nat \ {0} /\ rbRing[s].read \in RbSpots
    BY <1>1, RbOwnIs, RbAssumption
  <2> QED
    BY <2>1 DEF RbSpots
<1>5. CASE two
  <2> HIDE DEF bytes, m
  <2>1. m \in 0 .. Len(bytes)
    BY <1>3, <1>4, <1>5 DEF m
  <2>2. /\ SubSeq(bytes, 1, m) \in Seq(Nat) /\ Len(SubSeq(bytes, 1, m)) = m
        /\ SubSeq(bytes, m + 1, Len(bytes)) \in Seq(Nat)
        /\ Len(SubSeq(bytes, m + 1, Len(bytes))) = Len(bytes) - m
        /\ SubSeq(bytes, 1, m) \o SubSeq(bytes, m + 1, Len(bytes)) = bytes
    BY <1>3, <2>1, RbHalves
  <2>3. m + (n - m) = n
    BY <1>4
  <2>4. datas = <<SubSeq(bytes, 1, m), SubSeq(bytes, m + 1, Len(bytes))>>
    BY <1>3, <1>5 DEF bytes, m
  <2> DEFINE a == SubSeq(bytes, 1, m)
             b == SubSeq(bytes, m + 1, Len(bytes))
  <2>5. a \in Seq(Nat) /\ b \in Seq(Nat) /\ a \o b = SubSeq(rbQueue[s], 1, n)
        /\ Len(a) + Len(b) = n /\ RbMoved(s, t, n, <<a, b>>)
    BY <1>3, <2>2, <2>3, <2>4
  <2> HIDE DEF a, b
  <2> QED
    BY <2>5, RbMovedKeeps
<1>6. CASE ~two
  <2> DEFINE b == <<>>
  <2> HIDE DEF bytes
  <2>1. b \in Seq(Nat) /\ Len(b) = 0
    OBVIOUS
  <2>2. bytes \o b = bytes
    BY <1>3, ConcatEmptySeq
  <2>3. datas = <<bytes, b>>
    BY <1>6 DEF bytes
  <2> HIDE DEF b
  <2>4. bytes \o b = SubSeq(rbQueue[s], 1, n) /\ RbMoved(s, t, n, <<bytes, b>>)
    BY <1>3, <2>2, <2>3
  <2>5. Len(bytes) + Len(b) = n
    BY <1>3, <2>1
  <2> QED
    BY <1>3, <2>1, <2>4, <2>5, RbMovedKeeps
<1> QED
  BY <1>5, <1>6

LEMMA RbCopyFromRingBufKeeps ==
  ASSUME RbInv, NEW s \in RbBufs, NEW t \in RbBufs, RbCall("source", s), RbCall("target", t),
         NEW n \in RbCounts, RingBuf_copyFromRingBuf(s, t, n)
  PROVE  RbInv'
<1> DEFINE whole == rbRing[s].read < rbRing[s].write
           two == ~(whole \/ RbLen - rbRing[s].read >= n)
           datas == IF two THEN <<SubSeq(RbPiece(s, n, whole), 1, RbLen - rbRing[s].read),
                               SubSeq(RbPiece(s, n, whole), RbLen - rbRing[s].read + 1, n)>>
                 ELSE <<RbPiece(s, n, whole), <<>>>>
<1>1. n \in Nat /\ RbTypeOK
  BY RbAssumption DEF RbInv
<1>2. RbMoved(s, t, n, datas)
  BY DEF RingBuf_copyFromRingBuf
<1>3. n <= RbWaiting(s)
  BY <1>2 DEF RbMoved
<1>4. rbRing[s].read \in Nat /\ RbLen \in Nat \ {0}
  <2>1. RbLen \in Nat \ {0} /\ rbRing[s].read \in RbSpots
    BY <1>1, RbOwnIs, RbAssumption
  <2> QED
    BY <2>1 DEF RbSpots
<1>5. whole \in BOOLEAN /\ two \in BOOLEAN
  OBVIOUS
<1>6. two => RbLen - rbRing[s].read <= n
  BY <1>1, <1>4
<1> QED
  BY <1>1, <1>2, <1>3, <1>5, <1>6, RbSourceKeeps

LEMMA RbCopyAllKeeps ==
  ASSUME RbInv, NEW s \in RbBufs, NEW t \in RbBufs, RbCall("source", s), RbCall("target", t),
         RingBuf_copyFromRingBufAll(s, t)
  PROVE  RbInv'
<1> DEFINE read == rbRing[s].read
           write == rbRing[s].write
           wrapped == read > write
           whole == ~wrapped
           n == IF wrapped THEN RbLen - read + write ELSE write - read
           datas == IF wrapped THEN <<SubSeq(RbPiece(s, n, whole), 1, RbLen - read),
                               SubSeq(RbPiece(s, n, whole), RbLen - read + 1, n)>>
                 ELSE <<RbPiece(s, n, whole), <<>>>>
<1>1. RbTypeOK
  BY DEF RbInv
<1>2. read \in Nat /\ write \in Nat /\ RbLen \in Nat \ {0} /\ read < RbLen
  <2>1. RbLen \in Nat \ {0} /\ read \in RbSpots /\ write \in RbSpots
    BY <1>1, RbOwnIs, RbAssumption
  <2> QED
    BY <2>1 DEF RbSpots
<1>3. n \in Nat /\ (wrapped => RbLen - read <= n) /\ (whole => n = 0 \/ read < write)
  BY <1>2
<1>4. RbMoved(s, t, n, datas) /\ n = RbWaiting(s)
  BY DEF RingBuf_copyFromRingBufAll
<1>5. whole \in BOOLEAN /\ wrapped \in BOOLEAN
  OBVIOUS
<1> HIDE DEF n
<1>6. n <= RbWaiting(s)
  BY <1>3, <1>4
<1> QED
  BY <1>3, <1>4, <1>5, <1>6, RbSourceKeeps

LEMMA RbResetKeeps ==
  ASSUME RbInv, NEW b \in RbBufs, "reset" \in RbUses[b], RingBuf_Reset(b)
  PROVE  RbInv'
<1>1. b # RbShared /\ RbTypeOK /\ RbLen \in Nat \ {0}
  BY RbAssumption DEF RbInv
<1>2. 0 \in RbSpots /\ RbEmpty \in RbRings /\ RbEmpty.read = 0
      /\ RbEmpty.write = 0 /\ RbEmpty.count = 0
  <2>1. 0 \in RbSpots
    BY <1>1 DEF RbSpots
  <2> QED
    BY <2>1 DEF RbEmpty, RbRings
<1> DEFINE q == <<>>
<1>3. q \in Seq(Nat) /\ Len(q) = 0
  OBVIOUS
<1>4. /\ rbRing' = [rbRing EXCEPT ![b] = RbEmpty] /\ rbQueue' = [rbQueue EXCEPT ![b] = q]
      /\ rbMem' = rbMem /\ rbLink' = rbLink /\ rbNext' = rbNext /\ rbGiven'
      /\ rbStale' = rbStale \ {b} /\ rbOver' = rbOver \ {b}
  BY DEF RingBuf_Reset
<1> HIDE DEF q
<1>5. RbHas(RbEmpty, Len(q))
  BY <1>1, <1>2, <1>3 DEF RbHas, RbAt
<1>6. RbLies(rbMem[b], RbEmpty.read, q)
  BY <1>1, <1>3 DEF RbLies
<1>7. RbOwn(RbEmpty, rbMem[b], q, b \in rbStale')
  BY <1>2, <1>3, <1>5, <1>6 DEF RbOwn
<1>8. rbMem' = [rbMem EXCEPT ![b] = rbMem[b]] /\ rbMem[b] \in [RbSpots -> Nat] /\ rbNext' \in Nat
  BY <1>1, <1>4 DEF RbTypeOK
<1>9. rbStale' \ {b} = rbStale \ {b} /\ rbOver' \ {b} = rbOver \ {b}
  BY <1>4
<1> QED
  BY <1>1, <1>2, <1>3, <1>4, <1>7, <1>8, <1>9, RbOneStep

\* Nothing but the link to the AP changes, and perhaps what of it has come.
LEMMA RbLinkStep ==
  ASSUME RbInv, rbBridge' \in RbRings, rbAp' \in RbRings, rbSent' = rbSent,
         UNCHANGED <<rbRing, rbMem, rbQueue, rbNext, rbStale, rbOver>>, rbGiven', RbShares'
  PROVE  RbInv'
<1>1. RbTypeOK'
  BY DEF RbInv, RbTypeOK
<1>2. ASSUME NEW b \in RbBufs, b \notin rbOver' PROVE RbWell(b)'
  <2>1. RbWell(b) /\ b \notin rbOver
    BY <1>2 DEF RbInv
  <2>2. RbWaiting(b)' = RbWaiting(b)
    BY DEF RbWaiting
  <2> QED
    BY <2>1, <2>2 DEF RbWell
<1> QED
  BY <1>1, <1>2 DEF RbInv

LEMMA RbSharedIs ==
  ASSUME RbInv
  PROVE  LET ring == rbRing[RbShared]  q == rbQueue[RbShared]  mem == rbMem[RbShared]
             ahead == RbDist(rbAp.read, ring.read)
             told == RbDist(rbAp.read, rbBridge.read) IN
         /\ RbLen \in Nat \ {0} /\ RbShared \in RbBufs
         /\ ring \in RbRings /\ ring.read \in RbSpots /\ ring.write \in RbSpots
         /\ ring.count \in Nat /\ mem \in [RbSpots -> Nat]
         /\ q \in Seq(Nat) /\ Len(q) \in Nat /\ Len(q) <= RbLen /\ rbSent \in Nat
         /\ rbAp \in RbRings /\ rbAp.read \in RbSpots /\ rbAp.write \in RbSpots
         /\ rbAp.count \in Nat /\ rbBridge \in RbRings
         /\ rbBridge.read \in RbSpots /\ rbBridge.write \in RbSpots
         /\ RbShared \notin rbOver /\ RbShared \notin rbStale
         /\ ahead \in Nat /\ told \in Nat /\ told <= ahead
         /\ rbAp.count = Len(q) + ahead /\ rbAp.count <= RbLen
         /\ rbAp.write = RbAt(ring.read, Len(q)) /\ RbHas(rbAp, rbAp.count)
         /\ rbSent > 0 => rbBridge.write = rbAp.write
         /\ rbSent = RbLen => rbBridge.count = RbLen
         /\ RbHas(ring, Len(q) - rbSent) /\ ring.count = Len(q) - rbSent
         /\ ring.count <= RbLen /\ RbLies(mem, ring.read, q)
<1> DEFINE ring == rbRing[RbShared]
           q == rbQueue[RbShared]
           ahead == RbDist(rbAp.read, ring.read)
           told == RbDist(rbAp.read, rbBridge.read)
<1>1. RbTypeOK /\ RbShared \in RbBufs /\ RbLen \in Nat \ {0} /\ RbShares
  BY RbAssumption DEF RbInv
<1>2. /\ ring \in RbRings /\ ring.read \in RbSpots /\ ring.write \in RbSpots
      /\ ring.count \in Nat /\ rbMem[RbShared] \in [RbSpots -> Nat]
      /\ q \in Seq(Nat) /\ Len(q) \in Nat
  BY <1>1, RbOwnIs
<1>3. rbSent \in Nat /\ rbAp \in RbRings /\ rbBridge \in RbRings
  BY <1>1 DEF RbTypeOK
<1>4. /\ rbAp.read \in RbSpots /\ rbAp.write \in RbSpots /\ rbAp.count \in Nat
      /\ rbBridge.read \in RbSpots /\ rbBridge.write \in RbSpots
  BY <1>3 DEF RbRings
<1>5. /\ RbShared \notin rbOver /\ RbShared \notin rbStale
      /\ rbAp.count = Len(q) + ahead /\ rbAp.count <= RbLen
      /\ rbAp.write = RbAt(ring.read, Len(q))
      /\ rbSent > 0 => rbBridge.write = rbAp.write
      /\ rbSent = RbLen => rbBridge.count = RbLen
      /\ told <= ahead
  BY <1>1 DEF RbShares
<1>6. ahead \in RbSpots /\ told \in RbSpots /\ RbAt(rbAp.read, ahead) = ring.read
  BY <1>2, <1>4, RbDistIs
<1>7. ahead \in Nat /\ told \in Nat
  BY <1>1, <1>6 DEF RbSpots
<1>8. RbWell(RbShared)
  BY <1>1, <1>5 DEF RbInv
<1>9. RbWaiting(RbShared) = Len(q) - rbSent
  BY DEF RbWaiting
<1>10. /\ RbHas(ring, Len(q) - rbSent) /\ ring.count = Len(q) - rbSent
       /\ ring.count <= RbLen /\ RbLies(rbMem[RbShared], ring.read, q) /\ Len(q) <= RbLen
  BY <1>5, <1>8, <1>9 DEF RbWell, RbHas, RbLies
<1>11. RbHas(rbAp, rbAp.count)
  <2> HIDE DEF ahead
  <2>1. RbAt(RbAt(rbAp.read, ahead), Len(q)) = RbAt(rbAp.read, ahead + Len(q))
    <3>1. ahead + Len(q) <= RbLen
      BY <1>2, <1>5, <1>7
    <3> QED
      BY <1>2, <1>4, <1>7, <3>1, RbAtAt
  <2>2. ahead + Len(q) = rbAp.count
    BY <1>2, <1>5, <1>7
  <2>3. rbAp.write = RbAt(rbAp.read, rbAp.count)
    BY <1>5, <1>6, <2>1, <2>2
  <2> QED
    BY <1>1, <1>4, <1>5, <2>3 DEF RbHas
<1> QED
  BY <1>1, <1>2, <1>3, <1>4, <1>5, <1>7, <1>10, <1>11

LEMMA RbApWritesKeeps ==
  ASSUME RbInv, NEW n \in RbCounts, RbApWrites(n)
  PROVE  RbInv'
<1> DEFINE data == RbFresh(n)
           ring == rbRing[RbShared]
           q == rbQueue[RbShared]
           mem == rbMem[RbShared]
           ahead == RbDist(rbAp.read, ring.read)
           told == RbDist(rbAp.read, rbBridge.read)
           m == RbStored(mem, rbAp, data)
           more == q \o data
<1>1. /\ RbLen \in Nat \ {0} /\ RbShared \in RbBufs
      /\ ring \in RbRings /\ ring.read \in RbSpots /\ mem \in [RbSpots -> Nat]
      /\ q \in Seq(Nat) /\ Len(q) \in Nat
      /\ rbAp \in RbRings /\ rbAp.count \in Nat /\ rbBridge \in RbRings
      /\ RbShared \notin rbOver /\ RbShared \notin rbStale
      /\ ahead \in Nat /\ told \in Nat /\ told <= ahead
      /\ rbAp.count = Len(q) + ahead /\ rbAp.count <= RbLen
      /\ rbAp.write = RbAt(ring.read, Len(q)) /\ RbHas(rbAp, rbAp.count)
      /\ RbHas(ring, Len(q) - rbSent) /\ ring.count = Len(q) - rbSent
      /\ RbLies(mem, ring.read, q)
  BY RbSharedIs
<1>2. RbTypeOK /\ n \in Nat /\ n <= RbLen
  BY RbAssumption DEF RbInv
<1>3. data \in Seq(Nat) /\ Len(data) = n /\ rbNext' \in Nat
  BY <1>2, RbFreshIs DEF RbApWrites
<1>4. /\ rbSent = 0 /\ n <= RbLen - rbAp.count
      /\ rbMem' = [rbMem EXCEPT ![RbShared] = m]
      /\ rbAp' = RbIn(rbAp, data)
      /\ rbBridge' = [rbBridge EXCEPT !.write = RbWritePtr(rbAp, n).write, !.count = rbAp.count + n]
      /\ rbQueue' = [rbQueue EXCEPT ![RbShared] = more]
      /\ rbSent' = n /\ rbGiven' /\ rbRing' = rbRing /\ rbStale' = rbStale /\ rbOver' = rbOver
  BY DEF RbApWrites, RbSpace
<1> HIDE DEF data, ring, q, mem, ahead, told
<1>5. rbAp' = RbPut(rbAp, n)
  BY <1>3, <1>4 DEF RbIn, RbFits, RbSpace
<1>6. /\ RbPut(rbAp, n) \in RbRings /\ RbPut(rbAp, n).read = rbAp.read
      /\ RbPut(rbAp, n).count = rbAp.count + n
      /\ RbPut(rbAp, n).write = RbAt(rbAp.write, n) /\ RbWritePtr(rbAp, n) = RbPut(rbAp, n)
  BY <1>1, <1>2, <1>4, RbPuts, RbWritePtrIs
<1>7. Len(q) + n <= RbLen
  BY <1>1, <1>2, <1>4
<1>8. /\ m \in [RbSpots -> Nat]
      /\ more \in Seq(Nat) /\ Len(more) = Len(q) + n
      /\ RbLies(m, ring.read, more)
  <2>1. Len(data) <= RbLen - rbAp.count /\ Len(q) + Len(data) <= RbLen
    BY <1>3, <1>4, <1>7
  <2>2. /\ m \in [RbSpots -> Nat]
        /\ more \in Seq(Nat) /\ Len(more) = Len(q) + Len(data)
        /\ RbLies(m, ring.read, more)
    BY <1>1, <1>3, <2>1, RbWrites
  <2> QED
    BY <1>3, <2>2
<1> HIDE DEF m, more
<1>9. /\ rbBridge' \in RbRings /\ rbBridge'.write = rbAp'.write /\ rbBridge'.read = rbBridge.read
      /\ rbBridge'.count = rbAp.count + n
  <2>1. RbPut(rbAp, n).write \in RbSpots /\ rbAp.count + n \in Nat
    BY <1>1, <1>2, <1>6 DEF RbRings
  <2> QED
    BY <1>1, <1>4, <1>5, <1>6, <2>1 DEF RbRings
<1>10. RbTypeOK'
  <2>1. rbMem' \in [RbBufs -> [RbSpots -> Nat]] /\ rbQueue' \in [RbBufs -> Seq(Nat)]
    BY <1>2, <1>4, <1>8 DEF RbTypeOK
  <2> QED
    BY <1>2, <1>3, <1>4, <1>5, <1>6, <1>9, <2>1 DEF RbTypeOK
<1>11. rbMem'[RbShared] = m /\ rbQueue'[RbShared] = more
       /\ \A b \in RbBufs : b # RbShared => rbMem'[b] = rbMem[b] /\ rbQueue'[b] = rbQueue[b]
  BY <1>1, <1>2, <1>4 DEF RbTypeOK
<1>12. RbShares'
  <2>1. rbAp'.count = Len(more) + ahead /\ rbAp'.count <= RbLen
    <3>1. rbAp'.count = rbAp.count + n
      BY <1>5, <1>6
    <3>2. rbAp.count = Len(q) + ahead /\ n <= RbLen - rbAp.count /\ Len(more) = Len(q) + n
      BY <1>1, <1>4, <1>8
    <3>3. Len(q) \in Nat /\ ahead \in Nat /\ n \in Nat /\ RbLen \in Nat
      BY <1>1, <1>2
    <3> QED
      BY <3>1, <3>2, <3>3
  <2>2. rbAp'.write = RbAt(ring.read, Len(more))
    <3>1. RbAt(RbAt(ring.read, Len(q)), n) = RbAt(ring.read, Len(q) + n)
      BY <1>1, <1>2, <1>7, RbAtAt
    <3> QED
      BY <1>1, <1>5, <1>6, <1>8, <3>1
  <2>3. rbSent' = RbLen => rbBridge'.count = RbLen
    BY <1>1, <1>2, <1>4, <1>9
  <2>4. rbAp'.read = rbAp.read
    BY <1>5, <1>6
  <2>5. RbDist(rbAp'.read, rbRing'[RbShared].read) = ahead
        /\ RbDist(rbAp'.read, rbBridge'.read) = told /\ rbRing'[RbShared].read = ring.read
    BY <1>4, <1>9, <2>4 DEF ahead, told, ring
  <2> QED
    BY <1>1, <1>4, <1>9, <1>11, <2>1, <2>2, <2>3, <2>5 DEF RbShares
<1>13. ASSUME NEW b \in RbBufs, b \notin rbOver' PROVE RbWell(b)'
  <2>1. CASE b = RbShared
    <3>1. RbWaiting(b)' = Len(q)
      <4>1. RbWaiting(b)' = Len(more) - n
        BY <1>4, <1>11, <2>1 DEF RbWaiting
      <4> QED
        BY <1>1, <1>2, <1>8, <4>1
    <3>2. Len(q) - rbSent = Len(q)
      BY <1>1, <1>4
    <3>3. rbRing'[b] = ring /\ rbMem'[b] = m /\ rbQueue'[b] = more
      BY <1>4, <1>11, <2>1 DEF ring
    <3> QED
      BY <1>1, <1>8, <3>1, <3>2, <3>3 DEF RbWell
  <2>2. CASE b # RbShared
    <3>1. RbWell(b) /\ rbMem'[b] = rbMem[b] /\ rbQueue'[b] = rbQueue[b]
      BY <1>4, <1>11, <1>13, <2>2 DEF RbInv
    <3>2. RbWaiting(b)' = RbWaiting(b)
      BY <2>2, <3>1 DEF RbWaiting
    <3> QED
      BY <1>4, <3>1, <3>2 DEF RbWell
  <2> QED
    BY <2>1, <2>2
<1> QED
  BY <1>4, <1>10, <1>12, <1>13 DEF RbInv

\* What the task learns from the indices is what was sent.
LEMMA RbNewIs ==
  ASSUME RbInv, rbSent > 0
  PROVE  RbNew = rbSent
<1> DEFINE ring == rbRing[RbShared]
           n == Len(rbQueue[RbShared])
           c == n - rbSent
<1>1. /\ RbLen \in Nat \ {0} /\ ring.read \in RbSpots /\ n \in Nat /\ n <= RbLen /\ rbSent \in Nat
      /\ rbAp.write = RbAt(ring.read, n) /\ rbBridge.write = rbAp.write
      /\ rbSent = RbLen => rbBridge.count = RbLen
      /\ RbHas(ring, c) /\ ring.count = c
  BY RbSharedIs
<1> HIDE DEF ring, n
<1>2. ring.read \in Nat /\ ring.read < RbLen
  BY <1>1 DEF RbSpots
<1>3. ring.write = RbAt(ring.read, c) /\ 0 <= c /\ c \in Nat /\ n = c + rbSent
  BY <1>1 DEF RbHas
<1> HIDE DEF c
<1>4. CASE rbSent = RbLen
  <2>1. c = 0 /\ n = RbLen
    BY <1>1, <1>3, <1>4
  <2>2. rbBridge.write = ring.write
    BY <1>1, <1>2, <1>3, <2>1 DEF RbAt
  <2>3. rbBridge.count = RbLen /\ ring.count = 0
    BY <1>1, <1>4, <2>1
  <2>4. ring.write \in Nat
    BY <1>1, <1>2, <1>3, <2>1 DEF RbAt
  <2> QED
    BY <1>1, <1>4, <2>2, <2>3, <2>4 DEF RbNew, ring
<1>5. CASE rbSent < RbLen
  <2>1. rbBridge.write \in Nat /\ ring.write \in Nat /\
        (IF rbBridge.write > ring.write THEN rbBridge.write - ring.write = rbSent
         ELSE rbBridge.write < ring.write /\ RbLen - (ring.write - rbBridge.write) = rbSent)
    BY <1>1, <1>2, <1>3, <1>5 DEF RbAt
  <2> QED
    BY <2>1 DEF RbNew, ring
<1>6. rbSent = RbLen \/ rbSent < RbLen
  BY <1>1, <1>3
<1> QED
  BY <1>4, <1>5, <1>6

LEMMA RbSyncWriteKeeps ==
  ASSUME RbInv, sync_ringbuf_writeidx
  PROVE  RbInv'
<1> DEFINE ring == rbRing[RbShared]
           q == rbQueue[RbShared]
           c == Len(q) - rbSent
           new == RbPut(ring, rbSent)
<1>1. /\ RbLen \in Nat \ {0} /\ RbShared \in RbBufs /\ ring \in RbRings
      /\ q \in Seq(Nat) /\ Len(q) \in Nat /\ Len(q) <= RbLen /\ rbSent \in Nat
      /\ RbShared \notin rbOver /\ RbShared \notin rbStale
      /\ RbHas(ring, c) /\ ring.count = c /\ ring.count \in Nat
      /\ RbLies(rbMem[RbShared], ring.read, q)
  BY RbSharedIs
<1>2. RbTypeOK /\ rbSent > 0 /\ RbNew = rbSent /\ RbShares
  BY RbNewIs DEF sync_ringbuf_writeidx, RbInv
<1>3. /\ rbRing' = [rbRing EXCEPT ![RbShared] =
                       IF ring.read = ring.write /\ ring.count = RbLen THEN ring
                       ELSE RbWritePtr(ring, rbSent)]
      /\ rbSent' = 0 /\ rbGiven'
      /\ UNCHANGED <<rbMem, rbBridge, rbAp, rbQueue, rbNext, rbStale, rbOver>>
  BY <1>2 DEF sync_ringbuf_writeidx
<1> HIDE DEF ring, q
<1>4. c \in Nat /\ rbSent <= RbLen - ring.count /\ rbSent <= RbLen /\ c + rbSent = Len(q)
      /\ ring.count # RbLen
  BY <1>1, <1>2
<1> HIDE DEF c
<1>5. /\ new \in RbRings /\ RbHas(new, c + rbSent) /\ new.read = ring.read
      /\ new.count = ring.count + rbSent /\ RbWritePtr(ring, rbSent) = new
  BY <1>1, <1>4, RbPuts, RbWritePtrIs
<1> HIDE DEF new
<1>6. rbRing' = [rbRing EXCEPT ![RbShared] = new]
  BY <1>3, <1>4, <1>5
<1>7. rbRing'[RbShared] = new /\ \A b \in RbBufs : b # RbShared => rbRing'[b] = rbRing[b]
  BY <1>1, <1>2, <1>6 DEF RbTypeOK
<1>8. RbTypeOK'
  <2>1. rbRing' \in [RbBufs -> RbRings]
    BY <1>2, <1>5, <1>6 DEF RbTypeOK
  <2>2. rbSent' \in Nat
    BY <1>3
  <2> QED
    BY <1>2, <1>3, <2>1, <2>2 DEF RbTypeOK
<1>9. RbShares'
  <2>1. rbRing'[RbShared].read = rbRing[RbShared].read
    BY <1>5, <1>7 DEF ring
  <2>2. ~(rbSent' > 0) /\ rbSent' # RbLen
    BY <1>1, <1>3
  <2> QED
    BY <1>2, <1>3, <2>1, <2>2 DEF RbShares
<1>10. ASSUME NEW b \in RbBufs, b \notin rbOver' PROVE RbWell(b)'
  <2>1. CASE b = RbShared
    <3>1. RbWaiting(b)' = Len(q)
      <4>1. RbWaiting(b)' = Len(q) - 0
        BY <1>3, <2>1 DEF RbWaiting, q
      <4> QED
        BY <1>1, <4>1
    <3>2. new.count = Len(q)
      BY <1>1, <1>4, <1>5
    <3>3. rbRing'[b] = new /\ rbMem'[b] = rbMem[RbShared] /\ rbQueue'[b] = q
      BY <1>3, <1>7, <2>1 DEF q
    <3> QED
      BY <1>1, <1>4, <1>5, <3>1, <3>2, <3>3 DEF RbWell
  <2>2. CASE b # RbShared
    <3>1. RbWell(b) /\ rbRing'[b] = rbRing[b]
      BY <1>3, <1>7, <1>10, <2>2 DEF RbInv
    <3>2. RbWaiting(b)' = RbWaiting(b)
      BY <1>3, <2>2 DEF RbWaiting
    <3> QED
      BY <1>3, <3>1, <3>2 DEF RbWell
  <2> QED
    BY <2>1, <2>2
<1> QED
  BY <1>3, <1>8, <1>9, <1>10 DEF RbInv

LEMMA RbSyncBridgeKeeps ==
  ASSUME RbInv, sync_bridge_ringbuf_readidx
  PROVE  RbInv'
<1> DEFINE read == rbRing[RbShared].read
<1>1. read \in RbSpots /\ rbBridge \in RbRings /\ RbShares
  BY RbSharedIs DEF RbInv
<1>2. /\ rbBridge' = [rbBridge EXCEPT !.read = read] /\ rbGiven'
      /\ UNCHANGED <<rbRing, rbMem, rbAp, rbSent, rbQueue, rbNext, rbStale, rbOver>>
  BY DEF sync_bridge_ringbuf_readidx
<1>3. /\ rbBridge' \in RbRings /\ rbBridge'.read = read /\ rbBridge'.write = rbBridge.write
      /\ rbBridge'.count = rbBridge.count
  BY <1>1, <1>2 DEF RbRings
<1>4. RbDist(rbAp.read, read) \in Nat
  BY RbSharedIs
<1>5. RbShares'
  BY <1>1, <1>2, <1>3, <1>4 DEF RbShares
<1>6. rbAp' \in RbRings
  BY <1>2, RbSharedIs
<1> QED
  BY <1>2, <1>3, <1>5, <1>6, RbLinkStep

LEMMA RbSyncReadKeeps ==
  ASSUME RbInv, sync_ringbuf_readidx
  PROVE  RbInv'
<1> DEFINE read == rbRing[RbShared].read
           n == Len(rbQueue[RbShared])
           ahead == RbDist(rbAp.read, read)
           told == RbDist(rbAp.read, rbBridge.read)
<1>1. /\ RbLen \in Nat \ {0} /\ n \in Nat /\ read \in RbSpots
      /\ rbAp \in RbRings /\ rbAp.read \in RbSpots /\ rbAp.count \in Nat
      /\ rbBridge \in RbRings /\ rbBridge.read \in RbSpots
      /\ ahead \in Nat /\ told \in Nat /\ told <= ahead
      /\ rbAp.count = n + ahead /\ rbAp.count <= RbLen /\ RbHas(rbAp, rbAp.count)
  BY RbSharedIs
<1>2. RbShares
  BY DEF RbInv
<1>3. (rbBridge.read - rbAp.read) % RbLen = told /\ RbAt(rbAp.read, told) = rbBridge.read
  BY <1>1, RbDistIs
<1>4. /\ rbAp' = RbReadPtr(rbAp, told) /\ rbGiven'
      /\ UNCHANGED <<rbRing, rbMem, rbBridge, rbSent, rbQueue, rbNext, rbStale, rbOver>>
  BY <1>3 DEF sync_ringbuf_readidx
<1>5. RbDist(rbBridge.read, read) = ahead - told
  BY <1>1, RbDistLess
<1>6. RbDist(rbBridge.read, rbBridge.read) = 0
  <2>1. rbBridge.read \in Nat
    BY <1>1 DEF RbSpots
  <2> QED
    BY <2>1 DEF RbDist
<1> HIDE DEF n, ahead, told
<1>7. told <= rbAp.count
  BY <1>1
<1>8. /\ rbAp' \in RbRings /\ rbAp'.read = RbAt(rbAp.read, told)
      /\ rbAp'.count = rbAp.count - told /\ rbAp'.write = rbAp.write
  BY <1>1, <1>4, <1>7, RbTakes
<1>9. rbAp'.count = n + (ahead - told) /\ rbAp'.count <= RbLen /\ 0 <= ahead - told
  BY <1>1, <1>8
<1>10. rbAp'.read = rbBridge.read
  BY <1>3, <1>8
<1>11. RbShares'
  BY <1>2, <1>4, <1>5, <1>6, <1>8, <1>9, <1>10 DEF RbShares, n
<1>12. rbBridge' \in RbRings /\ rbSent' = rbSent
  BY <1>1, <1>4
<1> QED
  BY <1>4, <1>8, <1>11, <1>12, RbLinkStep

LEMMA RbInvInit == RbInit => RbInv
<1> SUFFICES ASSUME RbInit PROVE RbInv
  OBVIOUS
<1> DEFINE q == <<>>
<1>1. RbLen \in Nat \ {0} /\ RbShared \in RbBufs
  BY RbAssumption
<1>2. 0 \in RbSpots /\ RbEmpty \in RbRings /\ RbEmpty.read = 0
      /\ RbEmpty.write = 0 /\ RbEmpty.count = 0
  <2>1. 0 \in RbSpots
    BY <1>1 DEF RbSpots
  <2> QED
    BY <2>1 DEF RbEmpty, RbRings
<1>3. q \in Seq(Nat) /\ Len(q) = 0
  OBVIOUS
<1>4. /\ \A b \in RbBufs : rbRing[b] = RbEmpty /\ rbQueue[b] = q
      /\ rbBridge = RbEmpty /\ rbAp = RbEmpty /\ rbSent = 0 /\ rbGiven
      /\ rbNext = 0 /\ rbStale = {} /\ rbOver = {}
  BY DEF RbInit
<1>5. RbTypeOK
  <2>1. rbMem \in [RbBufs -> [RbSpots -> Nat]]
    BY DEF RbInit, RbSpots
  <2>2. rbRing \in [RbBufs -> RbRings] /\ rbQueue \in [RbBufs -> Seq(Nat)]
    BY <1>2, <1>3 DEF RbInit
  <2> QED
    BY <1>2, <1>4, <2>1, <2>2 DEF RbTypeOK
<1> HIDE DEF q
<1>6. RbHas(RbEmpty, 0) /\ RbDist(0, 0) = 0 /\ RbAt(0, 0) = 0
  BY <1>1, <1>2 DEF RbHas, RbAt, RbDist
<1>7. RbShares
  <2>1. rbRing[RbShared] = RbEmpty /\ rbQueue[RbShared] = q
    BY <1>1, <1>4
  <2> QED
    BY <1>1, <1>2, <1>3, <1>4, <1>6, <2>1 DEF RbShares
<1>8. ASSUME NEW b \in RbBufs PROVE RbWell(b)
  <2>1. RbWaiting(b) = 0
    BY <1>3, <1>4 DEF RbWaiting
  <2>2. RbLies(rbMem[b], 0, q)
    BY <1>1, <1>3 DEF RbLies
  <2> QED
    BY <1>2, <1>4, <1>6, <2>1, <2>2 DEF RbWell
<1> QED
  BY <1>4, <1>5, <1>7, <1>8 DEF RbInv

LEMMA RbInvStep == RbInv /\ [RbNext]_rbVars => RbInv'
<1> SUFFICES ASSUME RbInv, [RbNext]_rbVars PROVE RbInv'
  OBVIOUS
<1>1. ASSUME NEW b \in RbBufs, NEW n \in RbCounts,
             \/ RbCall("write", b) /\ RingBuf_copyFromLinear(b, n)
             \/ RbCall("value", b) /\ RingBuf_writeDataValue(b, n)
             \/ RbCall("moved", b) /\ RingBuf_update_writeptr(b, n)
             \/ RbCall("read", b) /\ RbTold(b, n) /\ RingBuf_copyToLinear(b, n)
             \/ RbCall("dma", b) /\ RbTold(b, n) /\ RingBuf_copyToLinear_dma(b, n)
             \/ RbCall("skip", b) /\ RbTold(b, n) /\ RingBuf_update_readptr(b, n)
      PROVE  RbInv'
  <2>1. CASE RbCall("write", b) /\ RingBuf_copyFromLinear(b, n)
    BY <2>1, RbCopyFromLinearKeeps
  <2>2. CASE RbCall("value", b) /\ RingBuf_writeDataValue(b, n)
    BY <2>2, RbWriteDataValueKeeps
  <2>3. CASE RbCall("moved", b) /\ RingBuf_update_writeptr(b, n)
    BY <2>3, RbUpdateWriteptrKeeps
  <2>4. CASE RbCall("read", b) /\ RbTold(b, n) /\ RingBuf_copyToLinear(b, n)
    BY <2>4, RbReadsKeep DEF RbCall
  <2>5. CASE RbCall("dma", b) /\ RbTold(b, n) /\ RingBuf_copyToLinear_dma(b, n)
    BY <2>5, RbReadsKeep DEF RbCall
  <2>6. CASE RbCall("skip", b) /\ RbTold(b, n) /\ RingBuf_update_readptr(b, n)
    BY <2>6, RbSkipKeeps DEF RbCall
  <2> QED
    BY <1>1, <2>1, <2>2, <2>3, <2>4, <2>5, <2>6
<1>2. ASSUME NEW s \in RbBufs, NEW t \in RbBufs, RbCall("source", s), RbCall("target", t),
             RingBuf_copyFromRingBufAll(s, t) \/ \E n \in RbCounts : RingBuf_copyFromRingBuf(s, t, n)
      PROVE  RbInv'
  BY <1>2, RbCopyAllKeeps, RbCopyFromRingBufKeeps
<1>3. ASSUME UNCHANGED rbVars PROVE RbInv'
  <2>1. UNCHANGED <<rbRing, rbMem, rbBridge, rbAp, rbSent, rbQueue, rbGiven, rbNext, rbStale, rbOver>>
    BY <1>3 DEF rbVars, rbLink
  <2>2. rbBridge' \in RbRings /\ rbAp' \in RbRings /\ rbGiven'
    BY <2>1 DEF RbInv, RbTypeOK
  <2>3. RbShares'
    BY <2>1 DEF RbInv, RbShares
  <2> QED
    BY <2>1, <2>2, <2>3, RbLinkStep
<1> QED
  BY <1>1, <1>2, <1>3, RbApWritesKeeps, RbSyncWriteKeeps, RbSyncBridgeKeeps, RbSyncReadKeeps,
     RbResetKeeps DEF RbNext

LEMMA RbInvGives == RbInv => RbQueues
<1> SUFFICES ASSUME RbInv PROVE RbQueues
  OBVIOUS
<1>1. RbTypeOK /\ RbLen \in Nat \ {0} /\ rbGiven
  BY RbAssumption DEF RbInv
<1>2. RbHolds
  <2> SUFFICES ASSUME NEW b \in RbBufs \ rbOver
               PROVE  /\ Len(rbQueue[b]) <= RbLen
                      /\ rbRing[b].write = (rbRing[b].read + RbWaiting(b)) % RbLen
                      /\ \A k \in 1 .. Len(rbQueue[b]) :
                            rbMem[b][(rbRing[b].read + k - 1) % RbLen] = rbQueue[b][k]
                      /\ b \in rbStale \/ rbRing[b].count = RbWaiting(b)
    BY DEF RbHolds
  <2>1. RbWell(b) /\ b \in RbBufs /\ b \notin rbOver
    BY DEF RbInv
  <2>2. /\ RbWaiting(b) \in Nat /\ RbWaiting(b) <= Len(rbQueue[b])
        /\ RbHas(rbRing[b], RbWaiting(b)) /\ RbLies(rbMem[b], rbRing[b].read, rbQueue[b])
    BY <2>1, RbWaitingIs
  <2>3. rbRing[b].read \in RbSpots /\ Len(rbQueue[b]) \in Nat /\ Len(rbQueue[b]) <= RbLen
    BY <1>1, <2>1, <2>2, RbOwnIs DEF RbLies
  <2>4. RbWaiting(b) \in 0 .. RbLen
    BY <1>1, <2>2, <2>3
  <2>5. rbRing[b].write = (rbRing[b].read + RbWaiting(b)) % RbLen
    BY <2>2, <2>3, <2>4, RbAtIs DEF RbHas
  <2>6. ASSUME NEW k \in 1 .. Len(rbQueue[b])
        PROVE  rbMem[b][(rbRing[b].read + k - 1) % RbLen] = rbQueue[b][k]
    <3>1. k - 1 \in 0 .. RbLen
      BY <1>1, <2>3
    <3>2. rbRing[b].read \in Nat
      BY <1>1, <2>3 DEF RbSpots
    <3>3. rbRing[b].read + k - 1 = rbRing[b].read + (k - 1)
      BY <3>2
    <3>4. (rbRing[b].read + (k - 1)) % RbLen = RbAt(rbRing[b].read, k - 1)
      BY <2>3, <3>1, RbAtIs
    <3> QED
      BY <2>2, <3>3, <3>4 DEF RbLies
  <2>7. b \in rbStale \/ rbRing[b].count = RbWaiting(b)
    BY <2>1 DEF RbWell
  <2> QED
    BY <2>3, <2>5, <2>6, <2>7
<1>3. RbChecked
  <2> SUFFICES ASSUME NEW b \in RbBufs
               PROVE  /\ rbRing[b].read \in 0 .. RbLen /\ rbRing[b].write \in 0 .. RbLen
                      /\ rbRing[b].count >= 0
    BY DEF RbChecked
  <2>1. rbRing[b].read \in RbSpots /\ rbRing[b].write \in RbSpots /\ rbRing[b].count \in Nat
    BY <1>1, RbOwnIs
  <2> QED
    BY <1>1, <2>1 DEF RbSpots
<1> QED
  BY <1>1, <1>2, <1>3 DEF RbQueues, RbGives

\* Whatever the tasks, the hardware and the AP do with a ring buffer of fixed length, the
\* bytes between its pointers are those that were written and not read, in their order, its
\* datacount says how many (but for a source that was copied from), and what a reader copies
\* out is what was written.
THEOREM RbQueuesHolds == RbSpec => []RbQueues
<1>1. RbSpec => []RbInv
  BY RbInvInit, RbInvStep, PTL DEF RbSpec
<1> QED
  BY <1>1, RbInvGives, PTL
=============================================================================
