---------------------------- MODULE TransferProofs ----------------------------
(***************************************************************************)
(* Proofs about what passes messages and data between processors:          *)
(*                                                                         *)
(*   facts of arithmetic and of finite sets that the others rest on;       *)
(*   IpiV1: a message is heard or answered once (V1DeliversHolds);         *)
(*   Gdma: transfers, channels and the bytes that land (GdmaServesHolds);  *)
(*   Scmi: the answer an agent finds is its own (ScmiMineHolds);           *)
(*   TimeSync: a time that was read is of one base (TimeWholeHolds);       *)
(*   ZeroCopy: buffers change hands in order, are announced and are in the *)
(*   table of buffers in use (ZcpyServesHolds).                            *)
(*                                                                         *)
(* Each component has an inductive invariant in its own module (V1Inv,     *)
(* GdmaInv, ScmiInv) or here (ZcpyInv), and one lemma for every step that  *)
(* may disturb it.                                                         *)
(***************************************************************************)
EXTENDS IpiV1, Gdma, Scmi, TimeSync, ZeroCopy, FiniteSetTheorems, SequenceTheorems, TLAPS

(* A finite set of integers has a least element: the one below which there *)
(* is the smallest part of the set.                                        *)
LEMMA LeastOfFinite ==
  ASSUME NEW S, S \subseteq Int, IsFiniteSet(S), S # {}
  PROVE  \E x \in S : \A y \in S : x <= y
<1> DEFINE Below(x) == {y \in S : y < x}
           Parts == {Below(x) : x \in S}
           R == StrictSubsetOrdering(S)
<1>1. Parts \subseteq FiniteSubsetsOf(S)
  BY FS_Subset DEF FiniteSubsetsOf
<1>2. IsWellFoundedOn(R, FiniteSubsetsOf(S))
  BY FS_StrictSubsetOrderingWellFounded
<1>3. Parts # {}
  OBVIOUS
<1>4. PICK T \in Parts : \A U \in Parts : ~(<<U, T>> \in R)
  <2> HIDE DEF Parts, R
  <2> QED BY <1>1, <1>2, <1>3, WFMin
<1>5. PICK x \in S : T = Below(x)
  BY <1>4
<1>6. ASSUME NEW y \in S, y < x
      PROVE  FALSE
  <2>1. \A z \in S : z < y => z < x
    BY <1>6
  <2>2. Below(y) \subseteq Below(x)
    BY <2>1
  <2>3. y \in Below(x) /\ y \notin Below(y)
    BY <1>6
  <2>4. <<Below(y), Below(x)>> \in R
    BY <2>2, <2>3 DEF StrictSubsetOrdering
  <2> QED BY <1>4, <1>5, <2>4
<1> QED BY <1>6

LEMMA MinIsLeast ==
  ASSUME NEW S, S \subseteq Int, IsFiniteSet(S), S # {}
  PROVE  Min(S) \in S
  BY LeastOfFinite DEF Min

(* The pin that the interrupt serves next is one that it has left.         *)
LEMMA V1NextPin ==
  ASSUME V1TypeOK, v1Isr.left # {}
  PROVE  Min(v1Isr.left) \in v1Isr.left
<1>1. v1Isr.left \subseteq V1Pins
  BY DEF V1TypeOK, V1WiresOK
<1>2. IsFiniteSet(v1Isr.left) /\ v1Isr.left \subseteq Int
  BY <1>1, V1Assumption, FS_Subset
<1> QED BY <1>2, MinIsLeast

(* What a task does next is written in one place.                          *)
LEMMA V1AtTyped ==
  ASSUME v1At \in [V1Tasks -> V1Ats], NEW task \in V1Tasks,
         \/ \E at \in V1Ats : v1At' = [v1At EXCEPT ![task] = at]
         \/ \E do \in V1Steps : v1At' = [v1At EXCEPT ![task].do = do]
         \/ v1At' = v1At
  PROVE  v1At' \in [V1Tasks -> V1Ats]
  BY DEF V1Ats

LEMMA V1Members ==
  /\ V1Idle \in V1Ats /\ V1Senders \subseteq V1Tasks
  /\ \A r \in V1Recv : V1Listener[r] \in V1Tasks
  /\ \A x \in Int, do \in V1Steps : [V1Idle EXCEPT !.do = do, !.pin = x] \in V1Ats
<1>1. V1Idle \in V1Ats
  BY DEF V1Idle, V1Ats, V1Steps
<1>2. \A x \in Int, do \in V1Steps : [V1Idle EXCEPT !.do = do, !.pin = x] \in V1Ats
  BY <1>1 DEF V1Ats
<1> QED BY <1>1, <1>2 DEF V1Tasks

(* Types but those of what the tasks do, and the interrupt.               *)
LEMMA V1Typed ==
  ASSUME V1TypeOK, V1IsrOK, \A task \in V1Tasks : V1Place(task), V1Next
  PROVE  (V1WiresOK /\ V1TablesOK /\ V1HistoryOK /\ V1IsrOK)'
<1>1. ASSUME NEW task \in V1Senders, NEW pin \in V1Send, V1SendAsync(task, pin) PROVE (V1WiresOK /\ V1TablesOK /\ V1HistoryOK /\ V1IsrOK)'
  BY <1>1 DEF V1SendAsync, V1Runs, V1Goes, V1Returns, V1TypeOK, V1WiresOK, V1TablesOK, V1HistoryOK, V1IsrOK, V1NoIsr, V1Pins, V1Ats, v1Wires, v1Tables, v1History
<1>2. ASSUME NEW task \in V1Tasks, V1MboxTest(task) PROVE (V1WiresOK /\ V1TablesOK /\ V1HistoryOK /\ V1IsrOK)'
  BY <1>2 DEF V1MboxTest, V1Place, V1Runs, V1Goes, V1Returns, V1TypeOK, V1WiresOK, V1TablesOK, V1HistoryOK, V1IsrOK, V1NoIsr, V1Pins, V1Ats, v1Wires, v1Tables, v1History
<1>3. ASSUME NEW task \in V1Tasks, V1MboxSend(task) PROVE (V1WiresOK /\ V1TablesOK /\ V1HistoryOK /\ V1IsrOK)'
  BY <1>3 DEF V1MboxSend, V1Place, V1Runs, V1Goes, V1Returns, V1TypeOK, V1WiresOK, V1TablesOK, V1HistoryOK, V1IsrOK, V1NoIsr, V1Pins, V1Ats, v1Wires, v1Tables, v1History
<1>4. ASSUME NEW task \in V1Tasks, V1TooLong(task) PROVE (V1WiresOK /\ V1TablesOK /\ V1HistoryOK /\ V1IsrOK)'
  BY <1>4 DEF V1TooLong, V1Place, V1Runs, V1Goes, V1Returns, V1TypeOK, V1WiresOK, V1TablesOK, V1HistoryOK, V1IsrOK, V1NoIsr, V1Pins, V1Ats, v1Wires, v1Tables, v1History
<1>5. ASSUME NEW task \in V1Tasks, V1Await(task) PROVE (V1WiresOK /\ V1TablesOK /\ V1HistoryOK /\ V1IsrOK)'
  BY <1>5 DEF V1Await, V1Runs, V1Goes, V1Returns, V1TypeOK, V1WiresOK, V1TablesOK, V1HistoryOK, V1IsrOK, V1NoIsr, V1Pins, V1Ats, v1Wires, v1Tables, v1History
<1>6. ASSUME NEW task \in V1Tasks, V1Copy(task) PROVE (V1WiresOK /\ V1TablesOK /\ V1HistoryOK /\ V1IsrOK)'
  BY <1>6 DEF V1Copy, V1Place, V1Runs, V1Goes, V1Returns, V1TypeOK, V1WiresOK, V1TablesOK, V1HistoryOK, V1IsrOK, V1NoIsr, V1Pins, V1Ats, v1Wires, v1Tables, v1History
<1>7. ASSUME NEW task \in V1Tasks, V1Create(task) PROVE (V1WiresOK /\ V1TablesOK /\ V1HistoryOK /\ V1IsrOK)'
  BY <1>7 DEF V1Create, V1Runs, V1Goes, V1Returns, V1TypeOK, V1WiresOK, V1TablesOK, V1HistoryOK, V1IsrOK, V1NoIsr, V1Pins, V1Ats, v1Wires, v1Tables, v1History
<1>8. ASSUME NEW task \in V1Tasks, V1Read(task) PROVE (V1WiresOK /\ V1TablesOK /\ V1HistoryOK /\ V1IsrOK)'
  BY <1>8 DEF V1Read, V1Place, V1Runs, V1Goes, V1Returns, V1TypeOK, V1WiresOK, V1TablesOK, V1HistoryOK, V1IsrOK, V1NoIsr, V1Pins, V1Ats, v1Wires, v1Tables, v1History
<1>9. ASSUME NEW pin \in V1Recv, V1Register(pin) PROVE (V1WiresOK /\ V1TablesOK /\ V1HistoryOK /\ V1IsrOK)'
  BY <1>9 DEF V1Register, V1Runs, V1Goes, V1Returns, V1TypeOK, V1WiresOK, V1TablesOK, V1HistoryOK, V1IsrOK, V1NoIsr, V1Pins, V1Ats, v1Wires, v1Tables, v1History
<1>10. ASSUME NEW pin \in V1Recv, V1RecvWait(pin) PROVE (V1WiresOK /\ V1TablesOK /\ V1HistoryOK /\ V1IsrOK)'
  BY <1>10 DEF V1RecvWait, V1Runs, V1Goes, V1Returns, V1TypeOK, V1WiresOK, V1TablesOK, V1HistoryOK, V1IsrOK, V1NoIsr, V1Pins, V1Ats, v1Wires, v1Tables, v1History
<1>11. ASSUME V1IsrEnter(V1Send) PROVE (V1WiresOK /\ V1TablesOK /\ V1HistoryOK /\ V1IsrOK)'
  BY <1>11 DEF V1IsrEnter, V1Runs, V1Goes, V1Returns, V1TypeOK, V1WiresOK, V1TablesOK, V1HistoryOK, V1IsrOK, V1NoIsr, V1Pins, V1Ats, v1Wires, v1Tables, v1History
<1>12. ASSUME V1IsrEnter(V1Recv) PROVE (V1WiresOK /\ V1TablesOK /\ V1HistoryOK /\ V1IsrOK)'
  BY <1>12 DEF V1IsrEnter, V1Runs, V1Goes, V1Returns, V1TypeOK, V1WiresOK, V1TablesOK, V1HistoryOK, V1IsrOK, V1NoIsr, V1Pins, V1Ats, v1Wires, v1Tables, v1History
<1>13. ASSUME V1DoAck PROVE (V1WiresOK /\ V1TablesOK /\ V1HistoryOK /\ V1IsrOK)'
  BY <1>13 DEF V1DoAck, V1Runs, V1Goes, V1Returns, V1TypeOK, V1WiresOK, V1TablesOK, V1HistoryOK, V1IsrOK, V1NoIsr, V1Pins, V1Ats, v1Wires, v1Tables, v1History
<1>14. ASSUME V1DoRecv PROVE (V1WiresOK /\ V1TablesOK /\ V1HistoryOK /\ V1IsrOK)'
  BY <1>14 DEF V1DoRecv, V1Runs, V1Goes, V1Returns, V1TypeOK, V1WiresOK, V1TablesOK, V1HistoryOK, V1IsrOK, V1NoIsr, V1Pins, V1Ats, v1Wires, v1Tables, v1History
<1>15. ASSUME V1IsrClear PROVE (V1WiresOK /\ V1TablesOK /\ V1HistoryOK /\ V1IsrOK)'
  BY <1>15 DEF V1IsrClear, V1Runs, V1Goes, V1Returns, V1TypeOK, V1WiresOK, V1TablesOK, V1HistoryOK, V1IsrOK, V1NoIsr, V1Pins, V1Ats, v1Wires, v1Tables, v1History
<1>16. ASSUME NEW pin \in V1Pins, V1FarTakes(pin) PROVE (V1WiresOK /\ V1TablesOK /\ V1HistoryOK /\ V1IsrOK)'
  BY <1>16 DEF V1FarTakes, V1Runs, V1Goes, V1Returns, V1TypeOK, V1WiresOK, V1TablesOK, V1HistoryOK, V1IsrOK, V1NoIsr, V1Pins, V1Ats, v1Wires, v1Tables, v1History
<1>17. ASSUME NEW pin \in V1Pins, V1FarAnswers(pin) PROVE (V1WiresOK /\ V1TablesOK /\ V1HistoryOK /\ V1IsrOK)'
  BY <1>17 DEF V1FarAnswers, V1Runs, V1Goes, V1Returns, V1TypeOK, V1WiresOK, V1TablesOK, V1HistoryOK, V1IsrOK, V1NoIsr, V1Pins, V1Ats, v1Wires, v1Tables, v1History
<1>18. ASSUME NEW pin \in V1Pins, V1FarSends(pin) PROVE (V1WiresOK /\ V1TablesOK /\ V1HistoryOK /\ V1IsrOK)'
  BY <1>18 DEF V1FarSends, V1Runs, V1Goes, V1Returns, V1TypeOK, V1WiresOK, V1TablesOK, V1HistoryOK, V1IsrOK, V1NoIsr, V1Pins, V1Ats, v1Wires, v1Tables, v1History
<1>19. ASSUME NEW pin \in V1Pins, V1FarHears(pin) PROVE (V1WiresOK /\ V1TablesOK /\ V1HistoryOK /\ V1IsrOK)'
  BY <1>19 DEF V1FarHears, V1Runs, V1Goes, V1Returns, V1TypeOK, V1WiresOK, V1TablesOK, V1HistoryOK, V1IsrOK, V1NoIsr, V1Pins, V1Ats, v1Wires, v1Tables, v1History
<1> QED BY <1>1, <1>2, <1>3, <1>4, <1>5, <1>6, <1>7, <1>8, <1>9, <1>10, <1>11, <1>12, <1>13, <1>14, <1>15, <1>16, <1>17, <1>18, <1>19 DEF V1Next

(* The types of what the tasks do.                                         *)
LEMMA V1AtsTyped ==
  ASSUME V1TypeOK, V1Next, \A task \in V1Tasks : V1Place(task)
  PROVE  v1At' \in [V1Tasks -> V1Ats]
<1> DEFINE Goal == v1At' \in [V1Tasks -> V1Ats]
<1>a. V1Idle \in V1Ats /\ V1Pins \subseteq Int
  BY V1Members, V1Assumption
<1>1. ASSUME NEW task \in V1Senders, NEW pin \in V1Send, V1SendAsync(task, pin) PROVE Goal
  <2> DEFINE at == [do |-> "test", pin |-> pin, msg |-> v1Sent[pin] + 1, wait |-> pin \in V1Answered]
  <2>1. at \in V1Ats
    BY <1>a DEF V1TypeOK, V1HistoryOK, V1Ats, V1Steps, V1Pins
  <2>2. v1At' = [v1At EXCEPT ![task] = at]
    BY <1>1 DEF V1SendAsync
  <2> QED BY <2>1, <2>2, V1AtTyped, V1Members DEF V1TypeOK
<1>2. ASSUME NEW task \in V1Tasks, V1MboxTest(task) PROVE Goal
  <2>1. V1Returns(task) \/ V1Goes(task, "write")
    BY <1>2 DEF V1MboxTest
  <2> QED BY <2>1, <1>a, V1AtTyped DEF V1Returns, V1Goes, V1TypeOK, V1Steps
<1>3. ASSUME NEW task \in V1Tasks, V1MboxSend(task) PROVE Goal
  <2>1. V1Returns(task) \/ V1Goes(task, "await")
    BY <1>3 DEF V1MboxSend
  <2> QED BY <2>1, <1>a, V1AtTyped DEF V1Returns, V1Goes, V1TypeOK, V1Steps
<1>4. ASSUME NEW task \in V1Tasks, V1TooLong(task) PROVE Goal
  BY <1>4, <1>a, V1AtTyped DEF V1TooLong, V1Returns, V1TypeOK
<1>5. ASSUME NEW task \in V1Tasks, V1Await(task) PROVE Goal
  BY <1>5, V1AtTyped DEF V1Await, V1Goes, V1TypeOK, V1Steps
<1>6. ASSUME NEW task \in V1Tasks, V1Copy(task) PROVE Goal
  BY <1>6, <1>a, V1AtTyped DEF V1Copy, V1Returns, V1TypeOK
<1>7. ASSUME NEW task \in V1Tasks, V1Create(task) PROVE Goal
  BY <1>7, <1>a, V1AtTyped DEF V1Create, V1Returns, V1TypeOK
<1>8. ASSUME NEW task \in V1Tasks, V1Read(task) PROVE Goal
  <2>1. CASE V1Returns(task)
    BY <1>8, <1>a, <2>1, V1AtTyped DEF V1Returns, V1TypeOK
  <2>2. CASE ~V1Returns(task)
    <3> DEFINE pin == v1At[task].pin
               at == [do |-> "test", pin |-> pin, msg |-> -v1Data[pin], wait |-> FALSE]
    <3>1. pin \in V1Recv
      BY <1>8, V1Assumption DEF V1Read, V1Runs, V1Place, V1Pins
    <3>2. at \in V1Ats
      BY <1>a, <3>1 DEF V1TypeOK, V1TablesOK, V1Ats, V1Steps, V1Pins
    <3>3. v1At' = [v1At EXCEPT ![task] = at]
      BY <1>8, <2>2 DEF V1Read
    <3> QED BY <3>2, <3>3, V1AtTyped DEF V1TypeOK
  <2> QED BY <2>1, <2>2
<1>9. ASSUME NEW pin \in V1Recv, V1Register(pin) PROVE Goal
  BY <1>9, <1>a, V1AtTyped, V1Members DEF V1Register, V1TypeOK, V1Pins, V1Steps
<1>10. ASSUME NEW pin \in V1Recv, V1RecvWait(pin) PROVE Goal
  BY <1>10, <1>a, V1AtTyped, V1Members DEF V1RecvWait, V1TypeOK, V1Pins, V1Steps
<1>11. ASSUME V1IsrEnter(V1Send) PROVE Goal
  BY <1>11 DEF V1IsrEnter, V1TypeOK
<1>12. ASSUME V1IsrEnter(V1Recv) PROVE Goal
  BY <1>12 DEF V1IsrEnter, V1TypeOK
<1>13. ASSUME V1DoAck PROVE Goal
  BY <1>13 DEF V1DoAck, V1TypeOK
<1>14. ASSUME V1DoRecv PROVE Goal
  BY <1>14 DEF V1DoRecv, V1TypeOK
<1>15. ASSUME V1IsrClear PROVE Goal
  BY <1>15 DEF V1IsrClear, V1TypeOK
<1>16. ASSUME NEW pin \in V1Pins, V1FarTakes(pin) PROVE Goal
  BY <1>16 DEF V1FarTakes, V1TypeOK
<1>17. ASSUME NEW pin \in V1Pins, V1FarAnswers(pin) PROVE Goal
  BY <1>17 DEF V1FarAnswers, V1TypeOK
<1>18. ASSUME NEW pin \in V1Pins, V1FarSends(pin) PROVE Goal
  BY <1>18 DEF V1FarSends, V1TypeOK
<1>19. ASSUME NEW pin \in V1Pins, V1FarHears(pin) PROVE Goal
  BY <1>19 DEF V1FarHears, V1TypeOK
<1> QED BY <1>1, <1>2, <1>3, <1>4, <1>5, <1>6, <1>7, <1>8, <1>9, <1>10, <1>11, <1>12, <1>13, <1>14, <1>15, <1>16, <1>17, <1>18, <1>19 DEF V1Next

(* Who is on a pin.                                                        *)
LEMMA V1Placed ==
  ASSUME V1Inv, V1Next
  PROVE  \A other \in V1Tasks : V1Place(other)'
<1>1. ASSUME NEW task \in V1Senders, NEW pin \in V1Send, V1SendAsync(task, pin) PROVE \A other \in V1Tasks : V1Place(other)'
  BY V1Assumption, <1>1 DEF V1SendAsync, V1Runs, V1Goes, V1Returns, V1TypeOK, V1TablesOK, V1Ats, V1Place, V1Idle, V1Steps, V1Tasks, V1Pins, v1Wires, v1Tables, v1History, V1Inv
<1>2. ASSUME NEW task \in V1Tasks, V1MboxTest(task) PROVE \A other \in V1Tasks : V1Place(other)'
  BY V1Assumption, <1>2 DEF V1MboxTest, V1Runs, V1Goes, V1Returns, V1TypeOK, V1TablesOK, V1Ats, V1Place, V1Idle, V1Steps, V1Tasks, V1Pins, v1Wires, v1Tables, v1History, V1Inv
<1>3. ASSUME NEW task \in V1Tasks, V1MboxSend(task) PROVE \A other \in V1Tasks : V1Place(other)'
  BY V1Assumption, <1>3 DEF V1MboxSend, V1Runs, V1Goes, V1Returns, V1TypeOK, V1TablesOK, V1Ats, V1Place, V1Idle, V1Steps, V1Tasks, V1Pins, v1Wires, v1Tables, v1History, V1Inv
<1>4. ASSUME NEW task \in V1Tasks, V1TooLong(task) PROVE \A other \in V1Tasks : V1Place(other)'
  <2>1. v1At[task].pin \in V1Send /\ V1Returns(task)
        /\ v1Mutex' = [v1Mutex EXCEPT ![v1At[task].pin] = V1Free]
    BY V1Assumption, <1>4 DEF V1TooLong, V1Runs, V1Place, V1Inv
  <2>2. V1Place(task)'
    BY <2>1 DEF V1Returns, V1Inv, V1TypeOK, V1Place, V1Idle
  <2>3. ASSUME NEW other \in V1Tasks, other # task PROVE V1Place(other)'
    <3>1. v1At'[other] = v1At[other]
      BY <2>1, <2>3 DEF V1Returns, V1Inv, V1TypeOK
    <3>2. v1At[other].do # "idle" /\ v1At[other].pin \in V1Send =>
            v1Mutex'[v1At[other].pin] = v1Mutex[v1At[other].pin]
      BY <1>4, <2>1, <2>3 DEF V1TooLong, V1Runs, V1Inv, V1Place, V1TypeOK, V1TablesOK
    <3> QED BY <3>1, <3>2 DEF V1Inv, V1Place
  <2> QED BY <2>2, <2>3
<1>5. ASSUME NEW task \in V1Tasks, V1Await(task) PROVE \A other \in V1Tasks : V1Place(other)'
  BY V1Assumption, <1>5 DEF V1Await, V1Runs, V1Goes, V1Returns, V1TypeOK, V1TablesOK, V1Ats, V1Place, V1Idle, V1Steps, V1Tasks, V1Pins, v1Wires, v1Tables, v1History, V1Inv
<1>6. ASSUME NEW task \in V1Tasks, V1Copy(task) PROVE \A other \in V1Tasks : V1Place(other)'
  <2>1. v1At[task].pin \in V1Send /\ V1Returns(task)
        /\ v1Mutex' = [v1Mutex EXCEPT ![v1At[task].pin] = V1Free]
    BY V1Assumption, <1>6 DEF V1Copy, V1Runs, V1Place, V1Inv
  <2>2. V1Place(task)'
    BY <2>1 DEF V1Returns, V1Inv, V1TypeOK, V1Place, V1Idle
  <2>3. ASSUME NEW other \in V1Tasks, other # task PROVE V1Place(other)'
    <3>1. v1At'[other] = v1At[other]
      BY <2>1, <2>3 DEF V1Returns, V1Inv, V1TypeOK
    <3>2. v1At[other].do # "idle" /\ v1At[other].pin \in V1Send =>
            v1Mutex'[v1At[other].pin] = v1Mutex[v1At[other].pin]
      BY <1>6, <2>1, <2>3 DEF V1Copy, V1Runs, V1Inv, V1Place, V1TypeOK, V1TablesOK
    <3> QED BY <3>1, <3>2 DEF V1Inv, V1Place
  <2> QED BY <2>2, <2>3
<1>7. ASSUME NEW task \in V1Tasks, V1Create(task) PROVE \A other \in V1Tasks : V1Place(other)'
  BY V1Assumption, <1>7 DEF V1Create, V1Runs, V1Goes, V1Returns, V1TypeOK, V1TablesOK, V1Ats, V1Place, V1Idle, V1Steps, V1Tasks, V1Pins, v1Wires, v1Tables, v1History, V1Inv
<1>8. ASSUME NEW task \in V1Tasks, V1Read(task) PROVE \A other \in V1Tasks : V1Place(other)'
  <2>1. v1At[task].pin \in V1Recv /\ task = V1Listener[v1At[task].pin]
    BY V1Assumption, <1>8 DEF V1Read, V1Runs, V1Place, V1Inv, V1Pins
  <2>2. V1Place(task)'
    <3> DEFINE pin == v1At[task].pin
    <3>1. \/ /\ pin \in V1Answered
             /\ v1At'[task] = [do |-> "test", pin |-> pin, msg |-> -v1Data[pin], wait |-> FALSE]
          \/ v1At'[task] = V1Idle
      BY <1>8 DEF V1Read, V1Returns, V1Inv, V1TypeOK
    <3>2. pin \in V1Pins /\ pin \notin V1Send
      BY <2>1, V1Assumption DEF V1Pins
    <3>3. CASE v1At'[task] = V1Idle
      BY <3>3 DEF V1Place, V1Idle
    <3>4. CASE /\ pin \in V1Answered
               /\ v1At'[task] = [do |-> "test", pin |-> pin, msg |-> -v1Data[pin], wait |-> FALSE]
      <4>1. v1At'[task].do = "test" /\ v1At'[task].pin = pin /\ v1At'[task].wait = FALSE
        BY <3>4
      <4> QED BY <2>1, <3>2, <3>4, <4>1 DEF V1Place
    <3> QED BY <3>1, <3>3, <3>4
  <2>3. ASSUME NEW other \in V1Tasks, other # task PROVE V1Place(other)'
    <3>1. v1At'[other] = v1At[other]
      BY <1>8, <2>3 DEF V1Read, V1Returns, V1Inv, V1TypeOK
    <3> QED BY <1>8, <3>1 DEF V1Read, v1Tables, V1Inv, V1Place
  <2> QED BY <2>2, <2>3
<1>9. ASSUME NEW pin \in V1Recv, V1Register(pin) PROVE \A other \in V1Tasks : V1Place(other)'
  BY V1Assumption, <1>9 DEF V1Register, V1Runs, V1Goes, V1Returns, V1TypeOK, V1TablesOK, V1Ats, V1Place, V1Idle, V1Steps, V1Tasks, V1Pins, v1Wires, v1Tables, v1History, V1Inv
<1>10. ASSUME NEW pin \in V1Recv, V1RecvWait(pin) PROVE \A other \in V1Tasks : V1Place(other)'
  BY V1Assumption, <1>10 DEF V1RecvWait, V1Runs, V1Goes, V1Returns, V1TypeOK, V1TablesOK, V1Ats, V1Place, V1Idle, V1Steps, V1Tasks, V1Pins, v1Wires, v1Tables, v1History, V1Inv
<1>11. ASSUME V1IsrEnter(V1Send) PROVE \A other \in V1Tasks : V1Place(other)'
  BY V1Assumption, <1>11 DEF V1IsrEnter, V1Runs, V1Goes, V1Returns, V1TypeOK, V1TablesOK, V1Ats, V1Place, V1Idle, V1Steps, V1Tasks, V1Pins, v1Wires, v1Tables, v1History, V1Inv
<1>12. ASSUME V1IsrEnter(V1Recv) PROVE \A other \in V1Tasks : V1Place(other)'
  BY V1Assumption, <1>12 DEF V1IsrEnter, V1Runs, V1Goes, V1Returns, V1TypeOK, V1TablesOK, V1Ats, V1Place, V1Idle, V1Steps, V1Tasks, V1Pins, v1Wires, v1Tables, v1History, V1Inv
<1>13. ASSUME V1DoAck PROVE \A other \in V1Tasks : V1Place(other)'
  BY V1Assumption, <1>13 DEF V1DoAck, V1Runs, V1Goes, V1Returns, V1TypeOK, V1TablesOK, V1Ats, V1Place, V1Idle, V1Steps, V1Tasks, V1Pins, v1Wires, v1Tables, v1History, V1Inv
<1>14. ASSUME V1DoRecv PROVE \A other \in V1Tasks : V1Place(other)'
  BY V1Assumption, <1>14 DEF V1DoRecv, V1Runs, V1Goes, V1Returns, V1TypeOK, V1TablesOK, V1Ats, V1Place, V1Idle, V1Steps, V1Tasks, V1Pins, v1Wires, v1Tables, v1History, V1Inv
<1>15. ASSUME V1IsrClear PROVE \A other \in V1Tasks : V1Place(other)'
  BY V1Assumption, <1>15 DEF V1IsrClear, V1Runs, V1Goes, V1Returns, V1TypeOK, V1TablesOK, V1Ats, V1Place, V1Idle, V1Steps, V1Tasks, V1Pins, v1Wires, v1Tables, v1History, V1Inv
<1>16. ASSUME NEW pin \in V1Pins, V1FarTakes(pin) PROVE \A other \in V1Tasks : V1Place(other)'
  BY V1Assumption, <1>16 DEF V1FarTakes, V1Runs, V1Goes, V1Returns, V1TypeOK, V1TablesOK, V1Ats, V1Place, V1Idle, V1Steps, V1Tasks, V1Pins, v1Wires, v1Tables, v1History, V1Inv
<1>17. ASSUME NEW pin \in V1Pins, V1FarAnswers(pin) PROVE \A other \in V1Tasks : V1Place(other)'
  BY V1Assumption, <1>17 DEF V1FarAnswers, V1Runs, V1Goes, V1Returns, V1TypeOK, V1TablesOK, V1Ats, V1Place, V1Idle, V1Steps, V1Tasks, V1Pins, v1Wires, v1Tables, v1History, V1Inv
<1>18. ASSUME NEW pin \in V1Pins, V1FarSends(pin) PROVE \A other \in V1Tasks : V1Place(other)'
  BY V1Assumption, <1>18 DEF V1FarSends, V1Runs, V1Goes, V1Returns, V1TypeOK, V1TablesOK, V1Ats, V1Place, V1Idle, V1Steps, V1Tasks, V1Pins, v1Wires, v1Tables, v1History, V1Inv
<1>19. ASSUME NEW pin \in V1Pins, V1FarHears(pin) PROVE \A other \in V1Tasks : V1Place(other)'
  BY V1Assumption, <1>19 DEF V1FarHears, V1Runs, V1Goes, V1Returns, V1TypeOK, V1TablesOK, V1Ats, V1Place, V1Idle, V1Steps, V1Tasks, V1Pins, v1Wires, v1Tables, v1History, V1Inv
<1> QED BY <1>1, <1>2, <1>3, <1>4, <1>5, <1>6, <1>7, <1>8, <1>9, <1>10, <1>11, <1>12, <1>13, <1>14, <1>15, <1>16, <1>17, <1>18, <1>19 DEF V1Next

(* A step that leaves alone the slot and the bits of a send pin, and who   *)
(* waits for it or copies from it, leaves alone its conversation.          *)
LEMMA V1AskKept ==
  ASSUME V1Inv, NEW q \in V1Send,
         UNCHANGED <<v1In, v1Isr, v1Far, v1Ack, v1Got, v1Long, v1Slot[q]>>,
         q \in v1Out' <=> q \in v1Out,
         \A other \in V1Senders : V1On(other, q, {"copy"})' =>
            V1On(other, q, {"copy"}) /\ v1At'[other] = v1At[other],
         \A other \in V1Senders : V1On(other, q, {"await"}) /\ v1Mutex[q] = other =>
            v1Mutex'[q] = other /\ v1At'[other] = v1At[other]
  PROVE  V1Ask(q)'
<1>1. V1Pending' = V1Pending /\ V1Ask(q)
  BY DEF V1Pending, V1Inv
<1>2. ASSUME q \in V1Answered \ v1Long PROVE V1Asked(q)'
  <2>1. CASE q \in v1Out \/ v1Far[q] # 0 \/ q \in V1Pending \/ q \in v1Ack
    <3>1. v1Mutex[q] \in V1Senders /\ V1On(v1Mutex[q], q, {"await"})
      BY <1>1, <1>2, <2>1 DEF V1Ask, V1Asked
    <3>2. v1Mutex'[q] = v1Mutex[q] /\ v1At'[v1Mutex[q]] = v1At[v1Mutex[q]]
      BY <3>1
    <3> QED BY <1>1, <1>2, <3>1, <3>2 DEF V1Ask, V1Asked, V1On, V1AtMostOne
  <2>2. CASE ~(q \in v1Out \/ v1Far[q] # 0 \/ q \in V1Pending \/ q \in v1Ack)
    BY <1>1, <2>2 DEF V1Asked, V1AtMostOne
  <2> QED BY <2>1, <2>2
<1> QED BY <1>1, <1>2 DEF V1Ask

(* A send pin.                                                             *)
LEMMA V1AskStep ==
  ASSUME V1Inv, NEW q \in V1Send, V1Next
  PROVE  V1Ask(q)'
<1>1. ASSUME NEW task \in V1Senders, NEW pin \in V1Send, V1SendAsync(task, pin) PROVE V1Ask(q)'
  BY V1Assumption, <1>1 DEF V1SendAsync, V1Runs, V1Goes, V1Returns, V1Inv, V1TypeOK, V1WiresOK, V1TablesOK, V1HistoryOK, V1IsrOK, V1NoIsr, V1Ats, V1Place, V1Ask, V1Asked, V1On, V1AtMostOne, V1Pending, V1Idle, V1Tasks, V1Pins, v1Wires, v1Tables, v1History
<1>2. ASSUME NEW task \in V1Tasks, V1MboxTest(task) PROVE V1Ask(q)'
  <2> DEFINE at == v1At[task]
  <2>1. /\ at.do = "test"
        /\ at.pin \in V1Send => v1Mutex[at.pin] = task
        /\ v1At \in [V1Tasks -> V1Ats] /\ v1Mutex \in [V1Send -> V1Senders \cup {V1Free}]
    BY <1>2 DEF V1MboxTest, V1Runs, V1Inv, V1Place, V1TypeOK, V1TablesOK
  <2>2. /\ \A other \in V1Tasks : other # task => v1At'[other] = v1At[other]
        /\ v1At'[task].do \in {"idle", "write"}
        /\ q # at.pin => v1Mutex'[q] = v1Mutex[q]
    BY <1>2, <2>1 DEF V1MboxTest, V1Returns, V1Goes, V1Idle, V1Ats
  <2>3. UNCHANGED <<v1Out, v1In, v1Slot, v1Isr, v1Far, v1Ack, v1Got, v1Long>>
    BY <1>2 DEF V1MboxTest, v1Wires, v1History
  <2> QED BY <2>1, <2>2, <2>3, V1AskKept, V1Members DEF V1On
<1>3. ASSUME NEW task \in V1Tasks, V1MboxSend(task) PROVE V1Ask(q)'
  <2> DEFINE at == v1At[task]
  <2>1. /\ at.do = "write" /\ V1Ask(q)
        /\ at.pin \in V1Send => v1Mutex[at.pin] = task /\ task \in V1Senders
        /\ at.wait = (at.pin \in V1Send /\ at.pin \in V1Answered)
        /\ v1At \in [V1Tasks -> V1Ats] /\ v1Mutex \in [V1Send -> V1Senders \cup {V1Free}]
        /\ v1Slot \in [V1Pins -> Int] /\ q \in V1Pins
    BY <1>3 DEF V1MboxSend, V1Runs, V1Inv, V1Place, V1TypeOK, V1TablesOK, V1WiresOK, V1Pins
  <2>2. /\ \A other \in V1Tasks : other # task => v1At'[other] = v1At[other]
        /\ v1At'[task].do \in {"idle", "await"}
        /\ q # at.pin => v1Mutex'[q] = v1Mutex[q]
    BY <1>3, <2>1 DEF V1MboxSend, V1Returns, V1Goes, V1Idle, V1Ats
  <2>3. UNCHANGED <<v1In, v1Isr, v1Far, v1Ack, v1Got, v1Long>>
        /\ v1Out' = v1Out \cup {at.pin} /\ v1Slot' = [v1Slot EXCEPT ![at.pin] = at.msg]
    BY <1>3 DEF V1MboxSend, v1History
  <2>4. V1Pending' = V1Pending
    BY <2>3 DEF V1Pending
  <2>5. CASE q # at.pin
    BY <2>1, <2>2, <2>3, <2>5, V1AskKept, V1Members DEF V1On
  <2>6. CASE q = at.pin
    <3>1. \A other \in V1Senders : V1On(other, q, {"copy"})' => FALSE
      <4>1. \A other \in V1Senders : v1At[other].do = "copy" /\ v1At[other].pin = q => v1Mutex[q] = other
        BY V1Members DEF V1Inv, V1Place
      <4> QED BY <2>1, <2>2, <2>6, <4>1, V1Members DEF V1On
    <3>2. ASSUME q \in V1Answered \ v1Long PROVE V1Asked(q)'
      <4>1. ~(q \in v1Out \/ v1Far[q] # 0 \/ q \in V1Pending \/ q \in v1Ack)
        BY <2>1, <2>6, <3>2 DEF V1Ask, V1Asked, V1On
      <4>2. v1At' = [v1At EXCEPT ![task].do = "await"] /\ v1Mutex' = v1Mutex
        BY <1>3, <2>1, <2>6, <3>2 DEF V1MboxSend, V1Goes
      <4>3. v1At'[task].do = "await" /\ v1At'[task].pin = q /\ v1At'[task].msg = at.msg
        BY <2>1, <2>6, <4>2 DEF V1Ats
      <4>4. v1Slot'[q] = at.msg
        BY <2>1, <2>3, <2>6
      <4> QED BY <2>1, <2>3, <2>4, <2>6, <4>1, <4>2, <4>3, <4>4 DEF V1Asked, V1On, V1AtMostOne
    <3> QED BY <2>1, <2>3, <3>1, <3>2 DEF V1Ask
  <2> QED BY <2>5, <2>6
<1>4. ASSUME NEW task \in V1Tasks, V1TooLong(task) PROVE V1Ask(q)'
  BY V1Assumption, <1>4 DEF V1TooLong, V1Runs, V1Goes, V1Returns, V1Inv, V1TypeOK, V1WiresOK, V1TablesOK, V1HistoryOK, V1IsrOK, V1NoIsr, V1Ats, V1Place, V1Ask, V1Asked, V1On, V1AtMostOne, V1Pending, V1Idle, V1Tasks, V1Pins, v1Wires, v1Tables, v1History
<1>5. ASSUME NEW task \in V1Tasks, V1Await(task) PROVE V1Ask(q)'
  BY V1Assumption, <1>5 DEF V1Await, V1Runs, V1Goes, V1Returns, V1Inv, V1TypeOK, V1WiresOK, V1TablesOK, V1HistoryOK, V1IsrOK, V1NoIsr, V1Ats, V1Place, V1Ask, V1Asked, V1On, V1AtMostOne, V1Pending, V1Idle, V1Tasks, V1Pins, v1Wires, v1Tables, v1History
<1>6. ASSUME NEW task \in V1Tasks, V1Copy(task) PROVE V1Ask(q)'
  BY V1Assumption, <1>6 DEF V1Copy, V1Runs, V1Goes, V1Returns, V1Inv, V1TypeOK, V1WiresOK, V1TablesOK, V1HistoryOK, V1IsrOK, V1NoIsr, V1Ats, V1Place, V1Ask, V1Asked, V1On, V1AtMostOne, V1Pending, V1Idle, V1Tasks, V1Pins, v1Wires, v1Tables, v1History
<1>7. ASSUME NEW task \in V1Tasks, V1Create(task) PROVE V1Ask(q)'
  BY V1Assumption, <1>7 DEF V1Create, V1Runs, V1Goes, V1Returns, V1Inv, V1TypeOK, V1WiresOK, V1TablesOK, V1HistoryOK, V1IsrOK, V1NoIsr, V1Ats, V1Place, V1Ask, V1Asked, V1On, V1AtMostOne, V1Pending, V1Idle, V1Tasks, V1Pins, v1Wires, v1Tables, v1History
<1>8. ASSUME NEW task \in V1Tasks, V1Read(task) PROVE V1Ask(q)'
  <2>1. /\ v1At[task].do = "read" /\ v1At[task].pin \in V1Recv
        /\ v1At \in [V1Tasks -> V1Ats]
    BY <1>8, V1Assumption DEF V1Read, V1Runs, V1Inv, V1Place, V1TypeOK, V1Pins
  <2>2. /\ \A other \in V1Tasks : other # task => v1At'[other] = v1At[other]
        /\ v1At'[task].do \in {"idle", "test"}
    BY <1>8, <2>1 DEF V1Read, V1Returns, V1Idle
  <2>3. UNCHANGED <<v1Out, v1In, v1Slot, v1Isr, v1Far, v1Ack, v1Got, v1Long, v1Mutex>>
    BY <1>8 DEF V1Read, v1Wires, v1Tables
  <2> QED BY <2>1, <2>2, <2>3, V1AskKept, V1Members DEF V1On
<1>9. ASSUME NEW pin \in V1Recv, V1Register(pin) PROVE V1Ask(q)'
  BY V1Assumption, <1>9 DEF V1Register, V1Runs, V1Goes, V1Returns, V1Inv, V1TypeOK, V1WiresOK, V1TablesOK, V1HistoryOK, V1IsrOK, V1NoIsr, V1Ats, V1Place, V1Ask, V1Asked, V1On, V1AtMostOne, V1Pending, V1Idle, V1Tasks, V1Pins, v1Wires, v1Tables, v1History
<1>10. ASSUME NEW pin \in V1Recv, V1RecvWait(pin) PROVE V1Ask(q)'
  BY V1Assumption, <1>10 DEF V1RecvWait, V1Runs, V1Goes, V1Returns, V1Inv, V1TypeOK, V1WiresOK, V1TablesOK, V1HistoryOK, V1IsrOK, V1NoIsr, V1Ats, V1Place, V1Ask, V1Asked, V1On, V1AtMostOne, V1Pending, V1Idle, V1Tasks, V1Pins, v1Wires, v1Tables, v1History
<1>11. ASSUME V1IsrEnter(V1Send) PROVE V1Ask(q)'
  BY V1Assumption, <1>11 DEF V1IsrEnter, V1Runs, V1Goes, V1Returns, V1Inv, V1TypeOK, V1WiresOK, V1TablesOK, V1HistoryOK, V1IsrOK, V1NoIsr, V1Ats, V1Place, V1Ask, V1Asked, V1On, V1AtMostOne, V1Pending, V1Idle, V1Tasks, V1Pins, v1Wires, v1Tables, v1History
<1>12. ASSUME V1IsrEnter(V1Recv) PROVE V1Ask(q)'
  BY V1Assumption, <1>12 DEF V1IsrEnter, V1Runs, V1Goes, V1Returns, V1Inv, V1TypeOK, V1WiresOK, V1TablesOK, V1HistoryOK, V1IsrOK, V1NoIsr, V1Ats, V1Place, V1Ask, V1Asked, V1On, V1AtMostOne, V1Pending, V1Idle, V1Tasks, V1Pins, v1Wires, v1Tables, v1History
<1>13. ASSUME V1DoAck PROVE V1Ask(q)'
  BY V1Assumption, <1>13, V1NextPin DEF V1DoAck, V1Runs, V1Goes, V1Returns, V1Inv, V1TypeOK, V1WiresOK, V1TablesOK, V1HistoryOK, V1IsrOK, V1NoIsr, V1Ats, V1Place, V1Ask, V1Asked, V1On, V1AtMostOne, V1Pending, V1Idle, V1Tasks, V1Pins, v1Wires, v1Tables, v1History
<1>14. ASSUME V1DoRecv PROVE V1Ask(q)'
  BY V1Assumption, <1>14, V1NextPin DEF V1DoRecv, V1Runs, V1Goes, V1Returns, V1Inv, V1TypeOK, V1WiresOK, V1TablesOK, V1HistoryOK, V1IsrOK, V1NoIsr, V1Ats, V1Place, V1Ask, V1Asked, V1On, V1AtMostOne, V1Pending, V1Idle, V1Tasks, V1Pins, v1Wires, v1Tables, v1History
<1>15. ASSUME V1IsrClear PROVE V1Ask(q)'
  BY V1Assumption, <1>15 DEF V1IsrClear, V1Runs, V1Goes, V1Returns, V1Inv, V1TypeOK, V1WiresOK, V1TablesOK, V1HistoryOK, V1IsrOK, V1NoIsr, V1Ats, V1Place, V1Ask, V1Asked, V1On, V1AtMostOne, V1Pending, V1Idle, V1Tasks, V1Pins, v1Wires, v1Tables, v1History
<1>16. ASSUME NEW pin \in V1Pins, V1FarTakes(pin) PROVE V1Ask(q)'
  BY V1Assumption, <1>16 DEF V1FarTakes, V1Runs, V1Goes, V1Returns, V1Inv, V1TypeOK, V1WiresOK, V1TablesOK, V1HistoryOK, V1IsrOK, V1NoIsr, V1Ats, V1Place, V1Ask, V1Asked, V1On, V1AtMostOne, V1Pending, V1Idle, V1Tasks, V1Pins, v1Wires, v1Tables, v1History
<1>17. ASSUME NEW pin \in V1Pins, V1FarAnswers(pin) PROVE V1Ask(q)'
  BY V1Assumption, <1>17 DEF V1FarAnswers, V1Runs, V1Goes, V1Returns, V1Inv, V1TypeOK, V1WiresOK, V1TablesOK, V1HistoryOK, V1IsrOK, V1NoIsr, V1Ats, V1Place, V1Ask, V1Asked, V1On, V1AtMostOne, V1Pending, V1Idle, V1Tasks, V1Pins, v1Wires, v1Tables, v1History
<1>18. ASSUME NEW pin \in V1Pins, V1FarSends(pin) PROVE V1Ask(q)'
  BY V1Assumption, <1>18 DEF V1FarSends, V1Runs, V1Goes, V1Returns, V1Inv, V1TypeOK, V1WiresOK, V1TablesOK, V1HistoryOK, V1IsrOK, V1NoIsr, V1Ats, V1Place, V1Ask, V1Asked, V1On, V1AtMostOne, V1Pending, V1Idle, V1Tasks, V1Pins, v1Wires, v1Tables, v1History
<1>19. ASSUME NEW pin \in V1Pins, V1FarHears(pin) PROVE V1Ask(q)'
  BY V1Assumption, <1>19 DEF V1FarHears, V1Runs, V1Goes, V1Returns, V1Inv, V1TypeOK, V1WiresOK, V1TablesOK, V1HistoryOK, V1IsrOK, V1NoIsr, V1Ats, V1Place, V1Ask, V1Asked, V1On, V1AtMostOne, V1Pending, V1Idle, V1Tasks, V1Pins, v1Wires, v1Tables, v1History
<1> QED BY <1>1, <1>2, <1>3, <1>4, <1>5, <1>6, <1>7, <1>8, <1>9, <1>10, <1>11, <1>12, <1>13, <1>14, <1>15, <1>16, <1>17, <1>18, <1>19 DEF V1Next



(* The same for a receive pin, its bits, its buffers and its listener.     *)
LEMMA V1TellKept ==
  ASSUME V1Inv, NEW q \in V1Recv,
         UNCHANGED <<v1In, v1Isr, v1Far, v1Data, v1Sema, v1Act, v1Sent, v1Due, v1Seen, v1Slot[q]>>,
         q \in v1Out' <=> q \in v1Out,
         V1On(V1Listener[q], q, {"read"})' <=> V1On(V1Listener[q], q, {"read"}),
         V1On(V1Listener[q], q, {"test", "write"})' <=> V1On(V1Listener[q], q, {"test", "write"}),
         V1On(V1Listener[q], q, {"test", "write"}) =>
            v1At'[V1Listener[q]].msg = v1At[V1Listener[q]].msg
  PROVE  V1Tell(q)'
<1>1. V1Pending' = V1Pending /\ V1Tell(q)
  BY DEF V1Pending, V1Inv
<1>2. ASSUME q \in V1Answered PROVE V1Told(q)'
  <2>1. V1Told(q)
    BY <1>1, <1>2 DEF V1Tell
  <2> QED BY <1>1, <2>1 DEF V1Told, V1AtMostOne
<1> QED BY <1>1, <1>2 DEF V1Tell

(* A receive pin.                                                          *)
LEMMA V1TellStep ==
  ASSUME V1Inv, NEW q \in V1Recv, V1Next
  PROVE  V1Tell(q)'
<1>1. ASSUME NEW task \in V1Senders, NEW pin \in V1Send, V1SendAsync(task, pin) PROVE V1Tell(q)'
  BY V1Assumption, <1>1 DEF V1SendAsync, V1Runs, V1Goes, V1Returns, V1Inv, V1TypeOK, V1WiresOK, V1TablesOK, V1HistoryOK, V1IsrOK, V1NoIsr, V1Ats, V1Place, V1Tell, V1Told, V1On, V1AtMostOne, V1Pending, V1Idle, V1Tasks, V1Pins, v1Wires, v1Tables, v1History
<1>2. ASSUME NEW task \in V1Tasks, V1MboxTest(task) PROVE V1Tell(q)'
  <2> DEFINE at == v1At[task]
             listener == V1Listener[q]
  <2>a. /\ at.do = "test" /\ V1Tell(q) /\ listener \in V1Tasks
        /\ V1Place(task) /\ v1At \in [V1Tasks -> V1Ats]
    BY <1>2, V1Members DEF V1MboxTest, V1Runs, V1Inv, V1TypeOK
  <2>b. at.pin = q => task = listener /\ q \in V1Answered
    BY <2>a DEF V1Place
  <2>1. /\ at.do = "test" /\ V1Tell(q) /\ at \in V1Ats /\ listener \in V1Tasks
        /\ at.pin = q => task = listener /\ q \in V1Answered
        /\ v1At \in [V1Tasks -> V1Ats]
    BY <2>a, <2>b
  <2>2. /\ \A other \in V1Tasks : other # task => v1At'[other] = v1At[other]
        /\ \/ v1At'[task].do = "idle" /\ at.pin \in v1Out
           \/ /\ v1At'[task].do = "write" /\ v1At'[task].pin = at.pin
              /\ v1At'[task].msg = at.msg
    BY <1>2, <2>1 DEF V1MboxTest, V1Returns, V1Goes, V1Idle, V1Ats
  <2>3. UNCHANGED <<v1Out, v1In, v1Slot, v1Isr, v1Far, v1Data, v1Sema, v1Act, v1Sent, v1Due, v1Seen>>
    BY <1>2 DEF V1MboxTest, v1Wires, v1History
  <2>4. at.pin = q => q \notin v1Out
    <3>1. at.pin = q => V1On(listener, q, {"test", "write"})
      BY <2>1 DEF V1On
    <3> QED BY <2>1, <3>1 DEF V1Tell, V1Told, V1AtMostOne
  <2>5. /\ V1On(listener, q, {"read"})' <=> V1On(listener, q, {"read"})
        /\ V1On(listener, q, {"test", "write"})' <=> V1On(listener, q, {"test", "write"})
        /\ V1On(listener, q, {"test", "write"}) => v1At'[listener].msg = v1At[listener].msg
    BY <2>1, <2>2, <2>4 DEF V1On
  <2> QED BY <2>3, <2>5, V1TellKept
<1>3. ASSUME NEW task \in V1Tasks, V1MboxSend(task) PROVE V1Tell(q)'
  <2> DEFINE at == v1At[task]
             listener == V1Listener[q]
  <2>a. /\ at.do = "write" /\ V1Tell(q) /\ listener \in V1Tasks
        /\ V1Place(task) /\ v1At \in [V1Tasks -> V1Ats]
        /\ v1Slot \in [V1Pins -> Int] /\ q \in V1Pins
    BY <1>3, V1Members DEF V1MboxSend, V1Runs, V1Inv, V1TypeOK, V1WiresOK, V1Pins
  <2>b. at.pin = q => task = listener /\ q \in V1Answered /\ ~at.wait
    BY <2>a, V1Assumption DEF V1Place
  <2>1. /\ at.do = "write" /\ V1Tell(q) /\ at \in V1Ats /\ listener \in V1Tasks
        /\ at.pin = q => task = listener /\ q \in V1Answered /\ ~at.wait
        /\ v1At \in [V1Tasks -> V1Ats]
        /\ v1Slot \in [V1Pins -> Int] /\ q \in V1Pins
    BY <2>a, <2>b
  <2>2. /\ \A other \in V1Tasks : other # task => v1At'[other] = v1At[other]
        /\ v1At'[task].do \in {"idle", "await"}
    BY <1>3, <2>1 DEF V1MboxSend, V1Returns, V1Goes, V1Idle, V1Ats
  <2>3. /\ UNCHANGED <<v1In, v1Isr, v1Far, v1Data, v1Sema, v1Act, v1Sent, v1Due, v1Seen>>
        /\ v1Out' = v1Out \cup {at.pin} /\ v1Slot' = [v1Slot EXCEPT ![at.pin] = at.msg]
    BY <1>3 DEF V1MboxSend, v1History
  <2>4. CASE q # at.pin
    <3>1. /\ V1On(listener, q, {"read"})' <=> V1On(listener, q, {"read"})
          /\ V1On(listener, q, {"test", "write"})' <=> V1On(listener, q, {"test", "write"})
          /\ V1On(listener, q, {"test", "write"}) => v1At'[listener].msg = v1At[listener].msg
      BY <2>1, <2>2, <2>4 DEF V1On
    <3>2. v1Slot'[q] = v1Slot[q] /\ (q \in v1Out' <=> q \in v1Out)
      BY <2>1, <2>3, <2>4
    <3> QED BY <2>3, <3>1, <3>2, V1TellKept
  <2>5. CASE q = at.pin
    <3>1. V1Pending' = V1Pending
      BY <2>3 DEF V1Pending
    <3>2. V1Told(q) /\ V1On(listener, q, {"test", "write"}) /\ listener = task
      BY <2>1, <2>5 DEF V1Tell, V1On
    <3>3. ~(V1On(listener, q, {"read"})') /\ ~(V1On(listener, q, {"test", "write"})')
      BY <2>2, <3>2 DEF V1On
    <3>4. /\ q \notin V1Pending /\ q \notin v1Sema /\ ~V1On(listener, q, {"read"})
          /\ at.msg = -v1Far[q] /\ v1Far[q] # 0
      BY <3>2 DEF V1Told, V1AtMostOne
    <3>5. q \in v1Out' /\ v1Slot'[q] = at.msg
      BY <2>1, <2>3, <2>5
    <3>6. V1Told(q)'
      BY <2>3, <3>1, <3>3, <3>4, <3>5 DEF V1Told, V1AtMostOne
    <3> QED BY <2>1, <2>3, <3>1, <3>3, <3>4, <3>6 DEF V1Tell
  <2> QED BY <2>4, <2>5
<1>4. ASSUME NEW task \in V1Tasks, V1TooLong(task) PROVE V1Tell(q)'
  BY V1Assumption, <1>4 DEF V1TooLong, V1Runs, V1Goes, V1Returns, V1Inv, V1TypeOK, V1WiresOK, V1TablesOK, V1HistoryOK, V1IsrOK, V1NoIsr, V1Ats, V1Place, V1Tell, V1Told, V1On, V1AtMostOne, V1Pending, V1Idle, V1Tasks, V1Pins, v1Wires, v1Tables, v1History
<1>5. ASSUME NEW task \in V1Tasks, V1Await(task) PROVE V1Tell(q)'
  BY V1Assumption, <1>5 DEF V1Await, V1Runs, V1Goes, V1Returns, V1Inv, V1TypeOK, V1WiresOK, V1TablesOK, V1HistoryOK, V1IsrOK, V1NoIsr, V1Ats, V1Place, V1Tell, V1Told, V1On, V1AtMostOne, V1Pending, V1Idle, V1Tasks, V1Pins, v1Wires, v1Tables, v1History
<1>6. ASSUME NEW task \in V1Tasks, V1Copy(task) PROVE V1Tell(q)'
  BY V1Assumption, <1>6 DEF V1Copy, V1Runs, V1Goes, V1Returns, V1Inv, V1TypeOK, V1WiresOK, V1TablesOK, V1HistoryOK, V1IsrOK, V1NoIsr, V1Ats, V1Place, V1Tell, V1Told, V1On, V1AtMostOne, V1Pending, V1Idle, V1Tasks, V1Pins, v1Wires, v1Tables, v1History
<1>7. ASSUME NEW task \in V1Tasks, V1Create(task) PROVE V1Tell(q)'
  BY V1Assumption, <1>7 DEF V1Create, V1Runs, V1Goes, V1Returns, V1Inv, V1TypeOK, V1WiresOK, V1TablesOK, V1HistoryOK, V1IsrOK, V1NoIsr, V1Ats, V1Place, V1Tell, V1Told, V1On, V1AtMostOne, V1Pending, V1Idle, V1Tasks, V1Pins, v1Wires, v1Tables, v1History
<1>8. ASSUME NEW task \in V1Tasks, V1Read(task) PROVE V1Tell(q)'
  <2> DEFINE at == v1At[task]
             listener == V1Listener[q]
  <2>1. /\ at.do = "read" /\ V1Tell(q) /\ listener \in V1Tasks
        /\ at.pin \in V1Recv /\ task = V1Listener[at.pin]
        /\ v1At \in [V1Tasks -> V1Ats] /\ v1Seen \in [V1Recv -> Int]
    BY <1>8, V1Members, V1Assumption
    DEF V1Read, V1Runs, V1Inv, V1Place, V1TypeOK, V1HistoryOK, V1Pins
  <2>2. /\ \A other \in V1Tasks : other # task => v1At'[other] = v1At[other]
        /\ \/ at.pin \notin V1Answered /\ v1At'[task].do = "idle"
           \/ /\ at.pin \in V1Answered /\ v1At'[task].do = "test"
              /\ v1At'[task].pin = at.pin /\ v1At'[task].msg = -v1Data[at.pin]
    BY <1>8, <2>1 DEF V1Read, V1Returns, V1Idle
  <2>3. /\ UNCHANGED <<v1Out, v1In, v1Slot, v1Isr, v1Far, v1Data, v1Sema, v1Act, v1Sent, v1Due>>
        /\ v1Seen' = [v1Seen EXCEPT ![at.pin] = v1Data[at.pin]]
    BY <1>8 DEF V1Read, v1Wires, v1Tables
  <2>4. V1Pending' = V1Pending
    BY <2>3 DEF V1Pending
  <2>5. CASE q # at.pin
    <3>1. /\ V1On(listener, q, {"read"})' <=> V1On(listener, q, {"read"})
          /\ V1On(listener, q, {"test", "write"})' <=> V1On(listener, q, {"test", "write"})
          /\ V1On(listener, q, {"test", "write"}) => v1At'[listener].msg = v1At[listener].msg
      BY <2>1, <2>2, <2>5 DEF V1On
    <3>2. v1Seen'[q] = v1Seen[q]
      BY <2>1, <2>3, <2>5
    <3>3. ASSUME q \in V1Answered PROVE V1Told(q)'
      <4>1. V1Told(q)
        BY <2>1, <3>3 DEF V1Tell
      <4> QED BY <2>3, <2>4, <3>1, <4>1 DEF V1Told, V1AtMostOne
    <3> QED BY <2>1, <2>3, <2>4, <3>1, <3>2, <3>3 DEF V1Tell
  <2>6. CASE q = at.pin
    <3>1. V1On(listener, q, {"read"}) /\ listener = task /\ v1Seen'[q] = v1Data[q]
      BY <2>1, <2>3, <2>6 DEF V1On
    <3>2. ~(V1On(listener, q, {"read"})')
      BY <2>2, <2>6, <3>1 DEF V1On
    <3>3. ASSUME q \in V1Answered PROVE V1Told(q)'
      <4>1. V1Told(q)
        BY <2>1, <3>3 DEF V1Tell
      <4>2. v1At'[listener].msg = -v1Data[q]
        BY <2>2, <2>6, <3>1, <3>3
      <4> QED BY <2>3, <2>4, <3>1, <3>2, <4>1, <4>2 DEF V1Told, V1AtMostOne
    <3> QED BY <2>1, <2>3, <2>4, <3>1, <3>2, <3>3 DEF V1Tell
  <2> QED BY <2>5, <2>6
<1>9. ASSUME NEW pin \in V1Recv, V1Register(pin) PROVE V1Tell(q)'
  BY V1Assumption, <1>9 DEF V1Register, V1Runs, V1Goes, V1Returns, V1Inv, V1TypeOK, V1WiresOK, V1TablesOK, V1HistoryOK, V1IsrOK, V1NoIsr, V1Ats, V1Place, V1Tell, V1Told, V1On, V1AtMostOne, V1Pending, V1Idle, V1Tasks, V1Pins, v1Wires, v1Tables, v1History
<1>10. ASSUME NEW pin \in V1Recv, V1RecvWait(pin) PROVE V1Tell(q)'
  BY V1Assumption, <1>10 DEF V1RecvWait, V1Runs, V1Goes, V1Returns, V1Inv, V1TypeOK, V1WiresOK, V1TablesOK, V1HistoryOK, V1IsrOK, V1NoIsr, V1Ats, V1Place, V1Tell, V1Told, V1On, V1AtMostOne, V1Pending, V1Idle, V1Tasks, V1Pins, v1Wires, v1Tables, v1History
<1>11. ASSUME V1IsrEnter(V1Send) PROVE V1Tell(q)'
  BY V1Assumption, <1>11 DEF V1IsrEnter, V1Runs, V1Goes, V1Returns, V1Inv, V1TypeOK, V1WiresOK, V1TablesOK, V1HistoryOK, V1IsrOK, V1NoIsr, V1Ats, V1Place, V1Tell, V1Told, V1On, V1AtMostOne, V1Pending, V1Idle, V1Tasks, V1Pins, v1Wires, v1Tables, v1History
<1>12. ASSUME V1IsrEnter(V1Recv) PROVE V1Tell(q)'
  BY V1Assumption, <1>12 DEF V1IsrEnter, V1Runs, V1Goes, V1Returns, V1Inv, V1TypeOK, V1WiresOK, V1TablesOK, V1HistoryOK, V1IsrOK, V1NoIsr, V1Ats, V1Place, V1Tell, V1Told, V1On, V1AtMostOne, V1Pending, V1Idle, V1Tasks, V1Pins, v1Wires, v1Tables, v1History
<1>13. ASSUME V1DoAck PROVE V1Tell(q)'
  BY V1Assumption, <1>13, V1NextPin DEF V1DoAck, V1Runs, V1Goes, V1Returns, V1Inv, V1TypeOK, V1WiresOK, V1TablesOK, V1HistoryOK, V1IsrOK, V1NoIsr, V1Ats, V1Place, V1Tell, V1Told, V1On, V1AtMostOne, V1Pending, V1Idle, V1Tasks, V1Pins, v1Wires, v1Tables, v1History
<1>14. ASSUME V1DoRecv PROVE V1Tell(q)'
  BY V1Assumption, <1>14, V1NextPin DEF V1DoRecv, V1Runs, V1Goes, V1Returns, V1Inv, V1TypeOK, V1WiresOK, V1TablesOK, V1HistoryOK, V1IsrOK, V1NoIsr, V1Ats, V1Place, V1Tell, V1Told, V1On, V1AtMostOne, V1Pending, V1Idle, V1Tasks, V1Pins, v1Wires, v1Tables, v1History
<1>15. ASSUME V1IsrClear PROVE V1Tell(q)'
  BY V1Assumption, <1>15 DEF V1IsrClear, V1Runs, V1Goes, V1Returns, V1Inv, V1TypeOK, V1WiresOK, V1TablesOK, V1HistoryOK, V1IsrOK, V1NoIsr, V1Ats, V1Place, V1Tell, V1Told, V1On, V1AtMostOne, V1Pending, V1Idle, V1Tasks, V1Pins, v1Wires, v1Tables, v1History
<1>16. ASSUME NEW pin \in V1Pins, V1FarTakes(pin) PROVE V1Tell(q)'
  BY V1Assumption, <1>16 DEF V1FarTakes, V1Runs, V1Goes, V1Returns, V1Inv, V1TypeOK, V1WiresOK, V1TablesOK, V1HistoryOK, V1IsrOK, V1NoIsr, V1Ats, V1Place, V1Tell, V1Told, V1On, V1AtMostOne, V1Pending, V1Idle, V1Tasks, V1Pins, v1Wires, v1Tables, v1History
<1>17. ASSUME NEW pin \in V1Pins, V1FarAnswers(pin) PROVE V1Tell(q)'
  BY V1Assumption, <1>17 DEF V1FarAnswers, V1Runs, V1Goes, V1Returns, V1Inv, V1TypeOK, V1WiresOK, V1TablesOK, V1HistoryOK, V1IsrOK, V1NoIsr, V1Ats, V1Place, V1Tell, V1Told, V1On, V1AtMostOne, V1Pending, V1Idle, V1Tasks, V1Pins, v1Wires, v1Tables, v1History
<1>18. ASSUME NEW pin \in V1Pins, V1FarSends(pin) PROVE V1Tell(q)'
  BY V1Assumption, <1>18 DEF V1FarSends, V1Runs, V1Goes, V1Returns, V1Inv, V1TypeOK, V1WiresOK, V1TablesOK, V1HistoryOK, V1IsrOK, V1NoIsr, V1Ats, V1Place, V1Tell, V1Told, V1On, V1AtMostOne, V1Pending, V1Idle, V1Tasks, V1Pins, v1Wires, v1Tables, v1History
<1>19. ASSUME NEW pin \in V1Pins, V1FarHears(pin) PROVE V1Tell(q)'
  BY V1Assumption, <1>19 DEF V1FarHears, V1Runs, V1Goes, V1Returns, V1Inv, V1TypeOK, V1WiresOK, V1TablesOK, V1HistoryOK, V1IsrOK, V1NoIsr, V1Ats, V1Place, V1Tell, V1Told, V1On, V1AtMostOne, V1Pending, V1Idle, V1Tasks, V1Pins, v1Wires, v1Tables, v1History
<1> QED BY <1>1, <1>2, <1>3, <1>4, <1>5, <1>6, <1>7, <1>8, <1>9, <1>10, <1>11, <1>12, <1>13, <1>14, <1>15, <1>16, <1>17, <1>18, <1>19 DEF V1Next



LEMMA MinusZero == \A i \in Int : i = 0 => i = -i
<1>1. \A i \in Int : 0 - i = -i
  OBVIOUS
<1>2. \A i \in Int : i = 0 => 0 - i = i
  OBVIOUS
<1> QED BY <1>1, <1>2

LEMMA V1InitOK == V1Init => V1Inv
<1> SUFFICES ASSUME V1Init PROVE V1Inv
  OBVIOUS
<1>a. V1WiresOK /\ V1TablesOK
  BY DEF V1Init, V1WiresOK, V1TablesOK, V1NoIsr, V1Pins
<1>b. V1HistoryOK
  <2>1. <<0, 0>> \in Int \X Int
    OBVIOUS
  <2>2. v1Got \in [V1Send -> Int \X Int]
    BY <2>1 DEF V1Init
  <2> QED BY <2>2 DEF V1Init, V1HistoryOK
<1>c. v1At \in [V1Tasks -> V1Ats]
  BY V1Members DEF V1Init
<1>1. /\ V1TypeOK /\ V1IsrOK
      /\ v1In = {} /\ v1Out = {} /\ v1Ack = {} /\ v1Sema = {} /\ V1Pending = {}
      /\ \A task \in V1Tasks : v1At[task].do = "idle"
  BY <1>a, <1>b, <1>c DEF V1Init, V1TypeOK, V1IsrOK, V1Pending, V1NoIsr, V1Idle
<1>2. \A task \in V1Tasks : V1Place(task)
  BY <1>1 DEF V1Place
<1>3. ASSUME NEW pin \in V1Send PROVE V1Ask(pin)
  <2>1. \A task \in V1Senders : ~V1On(task, pin, {"copy"})
    BY <1>1, V1Members DEF V1On
  <2>2. v1Far[pin] = 0 /\ v1Got[pin] = <<0, 0>>
    BY DEF V1Init, V1Pins
  <2>3. v1Got[pin][2] = -v1Got[pin][1]
    <3>1. v1Got[pin][1] = 0 /\ v1Got[pin][2] = 0
      BY <2>2
    <3>2. 0 \in Int
      OBVIOUS
    <3> QED BY <3>1, <3>2, MinusZero
  <2>4. V1Asked(pin)
    BY <1>1, <2>2 DEF V1Asked, V1AtMostOne
  <2> QED BY <1>1, <2>1, <2>2, <2>3, <2>4 DEF V1Ask
<1>4. ASSUME NEW pin \in V1Recv PROVE V1Tell(pin)
  <2>1. /\ ~V1On(V1Listener[pin], pin, {"read"})
        /\ ~V1On(V1Listener[pin], pin, {"test", "write"})
    BY <1>1, V1Members DEF V1On
  <2>2. v1Due[pin] = 0 /\ v1Seen[pin] = 0 /\ v1Sent[pin] = 0
    BY DEF V1Init, V1Pins
  <2> QED BY <1>1, <2>1, <2>2 DEF V1Tell, V1Told, V1AtMostOne
<1> QED BY <1>1, <1>2, <1>3, <1>4 DEF V1Inv

LEMMA V1Inductive == V1Inv /\ [V1Next]_v1Vars => V1Inv'
<1> SUFFICES ASSUME V1Inv, [V1Next]_v1Vars PROVE V1Inv'
  OBVIOUS
<1>1. CASE V1Next
  <2>1. V1TypeOK' /\ V1IsrOK'
    BY <1>1, V1Typed, V1AtsTyped DEF V1Inv, V1TypeOK
  <2>2. \A task \in V1Tasks : V1Place(task)'
    BY <1>1, V1Placed
  <2>3. \A q \in V1Send : V1Ask(q)'
    BY <1>1, V1AskStep
  <2>4. \A q \in V1Recv : V1Tell(q)'
    BY <1>1, V1TellStep
  <2> QED BY <2>1, <2>2, <2>3, <2>4 DEF V1Inv
<1>2. CASE UNCHANGED v1Vars
  BY <1>2 DEF v1Vars, v1Wires, v1Tables, v1History, V1Inv, V1TypeOK, V1WiresOK, V1TablesOK,
     V1HistoryOK, V1IsrOK, V1Place, V1Ask, V1Asked, V1Tell, V1Told, V1On, V1AtMostOne, V1Pending
<1> QED BY <1>1, <1>2

(* A call returns the answer to its own message, and a message to a        *)
(* registered pin is heard.                                                *)
THEOREM V1DeliversHolds == V1Spec => []V1Delivers
<1>1. V1Inv => V1Delivers
  <2> SUFFICES ASSUME V1Inv PROVE V1Delivers
    OBVIOUS
  <2>1. V1AnswerIsMine
    BY DEF V1Inv, V1Ask, V1AnswerIsMine
  <2>2. ASSUME NEW pin \in V1Recv \ v1In
        PROVE  \/ v1Seen[pin] >= v1Due[pin]
               \/ pin \in v1Sema
               \/ v1At[V1Listener[pin]].do = "read" /\ v1At[V1Listener[pin]].pin = pin
    BY DEF V1Inv, V1Tell, V1On, V1Pending
  <2>3. V1Heard
    BY <2>2 DEF V1Heard
  <2> QED BY <2>1, <2>3 DEF V1Delivers
<1> QED BY <1>1, V1InitOK, V1Inductive, PTL DEF V1Spec

(* A remainder is unique.                                                  *)
LEMMA RemainderUnique ==
  ASSUME NEW B \in Nat \ {0}, NEW x \in Int, NEW q \in Int, NEW r \in 0..(B-1), x = B * q + r
  PROVE  x % B = r
<1> DEFINE p == x \div B
           s == x % B
<1>1. p \in Int /\ s \in 0..(B-1) /\ x = B * p + s
  BY SMT
<1> HIDE DEF p, s
<1>2. ASSUME p < q PROVE FALSE
  <2>1. PICK d \in Nat : q = p + 1 + d
    <3>1. q - p - 1 \in Nat /\ q = p + 1 + (q - p - 1)
      BY <1>1, <1>2
    <3> QED BY <3>1
  <2>2. B * q = B * p + B + B * d
    BY <1>1, <2>1
  <2>3. B * d >= 0 /\ B * p \in Int /\ B * q \in Int /\ B * d \in Int
    BY <1>1
  <2> QED BY <1>1, <2>2, <2>3
<1>3. ASSUME q < p PROVE FALSE
  <2>1. PICK d \in Nat : p = q + 1 + d
    <3>1. p - q - 1 \in Nat /\ p = q + 1 + (p - q - 1)
      BY <1>1, <1>3
    <3> QED BY <3>1
  <2>2. B * p = B * q + B + B * d
    BY <1>1, <2>1
  <2>3. B * d >= 0 /\ B * p \in Int /\ B * q \in Int /\ B * d \in Int
    BY <1>1
  <2> QED BY <1>1, <2>2, <2>3
<1>4. p = q
  BY <1>1, <1>2, <1>3
<1>5. B * p = B * q /\ B * q \in Int
  BY <1>4
<1>6. s = r
  BY <1>1, <1>5
<1> QED BY <1>6 DEF s

(* The remainder of a sum, without a multiple that the divisor goes into.  *)
LEMMA RemainderOfSum ==
  ASSUME NEW B \in Nat \ {0}, NEW a \in Nat, NEW k \in 0..(B-1)
  PROVE  (a + k) % B = IF (a % B) + k < B THEN (a % B) + k ELSE (a % B) + k - B
<1> DEFINE q == a \div B
           r == a % B
<1>1. q \in Int /\ r \in 0..(B-1) /\ a = B * q + r
  BY SMT
<1> HIDE DEF q, r
<1>2. CASE r + k < B
  <2>1. a + k = B * q + (r + k)
    BY <1>1
  <2> QED BY <1>1, <1>2, <2>1, RemainderUnique DEF r
<1>3. CASE ~(r + k < B)
  <2>1. a + k = B * (q + 1) + (r + k - B)
    BY <1>1
  <2>2. r + k - B \in 0..(B-1) /\ q + 1 \in Int /\ a + k \in Int
    BY <1>1, <1>3
  <2>3. (a + k) % B = r + k - B
    BY <2>1, <2>2, RemainderUnique
  <2> QED BY <1>1, <1>3, <2>3 DEF r
<1> QED BY <1>2, <1>3 DEF r
---------------------------------------------------------------------------
(* Gdma: where a transfer reads and writes                                 *)

LEMMA GdmaBlockOK == GdmaBlock \in Nat \ {0} /\ \A a \in Nat : a % GdmaBlock \in 0 .. GdmaBlock - 1
  BY GdmaAssumption

(* A side of a transfer, by how far it reaches from the start of its block. *)
LEMMA GdmaEnd ==
  ASSUME NEW a \in Nat, NEW len \in 1 .. GdmaBlock - 1
  PROVE  LET from == a % GdmaBlock  to == (a + len) % GdmaBlock IN
         /\ Crosses(a, len) <=> from + len > GdmaBlock
         /\ from > to <=> from + len >= GdmaBlock
         /\ to = 0 <=> from + len = GdmaBlock
<1> DEFINE from == a % GdmaBlock
           to == (a + len) % GdmaBlock
<1>1. from \in 0 .. GdmaBlock - 1 /\ GdmaBlock \in Nat \ {0}
  BY GdmaBlockOK
<1>2. to = IF from + len < GdmaBlock THEN from + len ELSE from + len - GdmaBlock
  <2>1. len \in 0 .. GdmaBlock - 1
    BY <1>1
  <2> QED BY <1>1, <2>1, RemainderOfSum
<1>3. Crosses(a, len) <=> to # 0 /\ to <= from
  BY DEF Crosses
<1> HIDE DEF from, to
<1>4. /\ Crosses(a, len) <=> from + len > GdmaBlock
      /\ from > to <=> from + len >= GdmaBlock
      /\ to = 0 <=> from + len = GdmaBlock
  BY <1>1, <1>2, <1>3
<1> QED BY <1>4 DEF from, to

(* A side that jumps, or need not, is where it should be.                  *)
LEMMA GdmaStays ==
  ASSUME NEW a \in Nat, NEW len \in 1 .. GdmaBlock - 1, NEW i \in 0 .. len - 1,
         NEW jumps \in BOOLEAN, jumps \/ (a % GdmaBlock) + len <= GdmaBlock
  PROVE  GdmaAddress(a, i, jumps) = a + i
<1> DEFINE from == a % GdmaBlock
<1>1. from \in 0 .. GdmaBlock - 1 /\ GdmaBlock \in Nat \ {0}
  BY GdmaBlockOK
<1>2. i \in 0 .. GdmaBlock - 1 /\ i \in Nat
  BY <1>1
<1>3. (a + i) % GdmaBlock = IF from + i < GdmaBlock THEN from + i ELSE from + i - GdmaBlock
  BY <1>1, <1>2, RemainderOfSum
<1>4. CASE jumps /\ i >= GdmaBlock - from
  <2>1. i - (GdmaBlock - from) \in 0 .. GdmaBlock - 1
    <3> HIDE DEF from
    <3> QED BY <1>1, <1>2, <1>4
  <2>2. (i - (GdmaBlock - from)) % GdmaBlock = i - (GdmaBlock - from)
    <3> DEFINE x == i - (GdmaBlock - from)
    <3>1. x = GdmaBlock * 0 + x /\ x \in Int
      BY <1>1, <2>1
    <3> HIDE DEF x
    <3> QED BY <1>1, <2>1, <3>1, RemainderUnique DEF x
  <2>3. GdmaAddress(a, i, jumps) = (a - from) + GdmaBlock + (i - (GdmaBlock - from))
    BY <1>4, <2>2 DEF GdmaAddress
  <2> HIDE DEF from
  <2> QED BY <1>1, <1>2, <2>3
<1>5. CASE ~(jumps /\ i >= GdmaBlock - from)
  <2>1. from + i < GdmaBlock
    <3>1. jumps \/ from + len <= GdmaBlock
      OBVIOUS
    <3> HIDE DEF from
    <3> QED BY <1>1, <1>2, <1>5, <3>1
  <2>2. GdmaAddress(a, i, jumps) = (a - from) + (from + i)
    BY <1>3, <1>5, <2>1 DEF GdmaAddress
  <2> HIDE DEF from
  <2> QED BY <1>1, <1>2, <2>2
<1> QED BY <1>4, <1>5

(* A piece that crosses the end of a block on one side at most.            *)
LEMMA GdmaWrapLands ==
  ASSUME NEW conf \in GdmaConfs, conf.jump = "none", conf.len \in 1 .. GdmaBlock - 1,
         ~Crosses(conf.src, conf.len) \/ ~Crosses(conf.dst, conf.len)
  PROVE  GdmaLandsAll(GdmaWrap(conf))
<1> DEFINE w == GdmaWrap(conf)
           src == conf.src
           dst == conf.dst
           len == conf.len
<1>1. src \in Nat /\ dst \in Nat /\ len \in 1 .. GdmaBlock - 1
  BY DEF GdmaConfs
<1>2. /\ w.src = src /\ w.dst = dst /\ w.len = len
      /\ w.jump = "src" <=> src % GdmaBlock > (src + len) % GdmaBlock
      /\ w.jump = "dst" <=> /\ ~(src % GdmaBlock > (src + len) % GdmaBlock)
                            /\ dst % GdmaBlock > (dst + len) % GdmaBlock
  BY DEF GdmaWrap, GdmaConfs
<1> HIDE DEF w
<1>3. GdmaBlock \in Nat \ {0} /\ src % GdmaBlock \in Int /\ dst % GdmaBlock \in Int
  BY <1>1, GdmaBlockOK
<1>4. /\ Crosses(src, len) <=> (src % GdmaBlock) + len > GdmaBlock
      /\ src % GdmaBlock > ((src + len) % GdmaBlock) <=> (src % GdmaBlock) + len >= GdmaBlock
      /\ (src + len) % GdmaBlock = 0 <=> (src % GdmaBlock) + len = GdmaBlock
  BY <1>1, GdmaEnd
<1>5. /\ Crosses(dst, len) <=> (dst % GdmaBlock) + len > GdmaBlock
      /\ dst % GdmaBlock > ((dst + len) % GdmaBlock) <=> (dst % GdmaBlock) + len >= GdmaBlock
  BY <1>1, GdmaEnd
<1> HIDE DEF src, dst, len
<1>6. ASSUME (src + len) % GdmaBlock = 0 /\ Crosses(dst, len) PROVE GdmaLandsAll(w)
  BY <1>2, <1>6 DEF GdmaLandsAll
<1>7. ASSUME ~((src + len) % GdmaBlock = 0 /\ Crosses(dst, len)) PROVE GdmaLandsAll(w)
  <2>1. w.jump = "src" \/ (src % GdmaBlock) + len <= GdmaBlock
    BY <1>1, <1>2, <1>3, <1>4
  <2>2. w.jump = "dst" \/ (dst % GdmaBlock) + len <= GdmaBlock
    <3>1. ~Crosses(src, len) \/ ~Crosses(dst, len)
      BY DEF src, dst, len
    <3>2. CASE (src % GdmaBlock) + len < GdmaBlock
      BY <1>1, <1>2, <1>3, <1>4, <1>5, <3>2
    <3>3. CASE (src % GdmaBlock) + len >= GdmaBlock
      BY <1>1, <1>3, <1>4, <1>5, <1>7, <3>1, <3>3
    <3> QED BY <1>1, <1>3, <3>2, <3>3
  <2>3. ASSUME NEW i \in 0 .. len - 1
        PROVE  /\ GdmaAddress(src, i, w.jump = "src") = src + i
               /\ GdmaAddress(dst, i, w.jump = "dst") = dst + i
    BY <1>1, <2>1, <2>2, GdmaStays
  <2>4. GdmaMoves(w) = {<<src + i, dst + i>> : i \in 0 .. len - 1}
    BY <1>2, <2>3 DEF GdmaMoves
  <2> QED BY <1>2, <2>4 DEF GdmaLandsAll
<1> QED BY <1>6, <1>7 DEF w

(* What is left of a call: a piece that lands, and pieces after it.        *)
LEMMA GdmaLeft ==
  ASSUME NEW ask \in GdmaRequests, NEW left \in GdmaPiecesOf(ask),
         ask.stride => ~Crosses(ask.src, ask.len) \/ ~Crosses(ask.dst, ask.len)
  PROVE  /\ left \in Seq(GdmaConfs) /\ Len(left) > 0
         /\ GdmaWrap(Head(left)) \in GdmaConfs /\ GdmaLandsAll(GdmaWrap(Head(left)))
         /\ Len(left) > 1 => Tail(left) \in GdmaPiecesOf(ask)
<1> DEFINE src == ask.src
           dst == ask.dst
           len == ask.len
           first == GdmaBlock - (src % GdmaBlock)
           Lands(p) == /\ p \in GdmaConfs /\ p.jump = "none" /\ p.len \in 1 .. GdmaBlock - 1
                       /\ ~Crosses(p.src, p.len) \/ ~Crosses(p.dst, p.len)
<1>1. src \in Nat /\ dst \in Nat /\ len \in 1 .. GdmaBlock - 1 /\ GdmaBlock \in Nat \ {0}
  BY GdmaBlockOK DEF GdmaRequests
<1>2. \A p : Lands(p) => GdmaWrap(p) \in GdmaConfs /\ GdmaLandsAll(GdmaWrap(p))
  <2> SUFFICES ASSUME NEW p, Lands(p)
               PROVE  GdmaWrap(p) \in GdmaConfs /\ GdmaLandsAll(GdmaWrap(p))
    OBVIOUS
  <2>1. GdmaWrap(p) \in GdmaConfs
    BY DEF GdmaWrap, GdmaConfs
  <2> QED BY <2>1, GdmaWrapLands
<1>3. CASE ask.stride \/ ~Crosses(src, len) \/ ~Crosses(dst, len)
  <2> DEFINE p == Piece(src, dst, len, "none")
  <2>1. Lands(p)
    BY <1>1, <1>3 DEF Piece, GdmaConfs
  <2>2. GdmaPieces(ask) = <<p>>
    BY <1>3 DEF GdmaPieces
  <2> HIDE DEF p, Lands
  <2>3. Tail(<<p>>) = <<>>
    OBVIOUS
  <2>4. left = <<p>>
    BY <2>2, <2>3 DEF GdmaPiecesOf
  <2>5. p \in GdmaConfs
    BY <2>1 DEF Lands
  <2> QED BY <1>2, <2>1, <2>4, <2>5
<1>4. CASE ~(ask.stride \/ ~Crosses(src, len) \/ ~Crosses(dst, len))
  <2> DEFINE p == Piece(src, dst, first, "none")
             q == Piece(src + first, dst + first, len - first, "none")
  <2>1. src % GdmaBlock \in 0 .. GdmaBlock - 1 /\ (src % GdmaBlock) + len > GdmaBlock
    BY <1>1, <1>4, GdmaEnd, GdmaBlockOK
  <2>2. first \in 1 .. GdmaBlock - 1 /\ len - first \in 1 .. GdmaBlock - 1
    BY <1>1, <2>1
  <2>3. Lands(p)
    <3>1. ~Crosses(src, first)
      <4>1. (src % GdmaBlock) + first = GdmaBlock
        BY <1>1, <2>1
      <4>2. ~((src % GdmaBlock) + first > GdmaBlock)
        BY <1>1, <4>1
      <4> QED BY <1>1, <2>2, <4>2, GdmaEnd
    <3> QED BY <1>1, <2>2, <3>1 DEF Piece, GdmaConfs
  <2>4. Lands(q)
    <3>1. (src + first) % GdmaBlock = 0
      <4>1. (src % GdmaBlock) + first = GdmaBlock
        BY <1>1, <2>1
      <4> QED BY <1>1, <2>2, <4>1, GdmaEnd
    <3>2. src + first \in Nat /\ dst + first \in Nat
      BY <1>1, <2>2
    <3>3. ~(((src + first) % GdmaBlock) + (len - first) > GdmaBlock)
      BY <1>1, <2>2, <3>1
    <3>4. ~Crosses(src + first, len - first)
      BY <2>2, <3>2, <3>3, GdmaEnd
    <3> QED BY <2>2, <3>2, <3>4 DEF Piece, GdmaConfs
  <2>5. GdmaPieces(ask) = <<p, q>>
    BY <1>4 DEF GdmaPieces
  <2> HIDE DEF p, q, Lands
  <2>6. Tail(<<p, q>>) = <<q>> /\ Tail(<<p, q>>) # <<>>
    OBVIOUS
  <2>7. left \in {<<p, q>>, <<q>>} /\ <<q>> \in GdmaPiecesOf(ask)
    BY <2>5, <2>6 DEF GdmaPiecesOf
  <2>8. p \in GdmaConfs /\ q \in GdmaConfs
    BY <2>3, <2>4 DEF Lands
  <2>9. CASE left = <<p, q>>
    BY <1>2, <2>3, <2>6, <2>7, <2>8, <2>9
  <2>10. CASE left = <<q>>
    BY <1>2, <2>4, <2>8, <2>10
  <2> QED BY <2>7, <2>9, <2>10
<1> QED BY <1>3, <1>4
---------------------------------------------------------------------------
(* Gdma: who has a channel, and who is told of its end                     *)

LEMMA MaxIsGreatest ==
  ASSUME NEW S, S \subseteq Int, IsFiniteSet(S), S # {}
  PROVE  Max(S) \in S
<1> DEFINE Negated == {0 - x : x \in S}
<1>1. Negated \subseteq Int /\ Negated # {}
  <2>1. \A x \in S : 0 - x \in Int
    OBVIOUS
  <2> QED BY <2>1
<1>2. IsFiniteSet(Negated)
  <2> DEFINE f == [x \in S |-> 0 - x]
  <2>1. f \in Surjection(S, Negated)
    BY DEF Surjection
  <2> QED BY <2>1, FS_Surjection
<1>3. PICK n \in Negated : \A m \in Negated : n <= m
  BY <1>1, <1>2, LeastOfFinite
<1>4. PICK x \in S : n = 0 - x
  BY <1>3
<1>5. ASSUME NEW y \in S
      PROVE  x >= y
  <2>1. 0 - x <= 0 - y
    BY <1>3, <1>4
  <2> QED BY <2>1
<1> QED BY <1>4, <1>5 DEF Max

(* A call, or a piece of it, ends: its task has no channel any more.       *)
LEMMA GdmaEnded ==
  ASSUME GdmaTypeOK, NEW task \in GdmaTasks, NEW done \in BOOLEAN, GdmaStridesStay,
         gdmaAt[task].do # "idle", GdmaCalls(task), GdmaEnds(task, done)
  PROVE  /\ gdmaAt' \in [GdmaTasks -> GdmaAts]
         /\ \A other \in GdmaTasks : other # task => gdmaAt'[other] = gdmaAt[other]
         /\ gdmaAt'[task].do \in {"idle", "request"} /\ gdmaAt'[task].channel = GdmaAny
         /\ GdmaCalls(task)'
<1> DEFINE at == gdmaAt[task]
           rest == [at EXCEPT !.do = "request", !.channel = GdmaAny, !.left = Tail(@),
                              !.refused = at.refused \/ ~done]
<1>1. at \in GdmaAts /\ at.ask \in GdmaAsks[task] /\ at.left \in GdmaPiecesOf(at.ask)
      /\ at.ask \in GdmaRequests
  BY GdmaAssumption DEF GdmaTypeOK, GdmaCalls
<1>2. Len(at.left) > 1 => Tail(at.left) \in GdmaPiecesOf(at.ask) /\ Tail(at.left) \in Seq(GdmaConfs)
  BY <1>1, GdmaLeft DEF GdmaStridesStay
<1>3. GdmaIdle \in GdmaAts
  BY DEF GdmaIdle, GdmaAts, GdmaSteps
<1>4. CASE Len(at.left) > 1
  <2>1. gdmaAt' = [gdmaAt EXCEPT ![task] = rest]
    BY <1>4 DEF GdmaEnds
  <2>2. rest \in GdmaAts
    BY <1>1, <1>2, <1>4 DEF GdmaAts, GdmaSteps
  <2>3. rest.do = "request" /\ rest.channel = GdmaAny /\ rest.ask = at.ask /\ rest.left = Tail(at.left)
    BY <1>1 DEF GdmaAts
  <2> HIDE DEF rest
  <2>4. gdmaAt'[task] = rest
    BY <2>1 DEF GdmaTypeOK
  <2> QED BY <1>1, <1>2, <1>4, <2>1, <2>2, <2>3, <2>4 DEF GdmaTypeOK, GdmaCalls
<1>5. CASE ~(Len(at.left) > 1)
  <2>1. gdmaAt' = [gdmaAt EXCEPT ![task] = GdmaIdle]
    BY <1>5 DEF GdmaEnds
  <2>2. gdmaAt'[task] = GdmaIdle /\ GdmaIdle.do = "idle" /\ GdmaIdle.channel = GdmaAny
    BY <2>1 DEF GdmaTypeOK, GdmaIdle
  <2> QED BY <1>3, <2>1, <2>2 DEF GdmaTypeOK, GdmaCalls
<1> QED BY <1>4, <1>5

(* The hardware ends a transfer.                                          *)
LEMMA GdmaFinishKeeps ==
  ASSUME GdmaInv, GdmaStridesStay, NEW c \in GdmaChannels, GdmaFinishes(c)
  PROVE  GdmaInv'
<1>1. /\ c \in gdmaRunning /\ gdmaRunning' = gdmaRunning \ {c}
      /\ gdmaIrq' = IF gdmaChannel[c].iten THEN gdmaIrq \cup {c} ELSE gdmaIrq
      /\ UNCHANGED <<gdmaChannel, gdmaNotified, gdmaAt, gdmaLate, gdmaEarly, gdmaStuck>>
  BY DEF GdmaFinishes, gdmaHistory
<1>2. (GdmaTypeOK)'
  BY <1>1, GdmaAssumption DEF GdmaInv, GdmaTypeOK, GdmaEntries, GdmaAts
<1>3. (\A ch \in GdmaChannels : GdmaInUse(ch))'
  BY <1>1, GdmaAssumption DEF GdmaInv, GdmaTypeOK, GdmaEntries, GdmaAts, GdmaInUse
<1>4. (\A other \in GdmaTasks : GdmaCalls(other))'
  BY <1>1, GdmaAssumption DEF GdmaInv, GdmaTypeOK, GdmaEntries, GdmaAts, GdmaCalls
<1>5. (GdmaOwned)'
  BY <1>1, GdmaAssumption DEF GdmaInv, GdmaTypeOK, GdmaEntries, GdmaAts, GdmaOwned, GdmaInUse
<1>6. (GdmaLands)'
  BY <1>1, GdmaAssumption DEF GdmaInv, GdmaTypeOK, GdmaEntries, GdmaAts, GdmaLands, GdmaInUse
<1>7. (GdmaDone)'
  BY <1>1, GdmaAssumption DEF GdmaInv, GdmaTypeOK, GdmaEntries, GdmaAts, GdmaDone, GdmaInUse, GdmaNotifies, GdmaAwaits
<1>8. (\A other \in GdmaTasks \ gdmaLate : GdmaNotifies(other))'
  BY <1>1, GdmaAssumption DEF GdmaInv, GdmaTypeOK, GdmaEntries, GdmaAts, GdmaNotifies, GdmaWaits, GdmaAwaits, GdmaOwned, GdmaInUse, GdmaCalls
<1>9. (\A other \in GdmaTasks : GdmaAwaits(other))'
  BY <1>1, GdmaAssumption DEF GdmaInv, GdmaTypeOK, GdmaEntries, GdmaAts, GdmaAwaits, GdmaOwned, GdmaInUse, GdmaCalls
<1>10. (\A ch \in GdmaChannels \ gdmaStuck : gdmaChannel[ch].inUse => GdmaGoesOn(ch))'
  BY <1>1, GdmaAssumption DEF GdmaInv, GdmaTypeOK, GdmaEntries, GdmaAts, GdmaGoesOn, GdmaInUse, GdmaOwned, GdmaCalls
<1> QED BY <1>2, <1>3, <1>4, <1>5, <1>6, <1>7, <1>8, <1>9, <1>10 DEF GdmaInv

(* The interrupt frees the channel, and tells who waits.                  *)
LEMMA GdmaIrqKeeps ==
  ASSUME GdmaInv, GdmaStridesStay, NEW c \in GdmaChannels, GdmaIrqHandler(c)
  PROVE  GdmaInv'
<1>1. /\ c \in gdmaIrq /\ gdmaIrq' = gdmaIrq \ {c} /\ gdmaRunning' = gdmaRunning \ {c}
      /\ gdmaNotified' = IF gdmaChannel[c].sync THEN gdmaNotified \cup {gdmaChannel[c].task}
                         ELSE gdmaNotified
      /\ UNCHANGED <<gdmaAt, gdmaLate, gdmaEarly, gdmaStuck>>
  BY DEF GdmaIrqHandler, gdmaHistory
<1>2. /\ gdmaChannel' \in [GdmaChannels -> GdmaEntries]
      /\ \A d \in GdmaChannels : d # c => gdmaChannel'[d] = gdmaChannel[d]
      /\ ~gdmaChannel'[c].inUse /\ gdmaChannel'[c].task = GdmaNobody
  BY DEF GdmaIrqHandler, GdmaFreed, GdmaInv, GdmaTypeOK, GdmaEntries
<1>3. (GdmaTypeOK)'
  BY <1>1, <1>2, GdmaAssumption DEF GdmaInv, GdmaTypeOK, GdmaEntries, GdmaAts
<1>4. (\A ch \in GdmaChannels : GdmaInUse(ch))'
  BY <1>1, <1>2, GdmaAssumption DEF GdmaInv, GdmaTypeOK, GdmaEntries, GdmaAts, GdmaInUse
<1>5. (\A other \in GdmaTasks : GdmaCalls(other))'
  BY <1>1, <1>2, GdmaAssumption DEF GdmaInv, GdmaTypeOK, GdmaEntries, GdmaAts, GdmaCalls
<1>6. (GdmaOwned)'
  <2>1. \A task \in GdmaTasks : gdmaAt[task].do \in {"reset", "start"} =>
          /\ gdmaAt[task].channel \in GdmaChannels /\ gdmaAt[task].channel # c
          /\ gdmaChannel[gdmaAt[task].channel].inUse
          /\ gdmaChannel[gdmaAt[task].channel].task = task
          /\ gdmaAt[task].channel \notin gdmaRunning \cup gdmaIrq
    <3>1. \A task \in GdmaTasks : gdmaAt[task].do \in {"reset", "start"} =>
             gdmaAt[task].channel \in GdmaChannels
      BY DEF GdmaInv, GdmaTypeOK, GdmaCalls, GdmaAts
    <3> QED BY <1>1, <3>1 DEF GdmaInv, GdmaOwned
  <2> QED BY <1>1, <1>2, <2>1 DEF GdmaOwned
<1>7. (GdmaLands)'
  BY <1>1, <1>2, GdmaAssumption DEF GdmaInv, GdmaTypeOK, GdmaEntries, GdmaAts, GdmaLands, GdmaInUse
<1>8. (GdmaDone)'
  BY <1>1, <1>2, GdmaAssumption DEF GdmaInv, GdmaTypeOK, GdmaEntries, GdmaAts, GdmaDone, GdmaInUse, GdmaNotifies, GdmaAwaits
<1>9. (\A other \in GdmaTasks \ gdmaLate : GdmaNotifies(other))'
  BY <1>1, <1>2, GdmaAssumption DEF GdmaInv, GdmaTypeOK, GdmaEntries, GdmaAts, GdmaNotifies, GdmaWaits, GdmaAwaits, GdmaOwned, GdmaInUse, GdmaCalls
<1>10. (\A other \in GdmaTasks : GdmaAwaits(other))'
  <2>1. \A task \in GdmaTasks : gdmaAt[task].do = "await" => gdmaAt[task].channel \in GdmaChannels
    BY DEF GdmaInv, GdmaTypeOK, GdmaCalls, GdmaAts
  <2>2. \A task \in GdmaTasks : GdmaAwaits(task) /\ task # GdmaNobody
    BY GdmaAssumption DEF GdmaInv
  <2> QED BY <1>1, <1>2, <2>1, <2>2 DEF GdmaAwaits
<1>11. (\A ch \in GdmaChannels \ gdmaStuck : gdmaChannel[ch].inUse => GdmaGoesOn(ch))'
  BY <1>1, <1>2, GdmaAssumption DEF GdmaInv, GdmaTypeOK, GdmaEntries, GdmaAts, GdmaGoesOn, GdmaInUse, GdmaOwned, GdmaCalls
<1> QED BY <1>3, <1>4, <1>5, <1>6, <1>7, <1>8, <1>9, <1>10, <1>11 DEF GdmaInv

(* A call begins.                                                          *)
LEMMA GdmaTransactionKeeps ==
  ASSUME GdmaInv, GdmaStridesStay, NEW task \in GdmaTasks, NEW ask \in GdmaAsks[task], GdmaTransaction(task, ask)
  PROVE  GdmaInv'
<1>1. /\ gdmaAt[task] = GdmaIdle
      /\ UNCHANGED <<gdmaChannel, gdmaRunning, gdmaIrq, gdmaNotified, gdmaLate, gdmaEarly, gdmaStuck>>
  BY DEF GdmaTransaction, gdmaHistory
<1>2. /\ gdmaAt' \in [GdmaTasks -> GdmaAts]
      /\ \A other \in GdmaTasks : other # task => gdmaAt'[other] = gdmaAt[other]
      /\ gdmaAt'[task].do = "request" /\ gdmaAt'[task].channel = GdmaAny
      /\ GdmaCalls(task)' /\ gdmaAt[task].do = "idle"
  <2> DEFINE new == [GdmaIdle EXCEPT !.do = "request", !.ask = ask, !.left = GdmaPieces(ask)]
  <2>1. ask \in GdmaRequests /\ GdmaPieces(ask) \in GdmaPiecesOf(ask) /\ GdmaPieces(ask) \in Seq(GdmaConfs)
    <3>1. ask \in GdmaRequests
      BY GdmaAssumption
    <3>2. GdmaPieces(ask) # <<>>
      BY DEF GdmaPieces
    <3>3. GdmaPieces(ask) \in GdmaPiecesOf(ask)
      BY <3>2 DEF GdmaPiecesOf
    <3> QED BY <3>1, <3>3, GdmaLeft DEF GdmaStridesStay
  <2>2. new \in GdmaAts
    BY <2>1 DEF GdmaIdle, GdmaAts, GdmaSteps
  <2>3. new.do = "request" /\ new.channel = GdmaAny /\ new.ask = ask /\ new.left = GdmaPieces(ask)
    BY DEF GdmaIdle
  <2>4. gdmaAt' = [gdmaAt EXCEPT ![task] = new]
    BY DEF GdmaTransaction
  <2> HIDE DEF new
  <2>5. gdmaAt'[task] = new
    BY <2>4 DEF GdmaInv, GdmaTypeOK
  <2>6. gdmaAt[task].do = "idle"
    BY <1>1 DEF GdmaIdle
  <2> QED BY <2>1, <2>2, <2>3, <2>4, <2>5, <2>6 DEF GdmaInv, GdmaTypeOK, GdmaCalls
<1>3. (GdmaTypeOK)'
  BY <1>1, <1>2, GdmaAssumption DEF GdmaInv, GdmaTypeOK, GdmaEntries, GdmaAts
<1>4. (\A c \in GdmaChannels : GdmaInUse(c))'
  BY <1>1, <1>2, GdmaAssumption DEF GdmaInv, GdmaTypeOK, GdmaEntries, GdmaAts, GdmaInUse
<1>5. (\A other \in GdmaTasks : GdmaCalls(other))'
  BY <1>1, <1>2, GdmaAssumption DEF GdmaInv, GdmaTypeOK, GdmaEntries, GdmaAts, GdmaCalls
<1>6. (GdmaOwned)'
  BY <1>1, <1>2, GdmaAssumption DEF GdmaInv, GdmaTypeOK, GdmaEntries, GdmaAts, GdmaOwned, GdmaInUse
<1>7. (GdmaLands)'
  BY <1>1, <1>2, GdmaAssumption DEF GdmaInv, GdmaTypeOK, GdmaEntries, GdmaAts, GdmaLands, GdmaInUse
<1>8. (GdmaDone)'
  BY <1>1, <1>2, GdmaAssumption DEF GdmaInv, GdmaTypeOK, GdmaEntries, GdmaAts, GdmaDone, GdmaInUse, GdmaNotifies, GdmaAwaits
<1>9. (\A other \in GdmaTasks \ gdmaLate : GdmaNotifies(other))'
  <2>1. ASSUME NEW other \in GdmaTasks \ gdmaLate PROVE GdmaNotifies(other)'
    <3>1. CASE other = task
      BY <1>1, <1>2, <2>1, <3>1 DEF GdmaInv, GdmaNotifies, GdmaWaits
    <3>2. CASE other # task
      BY <1>1, <1>2, <2>1, <3>2 DEF GdmaInv, GdmaNotifies, GdmaWaits
    <3> QED BY <3>1, <3>2
  <2> QED BY <1>1, <2>1
<1>10. (\A other \in GdmaTasks : GdmaAwaits(other))'
  BY <1>1, <1>2, GdmaAssumption DEF GdmaInv, GdmaTypeOK, GdmaEntries, GdmaAts, GdmaAwaits, GdmaOwned, GdmaInUse, GdmaCalls
<1>11. (\A c \in GdmaChannels \ gdmaStuck : gdmaChannel[c].inUse => GdmaGoesOn(c))'
  BY <1>1, <1>2, GdmaAssumption DEF GdmaInv, GdmaTypeOK, GdmaEntries, GdmaAts, GdmaGoesOn, GdmaInUse, GdmaOwned, GdmaCalls
<1> QED BY <1>3, <1>4, <1>5, <1>6, <1>7, <1>8, <1>9, <1>10, <1>11 DEF GdmaInv

(* A wait is given up.                                                     *)
LEMMA GdmaGiveUpKeeps ==
  ASSUME GdmaInv, GdmaStridesStay, NEW task \in GdmaTasks, GdmaGivesUp(task)
  PROVE  GdmaInv'
<1>1. /\ gdmaAt[task].do = "await" /\ task \notin gdmaNotified /\ gdmaLate' = gdmaLate \cup {task}
      /\ GdmaEnds(task, TRUE)
      /\ UNCHANGED <<gdmaChannel, gdmaRunning, gdmaIrq, gdmaNotified, gdmaEarly, gdmaStuck>>
  BY DEF GdmaGivesUp
<1>2. /\ gdmaAt' \in [GdmaTasks -> GdmaAts]
      /\ \A other \in GdmaTasks : other # task => gdmaAt'[other] = gdmaAt[other]
      /\ gdmaAt'[task].do \in {"idle", "request"} /\ gdmaAt'[task].channel = GdmaAny
      /\ GdmaCalls(task)'
  BY <1>1, GdmaEnded DEF GdmaInv
<1>3. (GdmaTypeOK)'
  BY <1>1, <1>2, GdmaAssumption DEF GdmaInv, GdmaTypeOK, GdmaEntries, GdmaAts
<1>4. (\A c \in GdmaChannels : GdmaInUse(c))'
  BY <1>1, <1>2, GdmaAssumption DEF GdmaInv, GdmaTypeOK, GdmaEntries, GdmaAts, GdmaInUse
<1>5. (\A other \in GdmaTasks : GdmaCalls(other))'
  BY <1>1, <1>2, GdmaAssumption DEF GdmaInv, GdmaTypeOK, GdmaEntries, GdmaAts, GdmaCalls
<1>6. (GdmaOwned)'
  BY <1>1, <1>2, GdmaAssumption DEF GdmaInv, GdmaTypeOK, GdmaEntries, GdmaAts, GdmaOwned, GdmaInUse
<1>7. (GdmaLands)'
  BY <1>1, <1>2, GdmaAssumption DEF GdmaInv, GdmaTypeOK, GdmaEntries, GdmaAts, GdmaLands, GdmaInUse
<1>8. (GdmaDone)'
  BY <1>1, <1>2, GdmaAssumption DEF GdmaInv, GdmaTypeOK, GdmaEntries, GdmaAts, GdmaDone, GdmaInUse, GdmaNotifies, GdmaAwaits
<1>9. (\A other \in GdmaTasks \ gdmaLate : GdmaNotifies(other))'
  BY <1>1, <1>2, GdmaAssumption DEF GdmaInv, GdmaTypeOK, GdmaEntries, GdmaAts, GdmaNotifies, GdmaWaits, GdmaAwaits, GdmaOwned, GdmaInUse, GdmaCalls
<1>10. (\A other \in GdmaTasks : GdmaAwaits(other))'
  BY <1>1, <1>2, GdmaAssumption DEF GdmaInv, GdmaTypeOK, GdmaEntries, GdmaAts, GdmaAwaits, GdmaOwned, GdmaInUse, GdmaCalls
<1>11. (\A c \in GdmaChannels \ gdmaStuck : gdmaChannel[c].inUse => GdmaGoesOn(c))'
  <2>1. ASSUME NEW c \in GdmaChannels \ gdmaStuck, gdmaChannel[c].inUse PROVE GdmaGoesOn(c)'
    <3>1. GdmaGoesOn(c)
      BY <2>1 DEF GdmaInv
    <3>2. CASE c \in gdmaIrq \/ (c \in gdmaRunning /\ gdmaChannel[c].iten)
      BY <1>1, <3>2 DEF GdmaGoesOn
    <3>3. CASE \E other \in GdmaTasks : gdmaAt[other].channel = c /\ gdmaAt[other].do \in {"reset", "start"}
      <4>1. PICK other \in GdmaTasks : gdmaAt[other].channel = c /\ gdmaAt[other].do \in {"reset", "start"}
        BY <3>3
      <4>2. other # task
        BY <1>1, <4>1
      <4> QED BY <1>2, <4>1, <4>2 DEF GdmaGoesOn
    <3> QED BY <3>1, <3>2, <3>3 DEF GdmaGoesOn
  <2> QED BY <1>1, <2>1
<1> QED BY <1>3, <1>4, <1>5, <1>6, <1>7, <1>8, <1>9, <1>10, <1>11 DEF GdmaInv

(* A wait ends.                                                            *)
LEMMA GdmaWokenKeeps ==
  ASSUME GdmaInv, GdmaStridesStay, NEW task \in GdmaTasks, GdmaWoken(task)
  PROVE  GdmaInv'
<1>1. /\ gdmaAt[task].do = "await" /\ task \in gdmaNotified /\ gdmaNotified' = gdmaNotified \ {task}
      /\ gdmaEarly' = IF gdmaAt[task].channel \in gdmaRunning
                          /\ gdmaChannel[gdmaAt[task].channel].task = task
                      THEN gdmaEarly \cup {task} ELSE gdmaEarly
      /\ GdmaEnds(task, TRUE)
      /\ UNCHANGED <<gdmaChannel, gdmaRunning, gdmaIrq, gdmaLate, gdmaStuck>>
  BY DEF GdmaWoken
<1>2. /\ gdmaAt' \in [GdmaTasks -> GdmaAts]
      /\ \A other \in GdmaTasks : other # task => gdmaAt'[other] = gdmaAt[other]
      /\ gdmaAt'[task].do \in {"idle", "request"} /\ gdmaAt'[task].channel = GdmaAny
      /\ GdmaCalls(task)'
  BY <1>1, GdmaEnded DEF GdmaInv
<1>3. (GdmaTypeOK)'
  BY <1>1, <1>2, GdmaAssumption DEF GdmaInv, GdmaTypeOK, GdmaEntries, GdmaAts
<1>4. (\A c \in GdmaChannels : GdmaInUse(c))'
  BY <1>1, <1>2, GdmaAssumption DEF GdmaInv, GdmaTypeOK, GdmaEntries, GdmaAts, GdmaInUse
<1>5. (\A other \in GdmaTasks : GdmaCalls(other))'
  BY <1>1, <1>2, GdmaAssumption DEF GdmaInv, GdmaTypeOK, GdmaEntries, GdmaAts, GdmaCalls
<1>6. (GdmaOwned)'
  BY <1>1, <1>2, GdmaAssumption DEF GdmaInv, GdmaTypeOK, GdmaEntries, GdmaAts, GdmaOwned, GdmaInUse
<1>7. (GdmaLands)'
  BY <1>1, <1>2, GdmaAssumption DEF GdmaInv, GdmaTypeOK, GdmaEntries, GdmaAts, GdmaLands, GdmaInUse
<1>8. (GdmaDone)'
  BY <1>1, <1>2, GdmaAssumption DEF GdmaInv, GdmaTypeOK, GdmaEntries, GdmaAts, GdmaDone, GdmaInUse, GdmaNotifies, GdmaAwaits
<1>9. (\A other \in GdmaTasks \ gdmaLate : GdmaNotifies(other))'
  BY <1>1, <1>2, GdmaAssumption DEF GdmaInv, GdmaTypeOK, GdmaEntries, GdmaAts, GdmaNotifies, GdmaWaits, GdmaAwaits, GdmaOwned, GdmaInUse, GdmaCalls
<1>10. (\A other \in GdmaTasks : GdmaAwaits(other))'
  BY <1>1, <1>2, GdmaAssumption DEF GdmaInv, GdmaTypeOK, GdmaEntries, GdmaAts, GdmaAwaits, GdmaOwned, GdmaInUse, GdmaCalls
<1>11. (\A c \in GdmaChannels \ gdmaStuck : gdmaChannel[c].inUse => GdmaGoesOn(c))'
  <2>1. ASSUME NEW c \in GdmaChannels \ gdmaStuck, gdmaChannel[c].inUse PROVE GdmaGoesOn(c)'
    <3>1. GdmaGoesOn(c)
      BY <2>1 DEF GdmaInv
    <3>2. CASE c \in gdmaIrq \/ (c \in gdmaRunning /\ gdmaChannel[c].iten)
      BY <1>1, <3>2 DEF GdmaGoesOn
    <3>3. CASE \E other \in GdmaTasks : gdmaAt[other].channel = c /\ gdmaAt[other].do \in {"reset", "start"}
      <4>1. PICK other \in GdmaTasks : gdmaAt[other].channel = c /\ gdmaAt[other].do \in {"reset", "start"}
        BY <3>3
      <4>2. other # task
        BY <1>1, <4>1
      <4> QED BY <1>2, <4>1, <4>2 DEF GdmaGoesOn
    <3> QED BY <3>1, <3>2, <3>3 DEF GdmaGoesOn
  <2> QED BY <1>1, <2>1
<1> QED BY <1>3, <1>4, <1>5, <1>6, <1>7, <1>8, <1>9, <1>10, <1>11 DEF GdmaInv

(* A call finds no channel.                                                *)
LEMMA GdmaRefuseKeeps ==
  ASSUME GdmaInv, GdmaStridesStay, NEW task \in GdmaTasks, gdmaAt[task].do = "request", GdmaEnds(task, FALSE),
         UNCHANGED <<gdmaChannel, gdmaRunning, gdmaIrq, gdmaNotified, gdmaLate, gdmaEarly, gdmaStuck>>
  PROVE  GdmaInv'
<1>1. gdmaAt[task].do = "request"
  OBVIOUS
<1>2. /\ gdmaAt' \in [GdmaTasks -> GdmaAts]
      /\ \A other \in GdmaTasks : other # task => gdmaAt'[other] = gdmaAt[other]
      /\ gdmaAt'[task].do \in {"idle", "request"} /\ gdmaAt'[task].channel = GdmaAny
      /\ GdmaCalls(task)'
  BY <1>1, GdmaEnded DEF GdmaInv
<1>3. (GdmaTypeOK)'
  BY <1>1, <1>2, GdmaAssumption DEF GdmaInv, GdmaTypeOK, GdmaEntries, GdmaAts
<1>4. (\A c \in GdmaChannels : GdmaInUse(c))'
  BY <1>1, <1>2, GdmaAssumption DEF GdmaInv, GdmaTypeOK, GdmaEntries, GdmaAts, GdmaInUse
<1>5. (\A other \in GdmaTasks : GdmaCalls(other))'
  BY <1>1, <1>2, GdmaAssumption DEF GdmaInv, GdmaTypeOK, GdmaEntries, GdmaAts, GdmaCalls
<1>6. (GdmaOwned)'
  BY <1>1, <1>2, GdmaAssumption DEF GdmaInv, GdmaTypeOK, GdmaEntries, GdmaAts, GdmaOwned, GdmaInUse
<1>7. (GdmaLands)'
  BY <1>1, <1>2, GdmaAssumption DEF GdmaInv, GdmaTypeOK, GdmaEntries, GdmaAts, GdmaLands, GdmaInUse
<1>8. (GdmaDone)'
  BY <1>1, <1>2, GdmaAssumption DEF GdmaInv, GdmaTypeOK, GdmaEntries, GdmaAts, GdmaDone, GdmaInUse, GdmaNotifies, GdmaAwaits
<1>9. (\A other \in GdmaTasks \ gdmaLate : GdmaNotifies(other))'
  <2>1. ASSUME NEW other \in GdmaTasks \ gdmaLate PROVE GdmaNotifies(other)'
    <3>1. GdmaNotifies(other)
      BY <2>1 DEF GdmaInv
    <3>2. CASE other = task
      <4>1. \A c \in GdmaChannels : ~(gdmaChannel[c].task = task /\ gdmaChannel[c].sync)
        BY <1>1, <3>1, <3>2 DEF GdmaNotifies, GdmaWaits
      <4> QED BY <1>1, <3>1, <3>2, <4>1 DEF GdmaNotifies, GdmaWaits
    <3>3. CASE other # task
      BY <1>1, <1>2, <3>1, <3>3 DEF GdmaNotifies, GdmaWaits
    <3> QED BY <3>2, <3>3
  <2> QED BY <2>1
<1>10. (\A other \in GdmaTasks : GdmaAwaits(other))'
  BY <1>1, <1>2, GdmaAssumption DEF GdmaInv, GdmaTypeOK, GdmaEntries, GdmaAts, GdmaAwaits, GdmaOwned, GdmaInUse, GdmaCalls
<1>11. (\A c \in GdmaChannels \ gdmaStuck : gdmaChannel[c].inUse => GdmaGoesOn(c))'
  <2>1. ASSUME NEW c \in GdmaChannels \ gdmaStuck, gdmaChannel[c].inUse PROVE GdmaGoesOn(c)'
    <3>1. GdmaGoesOn(c)
      BY <2>1 DEF GdmaInv
    <3>2. CASE c \in gdmaIrq \/ (c \in gdmaRunning /\ gdmaChannel[c].iten)
      BY <1>1, <3>2 DEF GdmaGoesOn
    <3>3. CASE \E other \in GdmaTasks : gdmaAt[other].channel = c /\ gdmaAt[other].do \in {"reset", "start"}
      <4>1. PICK other \in GdmaTasks : gdmaAt[other].channel = c /\ gdmaAt[other].do \in {"reset", "start"}
        BY <3>3
      <4>2. other # task
        BY <1>1, <4>1
      <4> QED BY <1>2, <4>1, <4>2 DEF GdmaGoesOn
    <3> QED BY <3>1, <3>2, <3>3 DEF GdmaGoesOn
  <2> QED BY <1>1, <2>1
<1> QED BY <1>3, <1>4, <1>5, <1>6, <1>7, <1>8, <1>9, <1>10, <1>11 DEF GdmaInv

(* A call takes a channel.                                                 *)
LEMMA GdmaTakeKeeps ==
  ASSUME GdmaInv, GdmaStridesStay, NEW task \in GdmaTasks, NEW c \in GdmaChannels, NEW step \in {"reset", "start"},
         gdmaAt[task].do = "request", ~gdmaChannel[c].inUse,
         gdmaChannel' = [gdmaChannel EXCEPT ![c].inUse = TRUE, ![c].task = task],
         gdmaAt' = [gdmaAt EXCEPT ![task].do = step, ![task].channel = c],
         UNCHANGED <<gdmaRunning, gdmaIrq, gdmaNotified, gdmaLate, gdmaEarly, gdmaStuck>>
  PROVE  GdmaInv'
<1>1. /\ gdmaChannel' \in [GdmaChannels -> GdmaEntries]
      /\ \A d \in GdmaChannels : d # c => gdmaChannel'[d] = gdmaChannel[d]
      /\ gdmaChannel'[c].inUse /\ gdmaChannel'[c].task = task
      /\ gdmaAt[task].do = "request" /\ gdmaAt[task].channel = GdmaAny /\ ~gdmaChannel[c].inUse
      /\ UNCHANGED <<gdmaNotified, gdmaLate>>
  BY DEF GdmaInv, GdmaTypeOK, GdmaCalls, GdmaEntries
<1>2. /\ gdmaAt' \in [GdmaTasks -> GdmaAts]
      /\ \A other \in GdmaTasks : other # task => gdmaAt'[other] = gdmaAt[other]
      /\ gdmaAt'[task].do = step /\ gdmaAt'[task].channel = c
      /\ GdmaCalls(task)'
  BY GdmaAssumption DEF GdmaInv, GdmaTypeOK, GdmaCalls, GdmaAts, GdmaSteps
<1>3. (GdmaTypeOK)'
  BY <1>1, <1>2, GdmaAssumption DEF GdmaInv, GdmaTypeOK, GdmaEntries, GdmaAts
<1>4. (\A ch \in GdmaChannels : GdmaInUse(ch))'
  BY <1>1, <1>2, GdmaAssumption DEF GdmaInv, GdmaTypeOK, GdmaEntries, GdmaAts, GdmaInUse
<1>5. (\A other \in GdmaTasks : GdmaCalls(other))'
  BY <1>1, <1>2, GdmaAssumption DEF GdmaInv, GdmaTypeOK, GdmaEntries, GdmaAts, GdmaCalls
<1>6. (GdmaOwned)'
  BY <1>1, <1>2, GdmaAssumption DEF GdmaInv, GdmaTypeOK, GdmaEntries, GdmaAts, GdmaOwned, GdmaInUse
<1>7. (GdmaLands)'
  BY <1>1, <1>2, GdmaAssumption DEF GdmaInv, GdmaTypeOK, GdmaEntries, GdmaAts, GdmaLands, GdmaInUse
<1>8. (GdmaDone)'
  BY <1>1, <1>2, GdmaAssumption DEF GdmaInv, GdmaTypeOK, GdmaEntries, GdmaAts, GdmaDone, GdmaInUse, GdmaNotifies, GdmaAwaits
<1>9. (\A other \in GdmaTasks \ gdmaLate : GdmaNotifies(other))'
  <2>1. ASSUME NEW other \in GdmaTasks \ gdmaLate PROVE GdmaNotifies(other)'
    <3>1. GdmaNotifies(other)
      BY <2>1 DEF GdmaInv
    <3>2. CASE other = task
      BY <1>1, <1>2, <3>1, <3>2 DEF GdmaNotifies, GdmaWaits
    <3>3. CASE other # task
      BY <1>1, <1>2, <3>1, <3>3 DEF GdmaNotifies, GdmaWaits
    <3> QED BY <3>2, <3>3
  <2> QED BY <2>1
<1>10. (\A other \in GdmaTasks : GdmaAwaits(other))'
  BY <1>1, <1>2, GdmaAssumption DEF GdmaInv, GdmaTypeOK, GdmaEntries, GdmaAts, GdmaAwaits, GdmaOwned, GdmaInUse, GdmaCalls
<1>11. (\A ch \in GdmaChannels \ gdmaStuck : gdmaChannel[ch].inUse => GdmaGoesOn(ch))'
  <2>1. ASSUME NEW d \in GdmaChannels \ gdmaStuck, gdmaChannel'[d].inUse PROVE GdmaGoesOn(d)'
    <3>1. CASE d = c
      BY <1>1, <1>2, <3>1 DEF GdmaGoesOn
    <3>2. CASE d # c
      <4>1. GdmaGoesOn(d)
        BY <1>1, <1>2, <2>1, <3>2 DEF GdmaInv
      <4>2. CASE d \in gdmaIrq \/ (d \in gdmaRunning /\ gdmaChannel[d].iten)
        BY <1>1, <1>2, <3>2, <4>2 DEF GdmaGoesOn
      <4>3. CASE \E other \in GdmaTasks : gdmaAt[other].channel = d /\ gdmaAt[other].do \in {"reset", "start"}
        <5>1. PICK other \in GdmaTasks : gdmaAt[other].channel = d /\ gdmaAt[other].do \in {"reset", "start"}
          BY <4>3
        <5>2. other # task
          BY <1>1, <1>2, <3>2, <5>1
        <5> QED BY <1>1, <1>2, <5>1, <5>2 DEF GdmaGoesOn
      <4> QED BY <4>1, <4>2, <4>3 DEF GdmaGoesOn
    <3> QED BY <3>1, <3>2
  <2> QED BY <1>1, <1>2, <2>1
<1> QED BY <1>3, <1>4, <1>5, <1>6, <1>7, <1>8, <1>9, <1>10, <1>11 DEF GdmaInv

(* The settings of a channel are cleared.                                  *)
LEMMA GdmaResetKeeps ==
  ASSUME GdmaInv, GdmaStridesStay, NEW task \in GdmaTasks, GdmaReset(task)
  PROVE  GdmaInv'
<1> DEFINE c == gdmaAt[task].channel
<1>1. /\ gdmaAt[task].do = "reset" /\ c \in GdmaChannels /\ c = gdmaAt[task].channel
      /\ gdmaChannel[c].inUse /\ gdmaChannel[c].task = task /\ c \notin gdmaRunning \cup gdmaIrq
      /\ UNCHANGED <<gdmaRunning, gdmaIrq, gdmaNotified, gdmaLate, gdmaEarly, gdmaStuck>>
  BY DEF GdmaReset, gdmaHistory, GdmaInv, GdmaTypeOK, GdmaCalls, GdmaOwned, GdmaAts
<1>2. /\ gdmaChannel' \in [GdmaChannels -> GdmaEntries]
      /\ \A d \in GdmaChannels : d # c => gdmaChannel'[d] = gdmaChannel[d]
      /\ gdmaChannel'[c].inUse /\ gdmaChannel'[c].task = task /\ ~gdmaChannel'[c].sync
  <2>1. GdmaNone \in GdmaConfs
    BY DEF GdmaConfs, GdmaNone, Piece
  <2>2. gdmaChannel' = [gdmaChannel EXCEPT ![c].sync = FALSE, ![c].iten = FALSE, ![c].conf = GdmaNone]
    BY DEF GdmaReset
  <2>3. gdmaChannel \in [GdmaChannels -> GdmaEntries] /\ gdmaChannel[c] \in GdmaEntries
    BY <1>1 DEF GdmaInv, GdmaTypeOK
  <2> HIDE DEF c
  <2>4. /\ gdmaChannel'[c] \in GdmaEntries /\ gdmaChannel'[c].inUse
        /\ gdmaChannel'[c].task = task /\ ~gdmaChannel'[c].sync
    BY <1>1, <2>1, <2>2, <2>3 DEF GdmaEntries
  <2>5. \A d \in GdmaChannels : d # c => gdmaChannel'[d] = gdmaChannel[d]
    BY <1>1, <2>2, <2>3
  <2>6. gdmaChannel' = [d \in GdmaChannels |-> gdmaChannel'[d]]
    BY <2>2, <2>3
  <2>7. \A d \in GdmaChannels : gdmaChannel'[d] \in GdmaEntries
    BY <2>3, <2>4, <2>5
  <2> QED BY <1>1, <2>4, <2>5, <2>6, <2>7
<1>3. /\ gdmaAt' \in [GdmaTasks -> GdmaAts]
      /\ \A other \in GdmaTasks : other # task => gdmaAt'[other] = gdmaAt[other]
      /\ gdmaAt'[task].do = "start" /\ gdmaAt'[task].channel = c
      /\ GdmaCalls(task)'
  <2>1. gdmaAt' = [gdmaAt EXCEPT ![task].do = "start"]
    BY DEF GdmaReset, GdmaGoes
  <2>2. gdmaAt[task] \in GdmaAts /\ GdmaCalls(task) /\ gdmaAt \in [GdmaTasks -> GdmaAts]
    BY DEF GdmaInv, GdmaTypeOK
  <2>3. /\ gdmaAt'[task] \in GdmaAts /\ gdmaAt'[task].do = "start" /\ gdmaAt'[task].channel = c
        /\ gdmaAt'[task].ask = gdmaAt[task].ask /\ gdmaAt'[task].left = gdmaAt[task].left
    BY <1>1, <2>1, <2>2 DEF GdmaAts, GdmaSteps
  <2>4. gdmaAt[task].ask \in GdmaAsks[task] /\ gdmaAt[task].left \in GdmaPiecesOf(gdmaAt[task].ask)
        /\ c # GdmaAny
    BY <1>1, <2>2, GdmaAssumption DEF GdmaCalls
  <2>5. GdmaCalls(task)'
    BY <2>3, <2>4 DEF GdmaCalls
  <2> QED BY <2>1, <2>2, <2>3, <2>5
<1> HIDE DEF c
<1>4. (GdmaTypeOK)'
  BY <1>1, <1>2, <1>3, GdmaAssumption DEF GdmaInv, GdmaTypeOK, GdmaEntries, GdmaAts
<1>5. (\A ch \in GdmaChannels : GdmaInUse(ch))'
  BY <1>1, <1>2, <1>3, GdmaAssumption DEF GdmaInv, GdmaTypeOK, GdmaEntries, GdmaAts, GdmaInUse
<1>6. (\A other \in GdmaTasks : GdmaCalls(other))'
  BY <1>1, <1>2, <1>3, GdmaAssumption DEF GdmaInv, GdmaTypeOK, GdmaEntries, GdmaAts, GdmaCalls
<1>7. (GdmaOwned)'
  <2>1. ASSUME NEW other \in GdmaTasks, gdmaAt'[other].do \in {"reset", "start"}
        PROVE  /\ gdmaChannel'[gdmaAt'[other].channel].inUse
               /\ gdmaChannel'[gdmaAt'[other].channel].task = other
               /\ gdmaAt'[other].channel \notin gdmaRunning \cup gdmaIrq
    <3>1. CASE other = task
      BY <1>1, <1>2, <1>3, <3>1
    <3>2. CASE other # task
      <4>1. /\ gdmaAt'[other] = gdmaAt[other] /\ gdmaAt[other].channel \in GdmaChannels
            /\ gdmaChannel[gdmaAt[other].channel].inUse /\ gdmaChannel[gdmaAt[other].channel].task = other
            /\ gdmaAt[other].channel \notin gdmaRunning \cup gdmaIrq
        BY <1>3, <2>1, <3>2 DEF GdmaInv, GdmaTypeOK, GdmaAts, GdmaCalls, GdmaOwned
      <4>2. gdmaAt[other].channel # c
        BY <1>1, <3>2, <4>1
      <4> QED BY <1>2, <4>1, <4>2
    <3> QED BY <3>1, <3>2
  <2> QED BY <1>1, <2>1 DEF GdmaOwned
<1>8. (GdmaLands)'
  BY <1>1, <1>2, <1>3, GdmaAssumption DEF GdmaInv, GdmaTypeOK, GdmaEntries, GdmaAts, GdmaLands, GdmaInUse
<1>9. (GdmaDone)'
  BY <1>1, <1>2, <1>3, GdmaAssumption DEF GdmaInv, GdmaTypeOK, GdmaEntries, GdmaAts, GdmaDone, GdmaInUse, GdmaNotifies, GdmaAwaits
<1>10. (\A other \in GdmaTasks \ gdmaLate : GdmaNotifies(other))'
  <2>1. ASSUME NEW other \in GdmaTasks \ gdmaLate PROVE GdmaNotifies(other)'
    <3>1. GdmaNotifies(other)
      BY <2>1 DEF GdmaInv
    <3>2. CASE other = task
      BY <1>1, <1>2, <1>3, <3>1, <3>2 DEF GdmaNotifies, GdmaWaits
    <3>3. CASE other # task
      BY <1>1, <1>2, <1>3, <3>1, <3>3 DEF GdmaNotifies, GdmaWaits
    <3> QED BY <3>2, <3>3
  <2> QED BY <1>1, <2>1
<1>11. (\A other \in GdmaTasks : GdmaAwaits(other))'
  <2>1. ASSUME NEW other \in GdmaTasks, gdmaAt'[other].do = "await",
               gdmaChannel'[gdmaAt'[other].channel].task = other
        PROVE  gdmaChannel'[gdmaAt'[other].channel].sync
    <3>1. other # task
      BY <1>3, <2>1
    <3>2. /\ gdmaAt'[other] = gdmaAt[other] /\ gdmaAt[other].channel \in GdmaChannels
          /\ GdmaAwaits(other)
      BY <1>3, <2>1, <3>1 DEF GdmaInv, GdmaTypeOK, GdmaAts, GdmaCalls
    <3>3. gdmaAt[other].channel # c
      BY <1>2, <2>1, <3>1, <3>2
    <3> QED BY <1>2, <2>1, <3>2, <3>3 DEF GdmaAwaits
  <2> QED BY <2>1 DEF GdmaAwaits
<1>12. (\A ch \in GdmaChannels \ gdmaStuck : gdmaChannel[ch].inUse => GdmaGoesOn(ch))'
  <2>1. ASSUME NEW d \in GdmaChannels \ gdmaStuck, gdmaChannel'[d].inUse PROVE GdmaGoesOn(d)'
    <3>1. CASE d = c
      BY <1>1, <1>2, <1>3, <3>1 DEF GdmaGoesOn
    <3>2. CASE d # c
      <4>1. GdmaGoesOn(d)
        BY <1>1, <1>2, <1>3, <2>1, <3>2 DEF GdmaInv
      <4>2. CASE d \in gdmaIrq \/ (d \in gdmaRunning /\ gdmaChannel[d].iten)
        BY <1>1, <1>2, <1>3, <3>2, <4>2 DEF GdmaGoesOn
      <4>3. CASE \E other \in GdmaTasks : gdmaAt[other].channel = d /\ gdmaAt[other].do \in {"reset", "start"}
        <5>1. PICK other \in GdmaTasks : gdmaAt[other].channel = d /\ gdmaAt[other].do \in {"reset", "start"}
          BY <4>3
        <5>2. other # task
          BY <1>1, <1>2, <1>3, <3>2, <5>1
        <5> QED BY <1>1, <1>2, <1>3, <5>1, <5>2 DEF GdmaGoesOn
      <4> QED BY <4>1, <4>2, <4>3 DEF GdmaGoesOn
    <3> QED BY <3>1, <3>2
  <2> QED BY <1>1, <1>2, <1>3, <2>1
<1> QED BY <1>4, <1>5, <1>6, <1>7, <1>8, <1>9, <1>10, <1>11, <1>12 DEF GdmaInv

(* A transfer starts.                                                       *)
LEMMA GdmaStartKeeps ==
  ASSUME GdmaInv, GdmaStridesStay, NEW task \in GdmaTasks, GdmaStart(task)
  PROVE  GdmaInv'
<1> DEFINE c == gdmaAt[task].channel
           at == gdmaAt[task]
           conf == GdmaWrap(Head(at.left))
<1>1. /\ gdmaAt[task].do = "start" /\ c \in GdmaChannels /\ c = gdmaAt[task].channel
      /\ gdmaChannel[c].inUse /\ gdmaChannel[c].task = task /\ c \notin gdmaRunning \cup gdmaIrq
      /\ gdmaRunning' = gdmaRunning \cup {c} /\ gdmaIrq' = gdmaIrq \ {c}
      /\ UNCHANGED <<gdmaNotified, gdmaLate, gdmaEarly>>
  BY DEF GdmaStart, GdmaInv, GdmaTypeOK, GdmaCalls, GdmaOwned, GdmaAts
<1>2. conf \in GdmaConfs /\ GdmaLandsAll(conf) /\ GdmaSync(at) \in BOOLEAN
      /\ (~(at.ask.stride /\ at.ask.sync)) \in BOOLEAN
  <2>1. at.ask \in GdmaAsks[task] /\ at.ask \in GdmaRequests /\ at.left \in GdmaPiecesOf(at.ask)
    BY <1>1, GdmaAssumption DEF GdmaInv, GdmaCalls
  <2>2. at.ask.stride => ~Crosses(at.ask.src, at.ask.len) \/ ~Crosses(at.ask.dst, at.ask.len)
    BY <2>1 DEF GdmaStridesStay
  <2>4. at.ask.sync \in BOOLEAN
    BY <2>1 DEF GdmaRequests
  <2>5. GdmaSync(at) = (at.ask.sync \/ Len(at.left) > 1)
    BY DEF GdmaSync
  <2> HIDE DEF at
  <2>3. conf \in GdmaConfs /\ GdmaLandsAll(conf)
    BY <2>1, <2>2, GdmaLeft
  <2>6. GdmaSync(at) \in BOOLEAN
    BY <2>4, <2>5
  <2> QED BY <2>3, <2>6
<1>3. /\ gdmaChannel' \in [GdmaChannels -> GdmaEntries]
      /\ \A d \in GdmaChannels : d # c => gdmaChannel'[d] = gdmaChannel[d]
      /\ gdmaChannel'[c].inUse /\ gdmaChannel'[c].task = task /\ gdmaChannel'[c].conf = conf
      /\ gdmaChannel'[c].sync = GdmaSync(at)
  <2> HIDE DEF conf
  <2>1. gdmaChannel' = [gdmaChannel EXCEPT ![c].sync = GdmaSync(at),
                          ![c].iten = ~(at.ask.stride /\ at.ask.sync), ![c].conf = conf]
    BY DEF GdmaStart, conf
  <2> QED BY <1>1, <1>2, <2>1 DEF GdmaInv, GdmaTypeOK, GdmaEntries
<1>4. /\ gdmaAt' \in [GdmaTasks -> GdmaAts]
      /\ \A other \in GdmaTasks : other # task => gdmaAt'[other] = gdmaAt[other]
      /\ GdmaCalls(task)'
      /\ \/ gdmaAt'[task].do = "await" /\ gdmaAt'[task].channel = c /\ GdmaSync(at)
         \/ /\ gdmaAt'[task].do \in {"idle", "request"} /\ gdmaAt'[task].channel = GdmaAny
            /\ ~GdmaSync(at)
  <2>1. CASE GdmaSync(at)
    <3>1. gdmaAt' = [gdmaAt EXCEPT ![task].do = "await"]
      BY <2>1 DEF GdmaStart, GdmaGoes
    <3>2. gdmaAt[task] \in GdmaAts /\ GdmaCalls(task) /\ gdmaAt \in [GdmaTasks -> GdmaAts]
      BY DEF GdmaInv, GdmaTypeOK
    <3>3. /\ gdmaAt'[task] \in GdmaAts /\ gdmaAt'[task].do = "await" /\ gdmaAt'[task].channel = c
          /\ gdmaAt'[task].ask = gdmaAt[task].ask /\ gdmaAt'[task].left = gdmaAt[task].left
      BY <1>1, <3>1, <3>2 DEF GdmaAts, GdmaSteps
    <3>4. gdmaAt[task].ask \in GdmaAsks[task] /\ gdmaAt[task].left \in GdmaPiecesOf(gdmaAt[task].ask)
          /\ c # GdmaAny
      BY <1>1, <3>2, GdmaAssumption DEF GdmaCalls
    <3>5. GdmaCalls(task)'
      BY <3>3, <3>4 DEF GdmaCalls
    <3> QED BY <2>1, <3>1, <3>2, <3>3, <3>5
  <2>2. CASE ~GdmaSync(at)
    <3>1. GdmaEnds(task, TRUE)
      BY <2>2 DEF GdmaStart
    <3> QED BY <1>1, <2>2, <3>1, GdmaEnded DEF GdmaInv
  <2> QED BY <2>1, <2>2
<1>5. gdmaStuck \subseteq gdmaStuck' /\ (c \notin gdmaStuck' => gdmaChannel'[c].iten)
  BY DEF GdmaStart
<1> HIDE DEF c, conf, at
<1>6. (GdmaTypeOK)'
  BY <1>1, <1>2, <1>3, <1>4, <1>5, GdmaAssumption DEF GdmaInv, GdmaTypeOK, GdmaEntries, GdmaAts
<1>7. (\A ch \in GdmaChannels : GdmaInUse(ch))'
  BY <1>1, <1>2, <1>3, <1>4, <1>5, GdmaAssumption DEF GdmaInv, GdmaTypeOK, GdmaEntries, GdmaAts, GdmaInUse
<1>8. (\A other \in GdmaTasks : GdmaCalls(other))'
  BY <1>1, <1>2, <1>3, <1>4, <1>5, GdmaAssumption DEF GdmaInv, GdmaTypeOK, GdmaEntries, GdmaAts, GdmaCalls
<1>9. (GdmaOwned)'
  <2>1. ASSUME NEW other \in GdmaTasks, gdmaAt'[other].do \in {"reset", "start"}
        PROVE  /\ gdmaChannel'[gdmaAt'[other].channel].inUse
               /\ gdmaChannel'[gdmaAt'[other].channel].task = other
               /\ gdmaAt'[other].channel \notin gdmaRunning' \cup gdmaIrq'
    <3>1. other # task
      BY <1>4, <2>1
    <3>2. /\ gdmaAt'[other] = gdmaAt[other] /\ gdmaAt[other].channel \in GdmaChannels
          /\ gdmaChannel[gdmaAt[other].channel].inUse /\ gdmaChannel[gdmaAt[other].channel].task = other
          /\ gdmaAt[other].channel \notin gdmaRunning \cup gdmaIrq
      BY <1>4, <2>1, <3>1 DEF GdmaInv, GdmaTypeOK, GdmaAts, GdmaCalls, GdmaOwned
    <3>3. gdmaAt[other].channel # c
      BY <1>1, <3>1, <3>2
    <3> QED BY <1>1, <1>3, <3>2, <3>3
  <2> QED BY <2>1 DEF GdmaOwned
<1>10. (GdmaLands)'
  BY <1>1, <1>2, <1>3, <1>4, <1>5, GdmaAssumption DEF GdmaInv, GdmaTypeOK, GdmaEntries, GdmaAts, GdmaLands, GdmaInUse
<1>11. (GdmaDone)'
  BY <1>1, <1>2, <1>3, <1>4, <1>5, GdmaAssumption DEF GdmaInv, GdmaTypeOK, GdmaEntries, GdmaAts, GdmaDone, GdmaInUse, GdmaNotifies, GdmaAwaits
<1>12. (\A other \in GdmaTasks \ gdmaLate : GdmaNotifies(other))'
  <2>1. ASSUME NEW other \in GdmaTasks \ gdmaLate PROVE GdmaNotifies(other)'
    <3>1. GdmaNotifies(other)
      BY <2>1 DEF GdmaInv
    <3>2. CASE other = task
      <4>1. task \notin gdmaNotified'
        BY <1>1, <3>1, <3>2 DEF GdmaNotifies
      <4>2. ASSUME NEW d \in GdmaChannels, gdmaChannel'[d].task = task, gdmaChannel'[d].sync
            PROVE  GdmaWaits(task, d)'
        <5>1. d = c
          BY <1>1, <1>3, <3>1, <3>2, <4>2 DEF GdmaNotifies, GdmaWaits
        <5> QED BY <1>3, <1>4, <4>2, <5>1 DEF GdmaWaits
      <4> QED BY <3>2, <4>1, <4>2 DEF GdmaNotifies
    <3>3. CASE other # task
      BY <1>1, <1>3, <1>4, <3>1, <3>3 DEF GdmaNotifies, GdmaWaits
    <3> QED BY <3>2, <3>3
  <2> QED BY <1>1, <2>1
<1>13. (\A other \in GdmaTasks : GdmaAwaits(other))'
  <2>1. ASSUME NEW other \in GdmaTasks, gdmaAt'[other].do = "await",
               gdmaChannel'[gdmaAt'[other].channel].task = other
        PROVE  gdmaChannel'[gdmaAt'[other].channel].sync
    <3>1. CASE other = task
      BY <1>3, <1>4, <2>1, <3>1
    <3>2. CASE other # task
      <4>1. /\ gdmaAt'[other] = gdmaAt[other] /\ gdmaAt[other].channel \in GdmaChannels
            /\ GdmaAwaits(other)
        BY <1>4, <2>1, <3>2 DEF GdmaInv, GdmaTypeOK, GdmaAts, GdmaCalls
      <4>2. gdmaAt[other].channel # c
        BY <1>3, <2>1, <3>2, <4>1
      <4> QED BY <1>3, <2>1, <4>1, <4>2 DEF GdmaAwaits
    <3> QED BY <3>1, <3>2
  <2> QED BY <2>1 DEF GdmaAwaits
<1>14. (\A ch \in GdmaChannels \ gdmaStuck : gdmaChannel[ch].inUse => GdmaGoesOn(ch))'
  <2>1. ASSUME NEW d \in GdmaChannels \ gdmaStuck', gdmaChannel'[d].inUse PROVE GdmaGoesOn(d)'
    <3>1. CASE d = c
      BY <1>1, <1>3, <1>4, <1>5, <3>1 DEF GdmaGoesOn
    <3>2. CASE d # c
      <4>1. GdmaGoesOn(d)
        BY <1>1, <1>3, <1>4, <1>5, <2>1, <3>2 DEF GdmaInv
      <4>2. CASE d \in gdmaIrq \/ (d \in gdmaRunning /\ gdmaChannel[d].iten)
        BY <1>1, <1>3, <1>4, <1>5, <3>2, <4>2 DEF GdmaGoesOn
      <4>3. CASE \E other \in GdmaTasks : gdmaAt[other].channel = d /\ gdmaAt[other].do \in {"reset", "start"}
        <5>1. PICK other \in GdmaTasks : gdmaAt[other].channel = d /\ gdmaAt[other].do \in {"reset", "start"}
          BY <4>3
        <5>2. other # task
          BY <1>1, <1>3, <1>4, <1>5, <3>2, <5>1
        <5> QED BY <1>1, <1>3, <1>4, <1>5, <5>1, <5>2 DEF GdmaGoesOn
      <4> QED BY <4>1, <4>2, <4>3 DEF GdmaGoesOn
    <3> QED BY <3>1, <3>2
  <2> QED BY <1>1, <1>3, <1>4, <1>5, <2>1
<1> QED BY <1>6, <1>7, <1>8, <1>9, <1>10, <1>11, <1>12, <1>13, <1>14 DEF GdmaInv


LEMMA GdmaInitOK == GdmaInit => GdmaInv
<1> SUFFICES ASSUME GdmaInit PROVE GdmaInv
  OBVIOUS
<1>1. GdmaTypeOK
  BY DEF GdmaInit, GdmaTypeOK, GdmaFree, GdmaIdle, GdmaEntries, GdmaAts, GdmaSteps, GdmaConfs, GdmaNone, Piece
<1>2. \A c \in GdmaChannels : ~gdmaChannel[c].inUse /\ gdmaChannel[c].task = GdmaNobody
  BY DEF GdmaInit, GdmaFree
<1>3. \A task \in GdmaTasks : gdmaAt[task] = GdmaIdle /\ gdmaAt[task].do = "idle" /\ gdmaAt[task].channel = GdmaAny
  BY DEF GdmaInit, GdmaIdle
<1> QED BY <1>1, <1>2, <1>3, GdmaAssumption DEF GdmaInit, GdmaInv, GdmaInUse, GdmaCalls, GdmaOwned,
  GdmaLands, GdmaDone, GdmaNotifies, GdmaAwaits

LEMMA GdmaInductive == GdmaInv /\ GdmaStridesStay /\ [GdmaNext]_gdmaVars => GdmaInv'
<1> SUFFICES ASSUME GdmaInv, GdmaStridesStay, [GdmaNext]_gdmaVars PROVE GdmaInv'
  OBVIOUS
<1>1. ASSUME NEW task \in GdmaTasks, GdmaRequestAny(task) PROVE GdmaInv'
  <2> DEFINE free == {c \in GdmaChannels \ GdmaReserved : ~gdmaChannel[c].inUse}
  <2>1. CASE free # {} /\ UNCHANGED gdmaHalf
    <3>1. Max(free) \in free
      <4>1. free \subseteq GdmaChannels /\ IsFiniteSet(free)
        BY GdmaAssumption, FS_Subset
      <4> HIDE DEF free
      <4> QED BY <2>1, <4>1, GdmaAssumption, MaxIsGreatest
    <3>2. PICK c \in GdmaChannels : c = Max(free) /\ ~gdmaChannel[c].inUse
      BY <3>1
    <3> HIDE DEF free
    <3>3. /\ gdmaChannel' = [gdmaChannel EXCEPT ![c].inUse = TRUE, ![c].task = task]
          /\ gdmaAt' = [gdmaAt EXCEPT ![task].do = "start", ![task].channel = c]
          /\ gdmaAt[task].do = "request"
          /\ UNCHANGED <<gdmaRunning, gdmaIrq, gdmaNotified, gdmaLate, gdmaEarly, gdmaStuck>>
      BY <1>1, <2>1, <3>2 DEF GdmaRequestAny, free
    <3> QED BY <3>2, <3>3, GdmaTakeKeeps
  <2>2. CASE GdmaEnds(task, FALSE) /\ UNCHANGED gdmaChannel
    BY <1>1, <2>2, GdmaRefuseKeeps DEF GdmaRequestAny
  <2> QED BY <1>1, <2>1, <2>2 DEF GdmaRequestAny
<1>2. ASSUME NEW task \in GdmaTasks, GdmaRequest(task) PROVE GdmaInv'
  <2> DEFINE c == gdmaAt[task].ask.channel
  <2>1. c \in GdmaChannels
    <3>1. gdmaAt[task].ask \in GdmaRequests
      BY <1>2, GdmaAssumption DEF GdmaRequest, GdmaInv, GdmaCalls
    <3> QED BY <1>2, <3>1 DEF GdmaRequest, GdmaRequests
  <2>2. CASE gdmaChannel[c].inUse
    BY <1>2, <2>2, GdmaRefuseKeeps DEF GdmaRequest
  <2>3. CASE ~gdmaChannel[c].inUse
    BY <1>2, <2>1, <2>3, GdmaTakeKeeps DEF GdmaRequest
  <2> QED BY <2>2, <2>3
<1>3. CASE UNCHANGED gdmaVars
  BY <1>3 DEF gdmaVars, gdmaHistory, GdmaInv, GdmaTypeOK, GdmaInUse, GdmaCalls, GdmaOwned, GdmaLands,
     GdmaDone, GdmaNotifies, GdmaAwaits, GdmaWaits, GdmaGoesOn
<1> QED BY <1>1, <1>2, <1>3, GdmaFinishKeeps, GdmaIrqKeeps, GdmaTransactionKeeps, GdmaGiveUpKeeps,
  GdmaWokenKeeps, GdmaResetKeeps, GdmaStartKeeps DEF GdmaNext

(* The DMA controller keeps what it promises.                              *)
THEOREM GdmaServesHolds ==
  ASSUME GdmaStridesStay
  PROVE  GdmaSpec => []GdmaServes
<1>1. GdmaInv => GdmaServes
  <2> SUFFICES ASSUME GdmaInv PROVE GdmaServes
    OBVIOUS
  <2>1. ASSUME NEW c \in GdmaChannels \ gdmaStuck, gdmaChannel[c].inUse
        PROVE  \/ c \in gdmaIrq
               \/ c \in gdmaRunning /\ gdmaChannel[c].iten
               \/ \E task \in GdmaTasks : gdmaAt[task].channel = c /\ gdmaAt[task].do # "idle"
    <3>1. GdmaGoesOn(c)
      BY <2>1 DEF GdmaInv
    <3>2. CASE \E task \in GdmaTasks : gdmaAt[task].channel = c /\ gdmaAt[task].do \in {"reset", "start"}
      BY <3>2
    <3> QED BY <3>1, <3>2 DEF GdmaGoesOn
  <2> QED BY <2>1 DEF GdmaServes, GdmaInv, GdmaComesBack
<1>2. GdmaInv /\ [GdmaNext]_gdmaVars => GdmaInv'
  BY GdmaInductive
<1> QED BY <1>1, <1>2, GdmaInitOK, PTL DEF GdmaSpec
---------------------------------------------------------------------------
(* SCMI: the agent gets back what it asked for.                            *)

(* What is next of a response, and what follows it.                        *)
LEMMA ScmiStepOf ==
  ASSUME ScmiTypeOK, NEW r \in Responders, NEW k \in 1 .. 4, RespondStep(r, RespondOrder[k])
  PROVE  /\ scmiAt[r].next = k
         /\ scmiAt' \in [Responders -> [next : 0 .. 4, channel : ScmiChannels \cup {0}, data : ScmiAnswers]]
         /\ \A other \in Responders : other # r => scmiAt'[other] = scmiAt[other]
         /\ k < 4 => scmiAt'[r] = [scmiAt[r] EXCEPT !.next = k + 1]
         /\ k = 4 => scmiAt'[r].next = 0
<1>1. DOMAIN RespondOrder = 1 .. 4 /\ Len(RespondOrder) = 4
  BY DEF RespondOrder
<1>2. scmiAt[r].next = k
  <2>1. scmiAt[r].next \in 1 .. 4 /\ RespondOrder[scmiAt[r].next] = RespondOrder[k]
    BY <1>1 DEF RespondStep
  <2> QED BY <2>1 DEF RespondOrder
<1>3. scmiAt[r] \in [next : 0 .. 4, channel : ScmiChannels \cup {0}, data : ScmiAnswers]
  BY DEF ScmiTypeOK
<1>4. scmiAt' = [scmiAt EXCEPT ![r] = IF k = 4 THEN Idle ELSE [scmiAt[r] EXCEPT !.next = k + 1]]
  BY <1>1, <1>2 DEF RespondStep
<1>5. Idle \in [next : 0 .. 4, channel : ScmiChannels \cup {0}, data : ScmiAnswers] /\ Idle.next = 0
  BY DEF Idle, ScmiAnswers
<1>6. CASE k = 4
  BY <1>2, <1>4, <1>5, <1>6 DEF ScmiTypeOK
<1>7. CASE k < 4
  <2>1. [scmiAt[r] EXCEPT !.next = k + 1] \in [next : 0 .. 4, channel : ScmiChannels \cup {0}, data : ScmiAnswers]
    BY <1>3, <1>7
  <2> QED BY <1>2, <1>4, <1>7, <2>1 DEF ScmiTypeOK
<1> QED BY <1>6, <1>7

(* A response that goes on without the memory of its channel, and one that *)
(* ends, keep what is answered.                                            *)
LEMMA ScmiRespondKeeps ==
  ASSUME ScmiInv, NEW r \in Responders, ScmiRespond(r)
  PROVE  ScmiInv'
<1> DEFINE c == scmiAt[r].channel
<1>1. UNCHANGED <<scmiCopy, scmiIrq, scmiFeature, scmiGiven, scmiReply, scmiNotice, scmiSeen,
                  scmiAsking, scmiBinding>>
  BY DEF ScmiRespond, RespondCopy, RespondUnlock, RespondFree, RespondRaise, RespondStep
<1>2. PICK k \in 1 .. 4 :
        /\ RespondStep(r, RespondOrder[k])
        /\ k = 1 => scmiMem' = [scmiMem EXCEPT ![c] = [free |-> FALSE, msg |-> scmiCopy[c],
                                                       data |-> scmiAt[r].data]]
        /\ k = 3 => scmiMem' = [scmiMem EXCEPT ![c].free = TRUE]
        /\ k \in {2, 4} => scmiMem' = scmiMem
  <2>1. RespondOrder[1] = "copy" /\ RespondOrder[2] = "unlock" /\ RespondOrder[3] = "free"
        /\ RespondOrder[4] = "raise"
    BY DEF RespondOrder
  <2>2. CASE RespondCopy(r)
    BY <2>1, <2>2 DEF RespondCopy
  <2>3. CASE RespondUnlock(r)
    BY <2>1, <2>3 DEF RespondUnlock
  <2>4. CASE RespondFree(r)
    BY <2>1, <2>4 DEF RespondFree
  <2>5. CASE RespondRaise(r)
    BY <2>1, <2>5 DEF RespondRaise
  <2> QED BY <2>2, <2>3, <2>4, <2>5 DEF ScmiRespond
<1>3. /\ scmiAt[r].next = k
      /\ scmiAt' \in [Responders -> [next : 0 .. 4, channel : ScmiChannels \cup {0}, data : ScmiAnswers]]
      /\ \A other \in Responders : other # r => scmiAt'[other] = scmiAt[other]
      /\ k < 4 => scmiAt'[r] = [scmiAt[r] EXCEPT !.next = k + 1]
      /\ k = 4 => scmiAt'[r].next = 0
  BY <1>2, ScmiStepOf DEF ScmiInv
<1>4. /\ scmiAt[r].data \in ScmiAnswers /\ scmiAt'[r].next = (IF k = 4 THEN 0 ELSE k + 1)
      /\ k < 4 => scmiAt'[r].channel = c /\ scmiAt'[r].data = scmiAt[r].data
  BY <1>3 DEF ScmiInv, ScmiTypeOK
<1>5. \A d \in ScmiChannels : d # c => scmiMem'[d] = scmiMem[d]
  BY <1>2 DEF ScmiInv, ScmiTypeOK
<1>6. c \in ScmiChannels =>
        /\ k = 1 => ~scmiMem'[c].free /\ scmiMem'[c].data = scmiAt[r].data
        /\ k = 3 => scmiMem'[c].free /\ scmiMem'[c].data = scmiMem[c].data
        /\ k \in {2, 4} => scmiMem'[c] = scmiMem[c]
  BY <1>2 DEF ScmiInv, ScmiTypeOK
<1>7. scmiMem' \in [ScmiChannels -> [free : BOOLEAN, msg : ScmiMessages, data : ScmiAnswers]]
  <2>1. ASSUME c \in ScmiChannels PROVE scmiMem[c] \in [free : BOOLEAN, msg : ScmiMessages, data : ScmiAnswers]
                                        /\ scmiCopy[c] \in ScmiMessages
    BY <2>1 DEF ScmiInv, ScmiTypeOK
  <2> HIDE DEF c
  <2>5. /\ scmiMem \in [ScmiChannels -> [free : BOOLEAN, msg : ScmiMessages, data : ScmiAnswers]]
        /\ scmiAt[r].data \in ScmiAnswers
    BY <1>4 DEF ScmiInv, ScmiTypeOK
  <2>2. ASSUME k = 1 PROVE scmiMem' \in [ScmiChannels -> [free : BOOLEAN, msg : ScmiMessages, data : ScmiAnswers]]
    <3>1. scmiMem' = [d \in ScmiChannels |-> scmiMem'[d]]
      BY <1>2, <2>2, <2>5
    <3>2. ASSUME c \in ScmiChannels PROVE scmiMem'[c] \in [free : BOOLEAN, msg : ScmiMessages, data : ScmiAnswers]
      <4>1. scmiMem'[c] = [free |-> FALSE, msg |-> scmiCopy[c], data |-> scmiAt[r].data]
        BY <1>2, <2>2, <2>5, <3>2
      <4>2. scmiCopy[c] \in ScmiMessages
        BY <2>1, <3>2
      <4> QED BY <2>5, <4>1, <4>2
    <3> QED BY <1>5, <2>5, <3>1, <3>2
  <2>3. ASSUME k = 3 PROVE scmiMem' \in [ScmiChannels -> [free : BOOLEAN, msg : ScmiMessages, data : ScmiAnswers]]
    <3>1. scmiMem' = [d \in ScmiChannels |-> scmiMem'[d]]
      BY <1>2, <2>3, <2>5
    <3>2. ASSUME c \in ScmiChannels PROVE scmiMem'[c] \in [free : BOOLEAN, msg : ScmiMessages, data : ScmiAnswers]
      <4>1. scmiMem'[c] = [scmiMem[c] EXCEPT !.free = TRUE]
        BY <1>2, <2>3, <2>5, <3>2
      <4>2. scmiMem[c] \in [free : BOOLEAN, msg : ScmiMessages, data : ScmiAnswers]
        BY <2>1, <3>2
      <4> QED BY <4>1, <4>2
    <3> QED BY <1>5, <2>5, <3>1, <3>2
  <2> QED BY <1>2, <2>2, <2>3 DEF ScmiInv, ScmiTypeOK
<1>8. \A other \in Responders, d \in ScmiChannels : ScmiResponds(other, d)' => ScmiResponds(other, d)
  BY <1>3, <1>4 DEF ScmiResponds
<1> HIDE DEF c
<1>9. ScmiTypeOK'
  BY <1>1, <1>3, <1>7 DEF ScmiInv, ScmiTypeOK, scmiBinding
<1>10. k \in 1 .. 3 => ScmiResponds(r, c)
  BY <1>3 DEF ScmiResponds, c
<1>11. ASSUME NEW d \in ScmiChannels, NEW other \in Responders
       PROVE  ScmiRightly(d, other)'
  <2>1. ScmiRightly(d, other) /\ ScmiRightly(d, r)
    BY DEF ScmiInv
  <2>2. SUFFICES ASSUME ScmiResponds(other, d)'
                 PROVE  ScmiRightly(d, other)'
    BY DEF ScmiRightly
  <2>3. /\ scmiAsking[d] = <<scmiCopy[d]>> /\ scmiAt[other].data = Answer(scmiCopy[d])
        /\ scmiAt[other].next > 1 => scmiMem[d].data = scmiAt[other].data
        /\ other # Isr => scmiCopy[d].feature = other /\ scmiCopy[d].kind \in Commands /\ other \notin scmiGiven
        /\ other = Isr => \A f \in ScmiFeatures : ~ScmiResponds(f, d) /\ ~ScmiDue(f, d)
    BY <1>8, <2>1, <2>2 DEF ScmiRightly
  <2>4. other = Isr => \A f \in ScmiFeatures : ~ScmiResponds(f, d)' /\ ~ScmiDue(f, d)'
    BY <1>1, <1>8, <2>3 DEF ScmiDue, Responders
  <2>5. scmiAt'[other].data = scmiAt[other].data
    BY <1>3, <1>4, <2>2 DEF ScmiResponds
  <2>6. scmiAt'[other].next > 1 => scmiMem'[d].data = scmiAt'[other].data
    <3>1. CASE other = r
      <4>1. k < 4 /\ d = c
        BY <1>4, <2>2, <3>1 DEF ScmiResponds
      <4> QED BY <1>3, <1>6, <2>3, <2>5, <3>1, <4>1
    <3>2. CASE other # r
      <4>1. scmiAt'[other] = scmiAt[other]
        BY <1>3, <3>2
      <4>2. CASE d = c /\ k = 1
        BY <1>6, <1>10, <2>1, <2>3, <2>5, <4>2 DEF ScmiRightly
      <4> QED BY <1>5, <1>6, <2>3, <4>1, <4>2
    <3> QED BY <3>1, <3>2
  <2> QED BY <1>1, <2>3, <2>4, <2>5, <2>6 DEF ScmiRightly
<1>12. ASSUME NEW d \in ScmiChannels
       PROVE  /\ scmiMem'[d].free \/ d \in scmiIrq => ~ScmiOwned(d)'
              /\ d \in scmiIrq => scmiMem'[d] = scmiMem[d]
              /\ scmiAsking[d] # <<>> /\ scmiMem'[d].free => scmiMem'[d].data = Answer(scmiAsking[d][1])
  <2>1. ScmiOwned(d)' => ScmiOwned(d)
    BY <1>1, <1>8 DEF ScmiOwned, ScmiDue
  <2>2. CASE d # c \/ k \in {2, 4}
    BY <1>5, <1>6, <2>1, <2>2 DEF ScmiInv, ScmiPending, ScmiMine
  <2>3. CASE d = c /\ k = 1
    BY <1>6, <1>10, <2>3 DEF ScmiInv, ScmiPending, ScmiOwned
  <2>4. CASE d = c /\ k = 3
    <3>1. ScmiResponds(r, c) /\ ScmiRightly(c, r)
      BY <1>10, <2>4 DEF ScmiInv
    <3>2. /\ scmiAsking[c] = <<scmiCopy[c]>> /\ scmiMem[c].data = Answer(scmiCopy[c])
          /\ c \notin scmiIrq
      BY <1>3, <2>4, <3>1 DEF ScmiInv, ScmiRightly, ScmiPending, ScmiOwned
    <3>3. \A other \in Responders : ~ScmiResponds(other, d)'
      <4>1. ~ScmiResponds(r, d)'
        BY <1>4, <2>4 DEF ScmiResponds
      <4>2. ASSUME NEW other \in Responders, other # r, ScmiResponds(other, c) PROVE FALSE
        <5>1. ScmiRightly(c, other) /\ ScmiRightly(c, r)
          BY <2>4 DEF ScmiInv
        <5>2. CASE r = Isr
          BY <2>4, <3>1, <4>2, <5>1, <5>2 DEF ScmiRightly, Responders
        <5>3. CASE other = Isr
          BY <2>4, <3>1, <4>2, <5>1, <5>3 DEF ScmiRightly, Responders
        <5>4. CASE r # Isr /\ other # Isr
          BY <2>4, <3>1, <4>2, <5>1, <5>4 DEF ScmiRightly
        <5> QED BY <5>2, <5>3, <5>4
      <4> QED BY <1>8, <2>4, <4>1, <4>2
    <3>4. \A f \in ScmiFeatures : ~ScmiDue(f, c)
      BY <2>4, <3>1 DEF ScmiInv, ScmiRightly, ScmiDuly, ScmiDue, Responders
    <3>5. ~ScmiOwned(d)'
      BY <1>1, <2>4, <3>3, <3>4 DEF ScmiOwned, ScmiDue
    <3>6. scmiAsking[c][1] = scmiCopy[c] /\ scmiMem'[d].data = scmiMem[c].data
      BY <1>6, <2>4, <3>2
    <3> QED BY <1>6, <2>4, <3>2, <3>5, <3>6
  <2> QED BY <1>2, <2>2, <2>3, <2>4
<1>13. \A d \in ScmiChannels, f \in ScmiFeatures : ScmiDuly(d, f)'
  BY <1>1 DEF ScmiInv, ScmiDuly, ScmiDue, scmiBinding
<1>14. \A d \in ScmiChannels : ScmiPending(d)'
  BY <1>1, <1>12 DEF ScmiInv, ScmiPending
<1>15. ScmiMine'
  BY <1>1, <1>12 DEF ScmiInv, ScmiMine
<1>16. \A f \in scmiGiven' : scmiFeature'[f].channel \in ScmiChannels
  BY <1>1 DEF ScmiInv
<1> QED BY <1>9, <1>11, <1>13, <1>14, <1>15, <1>16 DEF ScmiInv

(* Commands for one feature come on one channel.                           *)
LEMMA ScmiOneChannel ==
  ASSUME ScmiInv, NEW c \in ScmiChannels, NEW d \in ScmiChannels,
         scmiAsking[c] # <<>>, scmiAsking[d] # <<>>,
         scmiAsking[c][1].kind \in Commands, scmiAsking[d][1].kind \in Commands,
         scmiAsking[c][1].feature = scmiAsking[d][1].feature
  PROVE  c = d
<1>1. PICK m \in ScmiAsks[c] : m.kind = scmiAsking[c][1].kind /\ m.feature = scmiAsking[c][1].feature
  BY DEF ScmiInv, ScmiPending
<1>2. PICK n \in ScmiAsks[d] : n.kind = scmiAsking[d][1].kind /\ n.feature = scmiAsking[d][1].feature
  BY DEF ScmiInv, ScmiPending
<1> QED BY <1>1, <1>2, ScmiAssumption

(* Who has a command for a feature has it from the one channel.            *)
LEMMA ScmiOwnerOf ==
  ASSUME ScmiInv, NEW c \in ScmiChannels, scmiAsking[c] # <<>>, scmiAsking[c][1].kind \in Commands,
         NEW f \in ScmiFeatures, scmiAsking[c][1].feature = f,
         NEW d \in ScmiChannels, ScmiResponds(f, d) \/ ScmiDue(f, d)
  PROVE  c = d
<1>1. ScmiRightly(d, f) /\ ScmiDuly(d, f) /\ f # Isr /\ f \in Responders
  BY ScmiAssumption DEF ScmiInv, Responders
<1>2. scmiAsking[d] = <<scmiCopy[d]>> /\ scmiCopy[d].feature = f /\ scmiCopy[d].kind \in Commands
  <2>1. CASE ScmiResponds(f, d)
    BY <1>1, <2>1 DEF ScmiRightly
  <2>2. CASE ScmiDue(f, d)
    BY <1>1, <2>2 DEF ScmiDuly, ScmiInv, ScmiTypeOK
  <2> QED BY <2>1, <2>2
<1>3. scmiAsking[d] # <<>> /\ scmiAsking[d][1] = scmiCopy[d]
  BY <1>2
<1> QED BY <1>2, <1>3, ScmiOneChannel

(* The interrupt drops a message of a channel that is still locked.        *)
LEMMA ScmiDropKeeps ==
  ASSUME ScmiInv, NEW c \in ScmiChannels, scmiIrq' = scmiIrq \ {c},
         UNCHANGED <<scmiMem, scmiCopy, scmiAt, scmiFeature, scmiGiven, scmiReply, scmiNotice,
                     scmiSeen, scmiAsking, scmiBound>>
  PROVE  ScmiInv'
<1>1. ScmiTypeOK'
  BY DEF ScmiInv, ScmiTypeOK
<1>2. \A d \in ScmiChannels : ScmiPending(d)'
  BY DEF ScmiInv, ScmiPending, ScmiOwned, ScmiResponds, ScmiDue
<1>3. \A d \in ScmiChannels, r \in Responders : ScmiRightly(d, r)'
  BY DEF ScmiInv, ScmiRightly, ScmiResponds, ScmiDue
<1>4. \A d \in ScmiChannels, f \in ScmiFeatures : ScmiDuly(d, f)'
  BY DEF ScmiInv, ScmiDuly, ScmiDue
<1>5. ScmiMine' /\ \A f \in scmiGiven' : scmiFeature'[f].channel \in ScmiChannels
  BY DEF ScmiInv, ScmiMine
<1> QED BY <1>1, <1>2, <1>3, <1>4, <1>5 DEF ScmiInv

(* The interrupt answers a message itself.                                 *)
LEMMA ScmiIsrKeeps ==
  ASSUME ScmiInv, NEW c \in ScmiChannels, c \in scmiIrq, scmiIrq' = scmiIrq \ {c},
         scmiAt[Isr] = Idle,
         scmiCopy' = [scmiCopy EXCEPT ![c] = scmiMem[c].msg],
         scmiAt' = [scmiAt EXCEPT ![Isr] = Respond(c, Answer(scmiMem[c].msg))],
         \/ scmiFeature' = scmiFeature
         \/ \E f \in ScmiFeatures, on \in BOOLEAN : scmiFeature' = [scmiFeature EXCEPT ![f].notify = on],
         UNCHANGED <<scmiMem, scmiGiven, scmiReply, scmiNotice, scmiSeen, scmiAsking, scmiBound>>
  PROVE  ScmiInv'
<1> DEFINE msg == scmiMem[c].msg
<1>1. msg \in ScmiMessages /\ Answer(msg) \in ScmiAnswers
  BY DEF ScmiInv, ScmiTypeOK, ScmiMessages, Answer, ScmiAnswers
<1>2. /\ scmiAsking[c] = <<msg>> /\ ~scmiMem[c].free
      /\ \A r \in Responders : ~ScmiResponds(r, c)
      /\ \A f \in ScmiFeatures : ~ScmiDue(f, c)
  BY DEF ScmiInv, ScmiPending, ScmiOwned
<1>3. scmiCopy'[c] = msg /\ \A d \in ScmiChannels : d # c => scmiCopy'[d] = scmiCopy[d]
  BY DEF ScmiInv, ScmiTypeOK
<1>4. /\ \A f \in ScmiFeatures : /\ scmiFeature'[f].channel = scmiFeature[f].channel
                                 /\ scmiFeature'[f].cmd = scmiFeature[f].cmd
      /\ scmiFeature' \in [ScmiFeatures -> [channel : ScmiChannels \cup {0}, cmd : Commands, notify : BOOLEAN]]
  <2>1. CASE scmiFeature' = scmiFeature
    BY <2>1 DEF ScmiInv, ScmiTypeOK
  <2>2. ASSUME NEW g \in ScmiFeatures, NEW on \in BOOLEAN, scmiFeature' = [scmiFeature EXCEPT ![g].notify = on]
        PROVE  /\ \A f \in ScmiFeatures : /\ scmiFeature'[f].channel = scmiFeature[f].channel
                                       /\ scmiFeature'[f].cmd = scmiFeature[f].cmd
              /\ scmiFeature' \in [ScmiFeatures -> [channel : ScmiChannels \cup {0}, cmd : Commands, notify : BOOLEAN]]
    BY <2>2 DEF ScmiInv, ScmiTypeOK
  <2> QED BY <2>1, <2>2
<1>5. /\ scmiAt'[Isr].next = 1 /\ scmiAt'[Isr].channel = c /\ scmiAt'[Isr].data = Answer(msg)
      /\ \A r \in Responders : r # Isr => scmiAt'[r] = scmiAt[r]
      /\ scmiAt' \in [Responders -> [next : 0 .. 4, channel : ScmiChannels \cup {0}, data : ScmiAnswers]]
  <2>1. Respond(c, Answer(msg)) \in [next : 0 .. 4, channel : ScmiChannels \cup {0}, data : ScmiAnswers]
    BY <1>1 DEF Respond
  <2> QED BY <2>1 DEF ScmiInv, ScmiTypeOK, Responders, Respond
<1>6. /\ \A r \in Responders, d \in ScmiChannels : r # Isr => (ScmiResponds(r, d)' <=> ScmiResponds(r, d))
      /\ \A d \in ScmiChannels : ScmiResponds(Isr, d)' <=> d = c
      /\ \A d \in ScmiChannels, f \in ScmiFeatures : ScmiDue(f, d)' <=> ScmiDue(f, d)
  BY <1>4, <1>5 DEF ScmiResponds, ScmiDue
<1>7. \A d \in ScmiChannels : ~ScmiResponds(Isr, d)
  BY DEF ScmiResponds, Idle
<1> HIDE DEF msg
<1>8. ScmiTypeOK'
  BY <1>1, <1>4, <1>5 DEF ScmiInv, ScmiTypeOK, msg
<1>9. ASSUME NEW d \in ScmiChannels PROVE ScmiPending(d)'
  <2>1. ScmiPending(d)
    BY DEF ScmiInv
  <2>2. CASE d = c
    BY <1>2, <2>1, <2>2 DEF ScmiPending
  <2>3. CASE d # c
    <3>1. ScmiOwned(d)' <=> ScmiOwned(d)
      BY <1>6, <1>7, <2>3 DEF ScmiOwned
    <3> QED BY <2>1, <2>3, <3>1 DEF ScmiPending
  <2> QED BY <2>2, <2>3
<1>10. ASSUME NEW d \in ScmiChannels, NEW r \in Responders PROVE ScmiRightly(d, r)'
  <2>1. ScmiRightly(d, r)
    BY DEF ScmiInv
  <2>2. CASE r = Isr
    BY <1>2, <1>3, <1>5, <1>6, <2>2, ScmiAssumption DEF ScmiRightly, Responders
  <2>3. CASE r # Isr
    BY <1>2, <1>3, <1>5, <1>6, <2>1, <2>3 DEF ScmiRightly
  <2> QED BY <2>2, <2>3
<1>11. \A d \in ScmiChannels, f \in ScmiFeatures : ScmiDuly(d, f)'
  BY <1>2, <1>3, <1>4, <1>6 DEF ScmiInv, ScmiDuly
<1>12. ScmiMine' /\ \A f \in scmiGiven' : scmiFeature'[f].channel \in ScmiChannels
  BY <1>4 DEF ScmiInv, ScmiMine, ScmiTypeOK
<1> QED BY <1>8, <1>9, <1>10, <1>11, <1>12 DEF ScmiInv

(* The interrupt hands a message to the task of its feature.               *)
LEMMA ScmiCallbackKeeps ==
  ASSUME ScmiInv, NEW c \in ScmiChannels, c \in scmiIrq, scmiIrq' = scmiIrq \ {c},
         scmiMem[c].msg.kind \in Commands, scmiMem[c].msg.kind \in scmiBound[scmiMem[c].msg.feature],
         scmiCopy' = [scmiCopy EXCEPT ![c] = scmiMem[c].msg],
         HandlerToCallback(c, scmiMem[c].msg),
         UNCHANGED <<scmiMem, scmiReply, scmiNotice, scmiSeen, scmiAsking, scmiBound>>
  PROVE  ScmiInv'
<1> DEFINE msg == scmiMem[c].msg
           f == msg.feature
<1>1. /\ scmiAsking[c] = <<msg>> /\ ~scmiMem[c].free /\ scmiAsking[c] # <<>> /\ scmiAsking[c][1] = msg
      /\ \A r \in Responders : ~ScmiResponds(r, c)
      /\ \A g \in ScmiFeatures : ~ScmiDue(g, c)
  BY DEF ScmiInv, ScmiPending, ScmiOwned
<1>2. f \in ScmiFeatures /\ f \in Responders /\ f # Isr
  <2>1. PICK ask \in ScmiAsks[c] : ask.kind = msg.kind /\ ask.feature = msg.feature
    BY <1>1 DEF ScmiInv, ScmiPending
  <2> QED BY <2>1, ScmiAssumption DEF Responders
<1>3. \A d \in ScmiChannels : ~ScmiResponds(f, d) /\ ~ScmiDue(f, d)
  BY <1>1, <1>2, ScmiOwnerOf
<1>4. f \notin scmiGiven
  BY <1>2, <1>3 DEF ScmiDue, ScmiInv
<1>5. scmiCopy'[c] = msg /\ \A d \in ScmiChannels : d # c => scmiCopy'[d] = scmiCopy[d]
  BY DEF ScmiInv, ScmiTypeOK
<1>6. /\ scmiFeature'[f].channel = c /\ scmiFeature'[f].cmd = msg.kind
      /\ \A g \in ScmiFeatures : g # f => scmiFeature'[g] = scmiFeature[g]
      /\ scmiFeature' \in [ScmiFeatures -> [channel : ScmiChannels \cup {0}, cmd : Commands, notify : BOOLEAN]]
      /\ scmiGiven' = scmiGiven \cup {f} /\ scmiAt' = scmiAt
  BY <1>2 DEF HandlerToCallback, ScmiInv, ScmiTypeOK
<1>7. msg \in ScmiMessages /\ msg.kind \in scmiBound[f]
  BY DEF ScmiInv, ScmiTypeOK
<1> HIDE DEF msg, f
<1>8. PICK m, g : m = msg /\ g = f
  OBVIOUS
<1>9. /\ \A r \in Responders, d \in ScmiChannels : ScmiResponds(r, d)' <=> ScmiResponds(r, d)
      /\ \A d \in ScmiChannels, h \in ScmiFeatures : ScmiDue(h, d)' <=> ScmiDue(h, d) \/ (h = g /\ d = c)
  BY <1>4, <1>6, <1>8 DEF ScmiResponds, ScmiDue
<1>10. ScmiTypeOK'
  BY <1>2, <1>6, <1>7 DEF ScmiInv, ScmiTypeOK, msg
<1>11. ASSUME NEW d \in ScmiChannels PROVE ScmiPending(d)'
  <2>1. ScmiPending(d)
    BY DEF ScmiInv
  <2>2. CASE d = c
    BY <1>1, <2>1, <2>2 DEF ScmiPending
  <2>3. CASE d # c
    <3>1. ScmiOwned(d)' <=> ScmiOwned(d)
      BY <1>9, <2>3 DEF ScmiOwned
    <3> QED BY <2>1, <2>3, <3>1 DEF ScmiPending
  <2> QED BY <2>2, <2>3
<1>12. ASSUME NEW d \in ScmiChannels, NEW r \in Responders PROVE ScmiRightly(d, r)'
  <2>1. ScmiRightly(d, r) /\ (ScmiResponds(r, d)' => d # c)
    BY <1>1, <1>9 DEF ScmiInv
  <2>2. r = g => ~ScmiResponds(r, d)'
    BY <1>3, <1>8, <1>9
  <2> QED BY <1>5, <1>6, <1>8, <1>9, <2>1, <2>2, ScmiAssumption DEF ScmiRightly, Responders
<1>13. ASSUME NEW d \in ScmiChannels, NEW h \in ScmiFeatures PROVE ScmiDuly(d, h)'
  <2>1. CASE h = g /\ d = c
    BY <1>1, <1>5, <1>6, <1>7, <1>8, <2>1 DEF ScmiDuly, f
  <2>2. CASE h = g /\ d # c
    BY <1>3, <1>8, <1>9, <2>2 DEF ScmiDuly
  <2>3. CASE h # g
    BY <1>1, <1>5, <1>6, <1>8, <1>9, <2>3 DEF ScmiInv, ScmiDuly
  <2> QED BY <2>1, <2>2, <2>3
<1>14. ScmiMine'
  BY DEF ScmiInv, ScmiMine
<1>15. \A h \in scmiGiven' : scmiFeature'[h].channel \in ScmiChannels
  BY <1>2, <1>6 DEF ScmiInv, ScmiTypeOK
<1> QED BY <1>10, <1>11, <1>12, <1>13, <1>14, <1>15 DEF ScmiInv

(* A task calls its feature and answers.                                   *)
LEMMA ScmiReceiveKeeps ==
  ASSUME ScmiInv, NEW f \in ScmiFeatures, ScmiMessageReceive(f)
  PROVE  ScmiInv'
<1> DEFINE c == scmiFeature[f].channel
           msg == scmiCopy[c]
<1>1. /\ f \in scmiGiven /\ c \in ScmiChannels /\ scmiAt[f] = Idle /\ f # Isr /\ f \in Responders
      /\ scmiGiven' = scmiGiven \ {f}
      /\ UNCHANGED <<scmiMem, scmiCopy, scmiIrq, scmiFeature, scmiNotice, scmiSeen, scmiAsking, scmiBound>>
  BY ScmiAssumption DEF ScmiMessageReceive, ScmiInv, scmiAgent, scmiBinding, Responders
<1>2. ScmiDue(f, c) /\ ScmiDuly(c, f)
  BY <1>1 DEF ScmiDue, ScmiInv
<1>3. /\ scmiAsking[c] = <<msg>> /\ msg.feature = f /\ msg.kind \in Commands
      /\ scmiFeature[f].cmd = msg.kind /\ msg.kind \in scmiBound[f] /\ msg \in ScmiMessages
      /\ scmiAsking[c] # <<>> /\ scmiAsking[c][1] = msg
  <2>1. scmiCopy[c] \in ScmiMessages /\ scmiFeature[f].cmd \in Commands
    BY <1>1 DEF ScmiInv, ScmiTypeOK
  <2>2. scmiAsking[c] = <<scmiCopy[c]>> /\ scmiCopy[c].feature = f
        /\ scmiFeature[f].cmd = scmiCopy[c].kind /\ scmiFeature[f].cmd \in scmiBound[f]
    BY <1>2 DEF ScmiDuly
  <2>3. <<scmiCopy[c]>> # <<>> /\ <<scmiCopy[c]>>[1] = scmiCopy[c]
    OBVIOUS
  <2> HIDE DEF c
  <2> QED BY <2>1, <2>2, <2>3
<1>4. Answer(msg) \in ScmiAnswers
  BY <1>3 DEF ScmiMessages, Answer, ScmiAnswers
<1>5. /\ scmiReply' = [scmiReply EXCEPT ![f] = Answer(msg)]
      /\ scmiAt' = [scmiAt EXCEPT ![f] = Respond(c, Answer(msg))]
  BY <1>3 DEF ScmiMessageReceive, Answer
<1>6. /\ scmiAt'[f].next = 1 /\ scmiAt'[f].channel = c /\ scmiAt'[f].data = Answer(msg)
      /\ \A r \in Responders : r # f => scmiAt'[r] = scmiAt[r]
      /\ scmiAt' \in [Responders -> [next : 0 .. 4, channel : ScmiChannels \cup {0}, data : ScmiAnswers]]
  <2>1. Respond(c, Answer(msg)) \in [next : 0 .. 4, channel : ScmiChannels \cup {0}, data : ScmiAnswers]
    BY <1>1, <1>4 DEF Respond
  <2> QED BY <1>1, <1>5, <2>1 DEF ScmiInv, ScmiTypeOK, Respond
<1>7. \A d \in ScmiChannels : ScmiDue(f, d) => d = c
  BY DEF ScmiDue
<1> HIDE DEF c, msg
<1>8. PICK d \in ScmiChannels : d = c
  BY <1>1
<1>9. /\ \A r \in Responders, e \in ScmiChannels : r # f => (ScmiResponds(r, e)' <=> ScmiResponds(r, e))
      /\ \A e \in ScmiChannels : ScmiResponds(f, e)' <=> e = d
      /\ \A e \in ScmiChannels : ~ScmiResponds(f, e)
      /\ \A e \in ScmiChannels, g \in ScmiFeatures : g # f => (ScmiDue(g, e)' <=> ScmiDue(g, e))
      /\ \A e \in ScmiChannels : ~ScmiDue(f, e)'
  BY <1>1, <1>6, <1>8 DEF ScmiResponds, ScmiDue, Idle
<1>10. /\ scmiAsking[d] = <<scmiCopy[d]>> /\ scmiCopy[d].feature = f /\ scmiCopy[d].kind \in Commands
       /\ scmiAt'[f].data = Answer(scmiCopy[d])
  BY <1>3, <1>6, <1>8 DEF msg
<1>11. ScmiTypeOK'
  BY <1>1, <1>4, <1>5, <1>6 DEF ScmiInv, ScmiTypeOK
<1>12. ASSUME NEW e \in ScmiChannels PROVE ScmiPending(e)'
  <2>1. ScmiOwned(e)' => ScmiOwned(e)
    BY <1>1, <1>2, <1>8, <1>9 DEF ScmiOwned
  <2> QED BY <1>1, <2>1 DEF ScmiInv, ScmiPending
<1>13. ASSUME NEW e \in ScmiChannels, NEW r \in Responders PROVE ScmiRightly(e, r)'
  <2>1. ScmiRightly(e, r)
    BY DEF ScmiInv
  <2>2. CASE r = f
    BY <1>1, <1>6, <1>9, <1>10, <2>2 DEF ScmiRightly
  <2>3. CASE r # f /\ r # Isr
    BY <1>1, <1>6, <1>9, <2>1, <2>3 DEF ScmiRightly
  <2>4. CASE r = Isr
    <3>1. scmiAt[Isr] = Idle /\ Isr \in Responders
      BY <1>1 DEF ScmiMessageReceive, Runs, Responders
    <3>2. ~ScmiResponds(Isr, e)
      BY <3>1 DEF ScmiResponds, Idle
    <3> QED BY <1>1, <1>9, <2>4, <3>1, <3>2 DEF ScmiRightly
  <2> QED BY <2>2, <2>3, <2>4
<1>14. \A e \in ScmiChannels, g \in ScmiFeatures : ScmiDuly(e, g)'
  BY <1>1, <1>9 DEF ScmiInv, ScmiDuly
<1>15. ScmiMine' /\ \A g \in scmiGiven' : scmiFeature'[g].channel \in ScmiChannels
  BY <1>1 DEF ScmiInv, ScmiMine
<1> QED BY <1>11, <1>12, <1>13, <1>14, <1>15 DEF ScmiInv

(* The agent sends.                                                        *)
LEMMA ScmiSendKeeps ==
  ASSUME ScmiInv, NEW c \in ScmiChannels, AgentSends(c)
  PROVE  ScmiInv'
<1>1. PICK ask \in ScmiAsks[c] :
        /\ scmiMem' = [scmiMem EXCEPT ![c] = [free |-> FALSE, msg |-> Request(ask, 1 - scmiMem[c].msg.token),
                                              data |-> <<>>]]
        /\ scmiAsking' = [scmiAsking EXCEPT ![c] = <<Request(ask, 1 - scmiMem[c].msg.token)>>]
  BY DEF AgentSends
<1>2. /\ scmiMem[c].free /\ scmiIrq' = scmiIrq \cup {c}
      /\ UNCHANGED <<scmiCopy, scmiFeature, scmiGiven, scmiReply, scmiAt, scmiNotice, scmiSeen, scmiBound>>
  BY DEF AgentSends, scmiBinding
<1> DEFINE msg == Request(ask, 1 - scmiMem[c].msg.token)
<1>3. msg \in ScmiMessages /\ msg.kind = ask.kind /\ msg.feature = ask.feature
  <2>1. scmiMem[c].msg.token \in {0, 1}
    BY DEF ScmiInv, ScmiTypeOK, ScmiMessages
  <2> QED BY <2>1, ScmiAssumption DEF Request, ScmiMessages, Responders
<1> HIDE DEF msg
<1>4. /\ ~scmiMem'[c].free /\ scmiMem'[c].msg = msg /\ scmiAsking'[c] = <<msg>>
      /\ \A d \in ScmiChannels : d # c => scmiMem'[d] = scmiMem[d] /\ scmiAsking'[d] = scmiAsking[d]
      /\ scmiMem' \in [ScmiChannels -> [free : BOOLEAN, msg : ScmiMessages, data : ScmiAnswers]]
      /\ scmiAsking' \in [ScmiChannels -> {<<>>} \cup {<<m>> : m \in ScmiMessages}]
  <2>1. /\ scmiMem' = [scmiMem EXCEPT ![c] = [free |-> FALSE, msg |-> msg, data |-> <<>>]]
        /\ scmiAsking' = [scmiAsking EXCEPT ![c] = <<msg>>] /\ <<>> \in ScmiAnswers
    BY <1>1 DEF msg, ScmiAnswers
  <2> QED BY <1>3, <2>1 DEF ScmiInv, ScmiTypeOK
<1>5. \A d \in ScmiChannels : ScmiOwned(d)' <=> ScmiOwned(d)
  BY <1>2 DEF ScmiOwned, ScmiResponds, ScmiDue
<1>6. ~ScmiOwned(c)
  BY <1>2 DEF ScmiInv, ScmiPending
<1>7. ScmiTypeOK'
  BY <1>2, <1>4 DEF ScmiInv, ScmiTypeOK
<1>8. ASSUME NEW d \in ScmiChannels PROVE ScmiPending(d)'
  <2>1. CASE d = c
    BY <1>1, <1>3, <1>4, <1>5, <1>6, <2>1 DEF ScmiPending
  <2>2. CASE d # c
    BY <1>2, <1>4, <1>5, <2>2 DEF ScmiInv, ScmiPending
  <2> QED BY <2>1, <2>2
<1>9. ASSUME NEW d \in ScmiChannels, NEW r \in Responders PROVE ScmiRightly(d, r)'
  <2>1. ScmiRightly(d, r) /\ (ScmiResponds(r, d) => d # c)
    BY <1>6 DEF ScmiInv, ScmiOwned
  <2> QED BY <1>2, <1>4, <2>1 DEF ScmiRightly, ScmiResponds, ScmiDue
<1>10. ASSUME NEW d \in ScmiChannels, NEW f \in ScmiFeatures PROVE ScmiDuly(d, f)'
  <2>1. ScmiDuly(d, f) /\ (ScmiDue(f, d) => d # c)
    BY <1>6 DEF ScmiInv, ScmiOwned
  <2> QED BY <1>2, <1>4, <2>1 DEF ScmiDuly, ScmiDue
<1>11. ScmiMine' /\ \A f \in scmiGiven' : scmiFeature'[f].channel \in ScmiChannels
  BY <1>2, <1>4 DEF ScmiInv, ScmiMine
<1> QED BY <1>7, <1>8, <1>9, <1>10, <1>11 DEF ScmiInv

(* The agent takes an answer.                                              *)
LEMMA ScmiTakeKeeps ==
  ASSUME ScmiInv, NEW c \in ScmiChannels, AgentTakes(c)
  PROVE  ScmiInv'
<1>1. /\ scmiMem[c].free /\ scmiAsking' = [scmiAsking EXCEPT ![c] = <<>>]
      /\ UNCHANGED <<scmiMem, scmiIrq, scmiCopy, scmiFeature, scmiGiven, scmiReply, scmiAt, scmiNotice,
                     scmiSeen, scmiBound>>
  BY DEF AgentTakes, scmiBinding
<1>2. /\ scmiAsking'[c] = <<>> /\ \A d \in ScmiChannels : d # c => scmiAsking'[d] = scmiAsking[d]
      /\ scmiAsking' \in [ScmiChannels -> {<<>>} \cup {<<m>> : m \in ScmiMessages}]
  BY <1>1 DEF ScmiInv, ScmiTypeOK
<1>3. ~ScmiOwned(c) /\ c \notin scmiIrq
  BY <1>1 DEF ScmiInv, ScmiPending
<1>4. ScmiTypeOK'
  BY <1>1, <1>2 DEF ScmiInv, ScmiTypeOK
<1>5. ASSUME NEW d \in ScmiChannels PROVE ScmiPending(d)'
  <2>1. ScmiPending(d) /\ (ScmiOwned(d)' <=> ScmiOwned(d))
    BY <1>1 DEF ScmiInv, ScmiOwned, ScmiResponds, ScmiDue
  <2> QED BY <1>1, <1>2, <1>3, <2>1 DEF ScmiPending
<1>6. ASSUME NEW d \in ScmiChannels, NEW r \in Responders PROVE ScmiRightly(d, r)'
  <2>1. ScmiRightly(d, r) /\ (ScmiResponds(r, d) => d # c)
    BY <1>3 DEF ScmiInv, ScmiOwned
  <2> QED BY <1>1, <1>2, <2>1 DEF ScmiRightly, ScmiResponds, ScmiDue
<1>7. ASSUME NEW d \in ScmiChannels, NEW f \in ScmiFeatures PROVE ScmiDuly(d, f)'
  <2>1. ScmiDuly(d, f) /\ (ScmiDue(f, d) => d # c)
    BY <1>3 DEF ScmiInv, ScmiOwned
  <2> QED BY <1>1, <1>2, <2>1 DEF ScmiDuly, ScmiDue
<1>8. ScmiMine' /\ \A f \in scmiGiven' : scmiFeature'[f].channel \in ScmiChannels
  BY <1>1, <1>2 DEF ScmiInv, ScmiMine
<1> QED BY <1>4, <1>5, <1>6, <1>7, <1>8 DEF ScmiInv

(* A callback is bound, and what leaves the requests alone.                *)
LEMMA ScmiRestKeeps ==
  ASSUME ScmiInv,
         UNCHANGED <<scmiMem, scmiCopy, scmiIrq, scmiFeature, scmiGiven, scmiReply, scmiAt, scmiAsking>>,
         scmiBound' \in [ScmiFeatures -> SUBSET Commands],
         \A f \in ScmiFeatures : scmiBound[f] \subseteq scmiBound'[f],
         \/ UNCHANGED <<scmiNotice, scmiSeen>>
         \/ Transmit /\ UNCHANGED scmiSeen
         \/ ~scmiNotice.free /\ scmiSeen' = scmiNotice.id /\ scmiNotice' = [scmiNotice EXCEPT !.free = TRUE]
  PROVE  ScmiInv'
<1>1. /\ scmiNotice' \in [free : BOOLEAN, id : {0, 1}] /\ scmiSeen' \in {0, 1}
      /\ scmiNotice'.id = (IF scmiNotice'.free THEN scmiSeen' ELSE (scmiSeen' + 1) % 2)
  <2>1. /\ scmiNotice \in [free : BOOLEAN, id : {0, 1}] /\ scmiSeen \in {0, 1}
        /\ scmiNotice.id = (IF scmiNotice.free THEN scmiSeen ELSE (scmiSeen + 1) % 2)
    BY DEF ScmiInv, ScmiTypeOK, ScmiMine
  <2>2. (0 + 1) % 2 = 1 /\ (1 + 1) % 2 = 0
    OBVIOUS
  <2>3. CASE UNCHANGED <<scmiNotice, scmiSeen>>
    BY <2>1, <2>3
  <2>4. CASE Transmit /\ UNCHANGED scmiSeen
    <3>1. scmiNotice.id = scmiSeen /\ scmiSeen' = scmiSeen
          /\ scmiNotice' = [free |-> FALSE, id |-> (scmiSeen + 1) % 2]
      BY <2>1, <2>4 DEF Transmit
    <3>2. (scmiSeen + 1) % 2 \in {0, 1}
      BY <2>1, <2>2
    <3> QED BY <2>1, <3>1, <3>2
  <2>5. CASE ~scmiNotice.free /\ scmiSeen' = scmiNotice.id /\ scmiNotice' = [scmiNotice EXCEPT !.free = TRUE]
    BY <2>1, <2>5
  <2> QED BY <2>3, <2>4, <2>5
<1>2. ScmiTypeOK'
  BY <1>1 DEF ScmiInv, ScmiTypeOK
<1>3. \A d \in ScmiChannels : ScmiPending(d)'
  BY DEF ScmiInv, ScmiPending, ScmiOwned, ScmiResponds, ScmiDue
<1>4. \A d \in ScmiChannels, r \in Responders : ScmiRightly(d, r)'
  BY DEF ScmiInv, ScmiRightly, ScmiResponds, ScmiDue
<1>5. \A d \in ScmiChannels, f \in ScmiFeatures : ScmiDuly(d, f)'
  BY DEF ScmiInv, ScmiDuly, ScmiDue
<1>6. ScmiMine' /\ \A f \in scmiGiven' : scmiFeature'[f].channel \in ScmiChannels
  BY <1>1 DEF ScmiInv, ScmiMine
<1> QED BY <1>2, <1>3, <1>4, <1>5, <1>6 DEF ScmiInv

(* Requests and answers go together in every reachable state.              *)
THEOREM ScmiInductive == ScmiSpec => []ScmiInv
<1>1. ScmiInit => ScmiInv
  <2> SUFFICES ASSUME ScmiInit PROVE ScmiInv
    OBVIOUS
  <2>1. Unasked \in ScmiMessages /\ Idle \in [next : 0 .. 4, channel : ScmiChannels \cup {0}, data : ScmiAnswers]
        /\ <<>> \in ScmiAnswers /\ "set" \in Commands
    BY DEF Unasked, ScmiMessages, Kinds, Commands, Responders, Idle, ScmiAnswers
  <2>2. ScmiTypeOK
    BY <2>1 DEF ScmiInit, ScmiTypeOK
  <2>3. \A c \in ScmiChannels, r \in Responders : ~ScmiResponds(r, c)
    BY DEF ScmiInit, ScmiResponds, Idle
  <2>4. \A c \in ScmiChannels, f \in ScmiFeatures : ~ScmiDue(f, c)
    BY DEF ScmiInit, ScmiDue
  <2>5. ScmiMine
    BY DEF ScmiInit, ScmiMine
  <2> QED BY <2>2, <2>3, <2>4, <2>5 DEF ScmiInit, ScmiInv, ScmiPending, ScmiOwned, ScmiRightly, ScmiDuly
<1>2. ScmiInv /\ [ScmiNext]_scmiVars => ScmiInv'
  <2> SUFFICES ASSUME ScmiInv, [ScmiNext]_scmiVars PROVE ScmiInv'
    OBVIOUS
  <2>0. scmiBound' = scmiBound =>
          /\ scmiBound' \in [ScmiFeatures -> SUBSET Commands]
          /\ \A f \in ScmiFeatures : scmiBound[f] \subseteq scmiBound'[f]
    BY DEF ScmiInv, ScmiTypeOK
  <2>1. CASE UNCHANGED scmiVars
    BY <2>0, <2>1, ScmiRestKeeps DEF scmiVars, scmiAgent, scmiBinding
  <2>2. CASE \E r \in Responders : ScmiRespond(r)
    BY <2>2, ScmiRespondKeeps
  <2>3. ASSUME NEW c \in ScmiChannels, ScmiMessageHandler(c) PROVE ScmiInv'
    <3>1. /\ scmiAt[Isr] = Idle /\ c \in scmiIrq /\ scmiIrq' = scmiIrq \ {c}
          /\ UNCHANGED <<scmiMem, scmiReply, scmiNotice, scmiSeen, scmiAsking, scmiBound>>
      BY <2>3 DEF ScmiMessageHandler, scmiAgent
    <3>2. CASE scmiLocked[c] \/ scmiMem[c].free
      BY <2>3, <3>1, <3>2, ScmiDropKeeps DEF ScmiMessageHandler
    <3>3. CASE ~(scmiLocked[c] \/ scmiMem[c].free)
      <4>1. scmiCopy' = [scmiCopy EXCEPT ![c] = scmiMem[c].msg]
        BY <2>3, <3>3 DEF ScmiMessageHandler
      <4>2. CASE scmiMem[c].msg.kind = "query"
        BY <2>3, <3>1, <3>3, <4>1, <4>2, ScmiIsrKeeps DEF ScmiMessageHandler, ScmiBaseMessageHandler
      <4>3. CASE scmiMem[c].msg.kind # "query" /\ scmiMem[c].msg.kind \in Commands
                 /\ scmiMem[c].msg.kind \in scmiBound[scmiMem[c].msg.feature]
        BY <2>3, <3>1, <3>3, <4>1, <4>3, ScmiCallbackKeeps DEF ScmiMessageHandler
      <4>4. CASE ~(scmiMem[c].msg.kind = "query") /\ ~(scmiMem[c].msg.kind \in Commands
                 /\ scmiMem[c].msg.kind \in scmiBound[scmiMem[c].msg.feature])
        <5>1. IsrAnswers(c, scmiMem[c].msg)
          BY <2>3, <3>3, <4>4 DEF ScmiMessageHandler
        <5>2. /\ scmiAt' = [scmiAt EXCEPT ![Isr] = Respond(c, Answer(scmiMem[c].msg))]
              /\ scmiGiven' = scmiGiven
          BY <5>1 DEF IsrAnswers
        <5>3. \/ scmiFeature' = scmiFeature
              \/ \E f \in ScmiFeatures, on \in BOOLEAN : scmiFeature' = [scmiFeature EXCEPT ![f].notify = on]
          <6>1. scmiAsking[c] = <<scmiMem[c].msg>>
            BY <3>1 DEF ScmiInv, ScmiPending
          <6>2. PICK ask \in ScmiAsks[c] : ask.feature = scmiMem[c].msg.feature
            BY <6>1 DEF ScmiInv, ScmiPending
          <6>3. scmiMem[c].msg.feature \in ScmiFeatures
            BY <6>2, ScmiAssumption
          <6> QED BY <5>1, <6>3 DEF IsrAnswers
        <5> QED BY <3>1, <4>1, <5>2, <5>3, ScmiIsrKeeps
      <4> QED BY <4>2, <4>3, <4>4
    <3> QED BY <3>2, <3>3
  <2>4. CASE \E c \in ScmiChannels : AgentSends(c)
    BY <2>4, ScmiSendKeeps
  <2>5. CASE \E c \in ScmiChannels : AgentTakes(c)
    BY <2>5, ScmiTakeKeeps
  <2>6. CASE AgentTakesNotice
    BY <2>0, <2>6, ScmiRestKeeps DEF AgentTakesNotice, scmiBinding
  <2>7. CASE \E f \in ScmiFeatures : ScmiMessageReceive(f)
    BY <2>7, ScmiReceiveKeeps
  <2>8. CASE \E f \in ScmiFeatures : ScmiBindCreate(f)
    BY <2>0, <2>8, ScmiRestKeeps DEF ScmiBindCreate, scmiAgent
  <2>9. CASE \E f \in ScmiFeatures : EventNotifier(f)
    BY <2>0, <2>9, ScmiRestKeeps DEF EventNotifier, scmiAgent, scmiBinding
  <2>10. ASSUME NEW f \in ScmiFeatures, NEW cmd \in Commands, ScmiBind(f, cmd) PROVE ScmiInv'
    <3>1. /\ scmiBound' \in [ScmiFeatures -> SUBSET Commands]
          /\ \A g \in ScmiFeatures : scmiBound[g] \subseteq scmiBound'[g]
      BY <2>10 DEF ScmiBind, ScmiInv, ScmiTypeOK
    <3> QED BY <2>10, <3>1, ScmiRestKeeps DEF ScmiBind, scmiAgent
  <2> QED BY <2>1, <2>2, <2>3, <2>4, <2>5, <2>6, <2>7, <2>8, <2>9, <2>10 DEF ScmiNext
<1> QED BY <1>1, <1>2, PTL DEF ScmiSpec

(* The agent gets back the answer to what it asked, and no notification is *)
(* lost.                                                                   *)
THEOREM ScmiMineHolds == ScmiSpec => []ScmiMine
<1>1. ScmiInv => ScmiMine
  BY DEF ScmiInv
<1> QED BY <1>1, ScmiInductive, PTL
---------------------------------------------------------------------------
(***************************************************************************)
(* TimeSync: a reader that has seen one version in both high words has     *)
(* read one base.                                                          *)
(***************************************************************************)
Bases == [cyc : Int, ns : Int, freeze : BOOLEAN]
InCall == {"check", "enter", "TICK_H", "TICK_L", "TS_L", "TS_H", "use"}
Goings == [step : InCall, clk : Int, ap : Int, ver : Int, freeze : BOOLEAN]
Reading == {"TICK_H", "TICK_L", "TS_L", "TS_H"}

Types ==
  /\ timeNow \in Int /\ timeAp \in Int
  /\ timeWritten \in Seq(Bases)
  /\ timeMbox \in [Words -> Nat \ {0}]
  /\ timeCd \in [cyc : Int, ns : Int, freeze : BOOLEAN, raw : Int]
  /\ DOMAIN timeAt = Readers
  /\ \A r \in Readers : timeAt[r].step \in InCall => timeAt[r] \in Goings

(* The AP writes the words in the reverse order of a reader, so that a     *)
(* word which is read later never is of an older base.                     *)
Behind ==
  /\ timeMbox["TICK_H"] <= timeMbox["TICK_L"]
  /\ timeMbox["TICK_L"] <= timeMbox["TS_L"]
  /\ timeMbox["TS_L"] <= timeMbox["TS_H"]
  /\ timeMbox["TS_H"] = Len(timeWritten)

(* Who reads words into cd is alone with it.                               *)
Alone == \A r \in Readers : timeAt[r].step \in Reading => timeCritical = <<r>>

(* What a reader has of its words: they come from bases that follow one    *)
(* another, up to those that the mailbox holds now.                        *)
HasTick(r) ==
  /\ timeAt[r].ver \in DOMAIN timeWritten
  /\ timeAt[r].ver <= timeMbox["TICK_L"]
  /\ timeAt[r].freeze = timeWritten[timeAt[r].ver].freeze
CycFrom(r, m) ==
  /\ m \in DOMAIN timeWritten /\ timeAt[r].ver <= m
  /\ timeCd.cyc = timeWritten[m].cyc
NsFrom(n) == n \in DOMAIN timeWritten /\ timeCd.ns = timeWritten[n].ns
Halfway ==
  \A r \in Readers :
    /\ timeAt[r].step \in {"TICK_L", "TS_L", "TS_H"} => HasTick(r)
    /\ timeAt[r].step = "TS_L" =>
          \E m \in Nat : CycFrom(r, m) /\ m <= timeMbox["TS_L"]
    /\ timeAt[r].step = "TS_H" =>
          \E m, n \in Nat : CycFrom(r, m) /\ NsFrom(n) /\ m <= n /\ n <= timeMbox["TS_H"]

TimeInv == Types /\ Behind /\ Alone /\ Halfway

(* The words, one by one.                                                  *)
LEMMA TheWords ==
  /\ Words = {"TS_H", "TS_L", "TICK_L", "TICK_H"}
  /\ DOMAIN WriteOrder = 1..4 /\ Len(WriteOrder) = 4
  /\ WriteOrder[1] = "TS_H" /\ WriteOrder[2] = "TS_L"
  /\ WriteOrder[3] = "TICK_L" /\ WriteOrder[4] = "TICK_H"
<1>1. /\ DOMAIN WriteOrder = 1..4 /\ Len(WriteOrder) = 4
      /\ WriteOrder[1] = "TS_H" /\ WriteOrder[2] = "TS_L"
      /\ WriteOrder[3] = "TICK_L" /\ WriteOrder[4] = "TICK_H"
  BY DEF WriteOrder
<1>2. Words = {WriteOrder[i] : i \in 1..4}
  BY <1>1 DEF Words, ToSet
<1> QED BY <1>1, <1>2

(* A base that the mailbox has is one that was written.                    *)
LEMMA BaseWritten ==
  ASSUME TimeInv, NEW word \in Words
  PROVE  /\ timeMbox[word] \in Nat /\ timeMbox[word] \in DOMAIN timeWritten
         /\ Base(word) \in Bases /\ Base(word) = timeWritten[timeMbox[word]]
<1>1. timeMbox[word] \in 1..Len(timeWritten)
  BY TheWords DEF TimeInv, Types, Behind
<1>2. Len(timeWritten) \in Nat /\ DOMAIN timeWritten = 1..Len(timeWritten)
  BY DEF TimeInv, Types
<1> QED BY <1>1, <1>2 DEF TimeInv, Types, Base

(* The AP only adds bases and only moves words on, which takes nothing     *)
(* from what a reader has.                                                 *)
LEMMA ApGoesOn ==
  ASSUME TimeInv, UNCHANGED <<timeCd, timeAt, timeCritical>>,
         \A i \in DOMAIN timeWritten :
             i \in DOMAIN timeWritten' /\ timeWritten'[i] = timeWritten[i],
         \A w \in Words : timeMbox[w] <= timeMbox'[w],
         timeMbox' \in [Words -> Nat \ {0}]
  PROVE  Alone' /\ Halfway'
<1>1. Alone'
  BY DEF TimeInv, Alone
<1>2. ASSUME NEW r \in Readers, HasTick(r) PROVE HasTick(r)'
  <2>1. timeAt[r].ver \in Nat
    BY <1>2 DEF HasTick, TimeInv, Types
  <2>2. timeMbox["TICK_L"] <= timeMbox["TICK_L"]'
    BY TheWords
  <2>3. timeMbox["TICK_L"] \in Nat /\ timeMbox["TICK_L"]' \in Nat
    BY TheWords DEF TimeInv, Types
  <2> QED BY <1>2, <2>1, <2>2, <2>3 DEF HasTick
<1>3. ASSUME NEW r \in Readers, NEW m \in Nat, CycFrom(r, m) PROVE CycFrom(r, m)'
  BY <1>3 DEF CycFrom
<1>4. ASSUME NEW n \in Nat, NsFrom(n) PROVE NsFrom(n)'
  BY <1>4 DEF NsFrom
<1>5. ASSUME NEW m \in Nat, NEW w \in Words, m <= timeMbox[w] PROVE m <= timeMbox[w]'
  <2>1. timeMbox[w] \in Nat /\ timeMbox[w]' \in Nat
    BY DEF TimeInv, Types
  <2> QED BY <1>5, <2>1
<1>6. Halfway'
  <2> SUFFICES ASSUME NEW r \in Readers
               PROVE  /\ timeAt[r].step \in {"TICK_L", "TS_L", "TS_H"} => HasTick(r)'
                      /\ timeAt[r].step = "TS_L" =>
                            \E m \in Nat : CycFrom(r, m)' /\ m <= timeMbox["TS_L"]'
                      /\ timeAt[r].step = "TS_H" =>
                            \E m, n \in Nat : /\ CycFrom(r, m)' /\ NsFrom(n)'
                                              /\ m <= n /\ n <= timeMbox["TS_H"]'
    BY DEF Halfway
  <2>1. timeAt[r].step \in {"TICK_L", "TS_L", "TS_H"} => HasTick(r)'
    BY <1>2 DEF TimeInv, Halfway
  <2>2. ASSUME timeAt[r].step = "TS_L"
        PROVE  \E m \in Nat : CycFrom(r, m)' /\ m <= timeMbox["TS_L"]'
    <3> PICK m \in Nat : CycFrom(r, m) /\ m <= timeMbox["TS_L"]
      BY <2>2 DEF TimeInv, Halfway
    <3> QED BY <1>3, <1>5, TheWords
  <2>3. ASSUME timeAt[r].step = "TS_H"
        PROVE  \E m, n \in Nat : /\ CycFrom(r, m)' /\ NsFrom(n)'
                                 /\ m <= n /\ n <= timeMbox["TS_H"]'
    <3> PICK m \in Nat, n \in Nat : CycFrom(r, m) /\ NsFrom(n) /\ m <= n /\ n <= timeMbox["TS_H"]
      BY <2>3 DEF TimeInv, Halfway
    <3> QED BY <1>3, <1>4, <1>5, TheWords
  <2> QED BY <2>1, <2>2, <2>3
<1> QED BY <1>1, <1>6

(* Every step of the AP.                                                   *)
LEMMA ApSteps ==
  ASSUME TimeInv, Tick \/ ApStarts \/ \E i \in 2..Len(WriteOrder) : ApWrites(i)
  PROVE  TimeInv'
<1>1. CASE Tick
  <2>1. Types' /\ Behind'
    BY <1>1 DEF Tick, TimeInv, Types, Behind
  <2>2. Alone' /\ Halfway'
    BY <1>1, ApGoesOn DEF Tick, TimeInv, Types
  <2> QED BY <2>1, <2>2 DEF TimeInv
<1>2. CASE ApStarts
  <2> PICK freeze \in BOOLEAN :
        timeWritten' = Append(timeWritten, [cyc |-> timeNow, ns |-> timeAp, freeze |-> freeze])
    <3>1. Suspended \in BOOLEAN
      BY DEF Suspended, Complete, Last
    <3> QED BY <1>2, <3>1 DEF ApStarts
  <2> DEFINE base == [cyc |-> timeNow, ns |-> timeAp, freeze |-> freeze]
  <2>1. base \in Bases
    BY DEF Bases, TimeInv, Types
  <2>2. timeWritten \in Seq(Bases)
    BY DEF TimeInv, Types
  <2> HIDE DEF base
  <2>3. timeWritten' = Append(timeWritten, base)
    BY DEF base
  <2>4. /\ timeWritten' \in Seq(Bases) /\ Len(timeWritten') = Len(timeWritten) + 1
        /\ \A i \in DOMAIN timeWritten :
              i \in DOMAIN timeWritten' /\ timeWritten'[i] = timeWritten[i]
    BY <2>1, <2>2, <2>3
  <2>5. timeMbox' = [timeMbox EXCEPT !["TS_H"] = Len(timeWritten')]
    BY <1>2 DEF ApStarts
  <2>6. timeMbox["TS_H"] = Len(timeWritten) /\ Len(timeWritten) \in Nat
    BY <2>2 DEF TimeInv, Behind
  <2>7. /\ timeMbox' \in [Words -> Nat \ {0}]
        /\ \A w \in Words : timeMbox[w] <= timeMbox'[w]
        /\ Behind'
    BY <2>4, <2>5, <2>6, TheWords DEF TimeInv, Types, Behind
  <2>8. UNCHANGED <<timeNow, timeAp, timeCd, timeAt, timeCritical>>
    BY <1>2 DEF ApStarts
  <2>9. Types'
    BY <2>4, <2>7, <2>8 DEF TimeInv, Types
  <2> QED BY <2>4, <2>7, <2>8, <2>9, ApGoesOn DEF TimeInv
<1>3. ASSUME NEW i \in 2..Len(WriteOrder), ApWrites(i) PROVE TimeInv'
  <2>1. UNCHANGED <<timeNow, timeAp, timeWritten, timeCd, timeAt, timeCritical>>
    BY <1>3 DEF ApWrites
  <2>2. i \in {2, 3, 4}
    BY TheWords
  <2>3. /\ timeMbox' \in [Words -> Nat \ {0}]
        /\ \A w \in Words : timeMbox[w] <= timeMbox'[w]
        /\ Behind'
    <3>1. /\ timeMbox \in [Words -> Nat \ {0}]
          /\ timeMbox[WriteOrder[i]] < timeMbox[WriteOrder[i - 1]]
          /\ timeMbox' = [timeMbox EXCEPT ![WriteOrder[i]] = timeMbox[WriteOrder[i]] + 1]
      BY <1>3 DEF ApWrites, TimeInv, Types
    <3>2. CASE i = 2
      <4>1. WriteOrder[i] = "TS_L" /\ WriteOrder[i - 1] = "TS_H"
        BY <3>2, TheWords
      <4> QED BY <2>1, <3>1, <4>1, TheWords DEF TimeInv, Behind
    <3>3. CASE i = 3
      <4>1. WriteOrder[i] = "TICK_L" /\ WriteOrder[i - 1] = "TS_L"
        BY <3>3, TheWords
      <4> QED BY <2>1, <3>1, <4>1, TheWords DEF TimeInv, Behind
    <3>4. CASE i = 4
      <4>1. WriteOrder[i] = "TICK_H" /\ WriteOrder[i - 1] = "TICK_L"
        BY <3>4, TheWords
      <4> QED BY <2>1, <3>1, <4>1, TheWords DEF TimeInv, Behind
    <3> QED BY <2>2, <3>2, <3>3, <3>4
  <2>4. Types'
    BY <2>1, <2>3 DEF TimeInv, Types
  <2> QED BY <2>1, <2>3, <2>4, ApGoesOn DEF TimeInv
<1> QED BY <1>1, <1>2, <1>3

(* Nobody goes on while another one reads words into cd.                   *)
LEMMA OthersOut ==
  ASSUME TimeInv, NEW r \in Readers, NEW from, Step(r, from),
         NEW q \in Readers, q # r
  PROVE  timeAt[q].step \notin Reading
<1>1. <<q>> # <<>> /\ <<q>>[1] = q /\ <<r>>[1] = r
  OBVIOUS
<1>2. timeCritical = <<>> \/ timeCritical = <<r>>
  BY DEF Step, Nobody
<1>3. timeCritical # <<q>>
  BY <1>1, <1>2
<1> QED BY <1>3 DEF TimeInv, Alone

(* A step of a reader keeps the invariant when it does for that reader.    *)
LEMMA ReaderGoesOn ==
  ASSUME TimeInv, NEW r \in Readers, NEW from, Step(r, from),
         UNCHANGED timeShared, NEW now, timeAt' = [timeAt EXCEPT ![r] = now],
         timeCd' \in [cyc : Int, ns : Int, freeze : BOOLEAN, raw : Int],
         now.step \in InCall => now \in Goings,
         now.step \in Reading => timeCritical' = <<r>>,
         now.step \in {"TICK_L", "TS_L", "TS_H"} => HasTick(r)',
         now.step = "TS_L" => \E m \in Nat : CycFrom(r, m)' /\ m <= timeMbox["TS_L"]',
         now.step = "TS_H" => \E m, n \in Nat : /\ CycFrom(r, m)' /\ NsFrom(n)'
                                              /\ m <= n /\ n <= timeMbox["TS_H"]'
  PROVE  TimeInv'
<1>1. DOMAIN timeAt = Readers /\ timeAt'[r] = now /\ DOMAIN timeAt' = Readers
  BY DEF TimeInv, Types
<1>2. \A q \in Readers : q # r => timeAt'[q] = timeAt[q] /\ timeAt[q].step \notin Reading
  BY <1>1, OthersOut
<1>3. Types'
  BY <1>1, <1>2 DEF timeShared, TimeInv, Types
<1>4. Behind'
  BY DEF timeShared, TimeInv, Behind
<1>5. Alone'
  BY <1>1, <1>2 DEF Alone
<1>6. Halfway'
  BY <1>1, <1>2 DEF Halfway, Reading
<1> QED BY <1>3, <1>4, <1>5, <1>6 DEF TimeInv

(* The steps before and after the reads.                                   *)
LEMMA OuterSteps ==
  ASSUME TimeInv, NEW r \in Readers,
         ReadTimer(r) \/ NeedUpdate(r) \/ Enter(r) \/ Use(r) \/ Return(r)
  PROVE  TimeInv'
<1>1. UNCHANGED timeShared /\ UNCHANGED timeCd
  BY DEF ReadTimer, NeedUpdate, Enter, Use, Return
<1>2. timeCd' \in [cyc : Int, ns : Int, freeze : BOOLEAN, raw : Int]
  BY <1>1 DEF TimeInv, Types
<1>3. CASE ReadTimer(r)
  <2> DEFINE now == [step |-> "check", clk |-> timeNow, ap |-> timeAp, ver |-> 0, freeze |-> FALSE]
  <2>1. now \in Goings
    BY DEF Goings, InCall, TimeInv, Types
  <2>2. now.step = "check"
    OBVIOUS
  <2>3. Step(r, "away") /\ timeAt' = [timeAt EXCEPT ![r] = now]
    BY <1>3 DEF ReadTimer
  <2> HIDE DEF now
  <2> QED BY <1>1, <1>2, <2>1, <2>2, <2>3, ReaderGoesOn DEF Reading
<1>4. CASE NeedUpdate(r)
  <2> DEFINE to == IF timeMbox["TS_H"] # timeCd.raw THEN "enter" ELSE "use"
             now == [timeAt[r] EXCEPT !.step = to]
  <2>1. Step(r, "check") /\ Goes(r, to)
    BY <1>4 DEF NeedUpdate
  <2>2. timeAt[r] \in Goings
    BY <2>1 DEF Step, InCall, TimeInv, Types
  <2>3. now \in Goings /\ now.step = to /\ to \in {"enter", "use"}
    BY <2>2 DEF Goings, InCall
  <2>4. timeAt' = [timeAt EXCEPT ![r] = now]
    BY <2>1 DEF Goes
  <2> HIDE DEF now, to
  <2> QED BY <1>1, <1>2, <2>1, <2>3, <2>4, ReaderGoesOn DEF Reading
<1>5. CASE Enter(r)
  <2> DEFINE now == [timeAt[r] EXCEPT !.step = "TICK_H"]
  <2>1. Step(r, "enter") /\ Goes(r, "TICK_H") /\ timeCritical' = <<r>>
    BY <1>5 DEF Enter
  <2>2. timeAt[r] \in Goings
    BY <2>1 DEF Step, InCall, TimeInv, Types
  <2>3. now \in Goings /\ now.step = "TICK_H"
    BY <2>2 DEF Goings, InCall
  <2>4. timeAt' = [timeAt EXCEPT ![r] = now]
    BY <2>1 DEF Goes
  <2> HIDE DEF now
  <2> QED BY <1>1, <1>2, <2>1, <2>3, <2>4, ReaderGoesOn
<1>6. CASE Use(r)
  <2> DEFINE ts == IF timeCd.freeze THEN timeCd.ns
                   ELSE timeCd.ns + CycToNs(timeAt[r].clk - timeCd.cyc)
             now == [step |-> "told", ap |-> timeAt[r].ap, insuspend |-> timeCd.freeze, ts |-> ts]
  <2>1. Step(r, "use") /\ timeAt' = [timeAt EXCEPT ![r] = now]
    BY <1>6 DEF Use
  <2>2. now.step = "told"
    OBVIOUS
  <2> HIDE DEF now
  <2> QED BY <1>1, <1>2, <2>1, <2>2, ReaderGoesOn DEF Reading, InCall
<1>7. CASE Return(r)
  <2>1. Step(r, "told") /\ timeAt' = [timeAt EXCEPT ![r] = Away] /\ Away.step = "away"
    BY <1>7 DEF Return, Away
  <2> QED BY <1>1, <1>2, <2>1, ReaderGoesOn DEF Reading, InCall
<1> QED BY <1>3, <1>4, <1>5, <1>6, <1>7

(* Each read takes a base that is not older than the one before.           *)
LEMMA ReadSteps ==
  ASSUME TimeInv, NEW r \in Readers,
         ReadTickH(r) \/ ReadTickL(r) \/ ReadTsL(r)
  PROVE  TimeInv'
<1>1. UNCHANGED timeShared /\ UNCHANGED timeCritical
  BY DEF ReadTickH, ReadTickL, ReadTsL
<1>2. timeAt[r].step \in Reading => timeAt[r] \in Goings /\ timeCritical = <<r>>
  BY DEF Reading, InCall, TimeInv, Types, Alone
<1>3. /\ timeCd \in [cyc : Int, ns : Int, freeze : BOOLEAN, raw : Int]
      /\ DOMAIN timeAt = Readers
  BY DEF TimeInv, Types
<1>4. timeWritten' = timeWritten /\ timeMbox' = timeMbox
  BY <1>1 DEF timeShared
<1>5. CASE ReadTickH(r)
  <2> DEFINE ver == timeMbox["TICK_H"]
             freeze == Base("TICK_H").freeze
             now == [timeAt[r] EXCEPT !.step = "TICK_L", !.ver = ver, !.freeze = freeze]
  <2>1. /\ ver \in Nat /\ ver \in DOMAIN timeWritten /\ ver <= timeMbox["TICK_L"]
        /\ freeze \in BOOLEAN /\ freeze = timeWritten[ver].freeze
    BY BaseWritten, TheWords DEF TimeInv, Behind, Bases
  <2>2. Step(r, "TICK_H") /\ timeCd' = timeCd /\ timeAt' = [timeAt EXCEPT ![r] = now]
    BY <1>5 DEF ReadTickH
  <2> HIDE DEF ver, freeze
  <2>3. timeAt[r] \in Goings /\ timeCritical' = <<r>>
    BY <1>1, <1>2, <2>2 DEF Step, Reading
  <2>4. now \in Goings /\ now.step = "TICK_L" /\ now.ver = ver /\ now.freeze = freeze
    <3>1. ver \in Int /\ freeze \in BOOLEAN
      BY <2>1
    <3>2. now \in Goings
      BY <2>3, <3>1 DEF Goings, InCall
    <3>3. now.step = "TICK_L" /\ now.ver = ver
      BY <2>3, <3>1 DEF Goings, InCall
    <3>4. now.freeze = freeze
      BY <2>3, <3>1 DEF Goings, InCall
    <3> HIDE DEF now
    <3> QED BY <3>2, <3>3, <3>4
  <2> HIDE DEF now
  <2>5. timeAt'[r] = now
    BY <1>3, <2>2
  <2>6. HasTick(r)'
    BY <1>4, <2>1, <2>4, <2>5 DEF HasTick
  <2> QED BY <1>1, <1>3, <2>2, <2>3, <2>4, <2>6, ReaderGoesOn
<1>6. CASE ReadTickL(r)
  <2> DEFINE m == timeMbox["TICK_L"]
             cyc == Base("TICK_L").cyc
             now == [timeAt[r] EXCEPT !.step = "TS_L"]
  <2>1. /\ m \in Nat /\ m \in DOMAIN timeWritten /\ m <= timeMbox["TS_L"]
        /\ cyc \in Int /\ cyc = timeWritten[m].cyc
    BY BaseWritten, TheWords DEF TimeInv, Behind, Bases
  <2>2. /\ Step(r, "TICK_L") /\ timeCd' = [timeCd EXCEPT !.cyc = cyc]
        /\ timeAt' = [timeAt EXCEPT ![r] = now]
    BY <1>6 DEF ReadTickL, Goes
  <2>3. HasTick(r) /\ timeAt[r].ver <= m
    BY <2>2 DEF Step, HasTick, TimeInv, Halfway
  <2> HIDE DEF m, cyc
  <2>4. timeAt[r] \in Goings /\ timeCritical' = <<r>>
    BY <1>1, <1>2, <2>2 DEF Step, Reading
  <2>5. /\ now \in Goings /\ now.step = "TS_L"
        /\ now.ver = timeAt[r].ver /\ now.freeze = timeAt[r].freeze
    BY <2>4 DEF Goings, InCall
  <2> HIDE DEF now
  <2>6. timeAt'[r] = now
    BY <1>3, <2>2
  <2>7. HasTick(r)'
    BY <1>4, <2>3, <2>5, <2>6 DEF HasTick
  <2>8. timeCd' \in [cyc : Int, ns : Int, freeze : BOOLEAN, raw : Int] /\ timeCd'.cyc = cyc
    BY <1>3, <2>1, <2>2
  <2>9. CycFrom(r, m)' /\ m <= timeMbox["TS_L"]'
    <3>1. m' = m
      BY <1>4 DEF m
    <3> QED BY <1>4, <2>1, <2>3, <2>5, <2>6, <2>8, <3>1 DEF CycFrom
  <2>10. \E k \in Nat : CycFrom(r, k)' /\ k <= timeMbox["TS_L"]'
    <3>1. m' = m
      BY <1>4 DEF m
    <3> QED BY <2>1, <2>9, <3>1
  <2> QED BY <1>1, <2>2, <2>4, <2>5, <2>7, <2>8, <2>10, ReaderGoesOn
<1>7. CASE ReadTsL(r)
  <2> PICK m \in Nat : CycFrom(r, m) /\ m <= timeMbox["TS_L"]
    BY <1>7 DEF ReadTsL, Step, TimeInv, Halfway
  <2> DEFINE n == timeMbox["TS_L"]
             ns == Base("TS_L").ns
             now == [timeAt[r] EXCEPT !.step = "TS_H"]
  <2>1. /\ n \in Nat /\ n \in DOMAIN timeWritten /\ m <= n /\ n <= timeMbox["TS_H"]
        /\ ns \in Int /\ ns = timeWritten[n].ns
    BY BaseWritten, TheWords DEF TimeInv, Behind, Bases
  <2>2. /\ Step(r, "TS_L") /\ timeCd' = [timeCd EXCEPT !.ns = ns]
        /\ timeAt' = [timeAt EXCEPT ![r] = now]
    BY <1>7 DEF ReadTsL, Goes
  <2>3. HasTick(r)
    BY <2>2 DEF Step, TimeInv, Halfway
  <2>n. n' = n
    BY <1>4
  <2> HIDE DEF n, ns
  <2>4. timeAt[r] \in Goings /\ timeCritical' = <<r>>
    BY <1>1, <1>2, <2>2 DEF Step, Reading
  <2>5. /\ now \in Goings /\ now.step = "TS_H"
        /\ now.ver = timeAt[r].ver /\ now.freeze = timeAt[r].freeze
    BY <2>4 DEF Goings, InCall
  <2> HIDE DEF now
  <2>6. timeAt'[r] = now
    BY <1>3, <2>2
  <2>7. HasTick(r)'
    BY <1>4, <2>3, <2>5, <2>6 DEF HasTick
  <2>8. /\ timeCd' \in [cyc : Int, ns : Int, freeze : BOOLEAN, raw : Int]
        /\ timeCd'.ns = ns /\ timeCd'.cyc = timeCd.cyc
    BY <1>3, <2>1, <2>2
  <2>9. CycFrom(r, m)' /\ NsFrom(n)' /\ m <= n /\ n <= timeMbox["TS_H"]'
    BY <1>4, <2>1, <2>n, <2>5, <2>6, <2>8 DEF CycFrom, NsFrom
  <2>10. \E k, l \in Nat : /\ CycFrom(r, k)' /\ NsFrom(l)'
                           /\ k <= l /\ l <= timeMbox["TS_H"]'
    BY <2>1, <2>n, <2>9
  <2> QED BY <1>1, <2>2, <2>4, <2>5, <2>7, <2>8, <2>10, ReaderGoesOn
<1> QED BY <1>5, <1>6, <1>7

(* The last read ends the call or starts it again.                         *)
LEMMA LastStep ==
  ASSUME TimeInv, NEW r \in Readers, ReadTsH(r)
  PROVE  TimeInv'
<1> DEFINE to == IF OneVersion(r) THEN "use" ELSE "enter"
           freeze == IF OneVersion(r) THEN timeAt[r].freeze ELSE timeCd.freeze
           now == [timeAt[r] EXCEPT !.step = to]
<1>1. /\ Step(r, "TS_H") /\ UNCHANGED timeShared
      /\ timeAt' = [timeAt EXCEPT ![r] = now]
      /\ timeCd' = [timeCd EXCEPT !.raw = timeMbox["TS_H"], !.freeze = freeze]
  BY DEF ReadTsH, Goes
<1>2. timeAt[r] \in Goings
  BY <1>1 DEF Step, InCall, TimeInv, Types
<1>3. to \in {"use", "enter"}
  OBVIOUS
<1> HIDE DEF to
<1>4. now \in Goings /\ now.step = to
  BY <1>2, <1>3 DEF Goings, InCall
<1>5. timeCd' \in [cyc : Int, ns : Int, freeze : BOOLEAN, raw : Int]
  <2>1. freeze \in BOOLEAN /\ timeMbox["TS_H"] \in Int
    BY <1>2, TheWords DEF Goings, TimeInv, Types
  <2> HIDE DEF freeze
  <2> QED BY <1>1, <2>1 DEF TimeInv, Types
<1> HIDE DEF now, freeze
<1> QED BY <1>1, <1>3, <1>4, <1>5, ReaderGoesOn DEF Reading

(* The readers and the AP, together.                                       *)
THEOREM TimeInvariant == TimeSpec => []TimeInv
<1>1. TimeInit => TimeInv
  <2> SUFFICES ASSUME TimeInit PROVE TimeInv
    OBVIOUS
  <2> DEFINE base == [cyc |-> 0, ns |-> 0, freeze |-> FALSE]
  <2>1. base \in Bases /\ timeWritten = <<base>>
    BY DEF TimeInit, Bases
  <2> HIDE DEF base
  <2>2. timeWritten \in Seq(Bases) /\ Len(timeWritten) = 1
    BY <2>1
  <2>3. \A q \in Readers : timeAt[q].step = "away"
    BY DEF TimeInit, Away
  <2>4. Types
    BY <2>2, <2>3 DEF TimeInit, Types, InCall
  <2>5. Behind
    BY <2>2, TheWords DEF TimeInit, Behind
  <2>6. Alone /\ Halfway
    BY <2>3 DEF Alone, Halfway, Reading
  <2> QED BY <2>4, <2>5, <2>6 DEF TimeInv
<1>2. TimeInv /\ [TimeNext]_timeVars => TimeInv'
  <2>1. ASSUME TimeInv, UNCHANGED timeVars PROVE TimeInv'
    BY <2>1 DEF timeVars, timeShared, TimeInv, Types, Behind, Alone, Halfway, HasTick,
                CycFrom, NsFrom
  <2>2. ASSUME TimeInv, TimeNext PROVE TimeInv'
    BY <2>2, ApSteps, OuterSteps, ReadSteps, LastStep DEF TimeNext
  <2> QED BY <2>1, <2>2
<1> QED BY <1>1, <1>2, PTL DEF TimeSpec

(* A reader that is content with its versions has one base in cd, for the  *)
(* versions of the words in between lie between them.                      *)
THEOREM TimeWholeHolds == TimeSpec => TimeWhole
<1> DEFINE Whole == \A r \in Readers : timeAt[r].step = "TS_H" /\ timeAt'[r].step = "use" =>
        \E b \in ToSet(timeWritten) :
            <<timeCd'.cyc, timeCd'.ns, timeCd'.freeze>> = <<b.cyc, b.ns, b.freeze>>
<1>1. TimeInv /\ [TimeNext]_timeVars => [Whole]_timeVars
  <2> SUFFICES ASSUME TimeInv, TimeNext, NEW r \in Readers,
                      timeAt[r].step = "TS_H", timeAt'[r].step = "use"
               PROVE  \E b \in ToSet(timeWritten) :
                        <<timeCd'.cyc, timeCd'.ns, timeCd'.freeze>> = <<b.cyc, b.ns, b.freeze>>
    OBVIOUS
  <2>1. ReadTsH(r)
    <3>1. DOMAIN timeAt = Readers
      BY DEF TimeInv, Types
    <3>2. timeAt'[r] # timeAt[r]
      OBVIOUS
    <3>3. PICK q \in Readers :
            \/ ReadTimer(q) \/ NeedUpdate(q) \/ Enter(q) \/ ReadTickH(q) \/ ReadTickL(q)
            \/ ReadTsL(q) \/ ReadTsH(q) \/ Use(q) \/ Return(q)
      BY <3>2 DEF TimeNext, Tick, ApStarts, ApWrites
    <3>4. q = r
      BY <3>1, <3>2, <3>3 DEF ReadTimer, NeedUpdate, Enter, ReadTickH, ReadTickL, ReadTsL,
                              ReadTsH, Use, Return, Goes
    <3> QED BY <3>3, <3>4 DEF ReadTimer, NeedUpdate, Enter, ReadTickH, ReadTickL, ReadTsL,
                              Use, Return, Step
  <2>2. timeAt[r] \in Goings /\ HasTick(r)
    BY DEF InCall, TimeInv, Types, Halfway
  <2>3. OneVersion(r)
    <3>1. DOMAIN timeAt = Readers
      BY DEF TimeInv, Types
    <3>2. timeAt'[r].step = (IF OneVersion(r) THEN "use" ELSE "enter")
      BY <2>1, <2>2, <3>1 DEF ReadTsH, Goes, Goings
    <3> QED BY <3>2
  <2> DEFINE v == timeAt[r].ver
  <2> PICK m \in Nat, n \in Nat : CycFrom(r, m) /\ NsFrom(n) /\ m <= n /\ n <= timeMbox["TS_H"]
    BY DEF TimeInv, Halfway
  <2>4. m = v /\ n = v
    BY <2>2, <2>3 DEF OneVersion, CycFrom, Goings
  <2>5. /\ v \in DOMAIN timeWritten /\ timeCd.cyc = timeWritten[v].cyc
        /\ timeCd.ns = timeWritten[v].ns /\ timeAt[r].freeze = timeWritten[v].freeze
    BY <2>2, <2>4 DEF HasTick, CycFrom, NsFrom
  <2>6. timeCd'.cyc = timeCd.cyc /\ timeCd'.ns = timeCd.ns /\ timeCd'.freeze = timeAt[r].freeze
    BY <2>1, <2>3 DEF ReadTsH, TimeInv, Types
  <2>7. timeWritten[v] \in ToSet(timeWritten)
    BY <2>5 DEF ToSet
  <2> HIDE DEF v
  <2> QED BY <2>5, <2>6, <2>7
<1> QED BY <1>1, TimeInvariant, PTL DEF TimeSpec, TimeWhole, Whole
---------------------------------------------------------------------------
(***************************************************************************)
(* ZeroCopy: the table of buffers in use.                                  *)
(*                                                                         *)
(* Each buffer in use has an entry of its own, and each entry that is taken*)
(* has a buffer that is in use or is being filled or cleared.  A search that*)
(* has always seen its buffer in use has still its entry before it.        *)
(***************************************************************************)
ZcpyBusySteps == {"fill", "zero", "clear"}
ZcpyBusy(a) == zcpyCall[a].step \in ZcpyBusySteps
ZcpyScans(a) == zcpyCall[a].step \in {"look", "bit"}
ZcpyCalls == [step : {"idle", "fill", "zero", "clear", "look", "bit", "answered"},
              buf : ZcpyBufs \cup {ZcpyNull}, bit : ZcpyBits \cup {0},
              may : SUBSET BOOLEAN, answer : BOOLEAN]

ZcpyTableOK ==
    /\ zcpyBitset \subseteq ZcpyBits /\ zcpyMarked \subseteq ZcpyBufs
    /\ zcpyBitmap \in [ZcpyBits -> ZcpyBufs \cup {ZcpyNull}]
    /\ zcpyCall \in [ZcpyCores -> ZcpyCalls]
    /\ \A a \in ZcpyCores : zcpyCall[a].step # "idle" => zcpyCall[a].buf \in ZcpyBufs

\* An entry that is not in use has no pointer, and one without a pointer is being filled
\* or cleared.
ZcpyEntries ==
    /\ \A bit \in ZcpyBits : zcpyBitmap[bit] # ZcpyNull =>
          bit \in zcpyBitset /\
          (zcpyBitmap[bit] \in zcpyMarked \/
           \E a \in ZcpyCores : zcpyCall[a].step = "zero" /\ zcpyCall[a].bit = bit)
    /\ \A bit \in zcpyBitset : zcpyBitmap[bit] = ZcpyNull =>
          \E a \in ZcpyCores : ZcpyBusy(a) /\ zcpyCall[a].bit = bit
    /\ \A b, c \in ZcpyBits : zcpyBitmap[b] = zcpyBitmap[c] /\ b # c => zcpyBitmap[b] = ZcpyNull
    /\ \A buf \in zcpyMarked : \E bit \in ZcpyBits : zcpyBitmap[bit] = buf

\* A call that changes the table has an entry and a buffer for itself.
ZcpyChanges ==
    /\ \A a \in ZcpyCores : ZcpyBusy(a) =>
          /\ zcpyCall[a].bit \in zcpyBitset /\ zcpyCall[a].buf \notin zcpyMarked
          /\ zcpyBitmap[zcpyCall[a].bit] =
                (IF zcpyCall[a].step = "zero" THEN zcpyCall[a].buf ELSE ZcpyNull)
    /\ \A a, b \in ZcpyCores : ZcpyBusy(a) /\ ZcpyBusy(b) /\ a # b =>
          zcpyCall[a].bit # zcpyCall[b].bit /\ zcpyCall[a].buf # zcpyCall[b].buf

\* A search that has always seen its buffer in use has still its entry before it.
ZcpySearch(a) ==
    LET call == zcpyCall[a] IN
    /\ ZcpyScans(a) => call.bit \in ZcpyBits /\ call.answer = FALSE
    /\ call.step = "bit" => TRUE \in call.may
    /\ ZcpyScans(a) /\ FALSE \notin call.may =>
          \E bit \in zcpyBitset :
              /\ zcpyBitmap[bit] = call.buf /\ call.bit <= bit
              /\ call.step = "bit" => bit = call.bit
    /\ call.step = "answered" => call.answer \in call.may
ZcpySearches == \A a \in ZcpyCores : ZcpySearch(a)

ZcpyTableInv == ZcpyTableOK /\ ZcpyEntries /\ ZcpyChanges /\ ZcpySearches

LEMMA ZcpyBitsAre ==
  /\ Cardinality(ZcpyBits) \in Nat \ {0} /\ ZcpyBits = 1 .. Cardinality(ZcpyBits)
  /\ Min(ZcpyBits) = 1 /\ Max(ZcpyBits) = Cardinality(ZcpyBits)
<1> DEFINE n == Cardinality(ZcpyBits)
<1>1. n \in Nat /\ ZcpyBits = 1 .. n /\ ZcpyBits # {}
  BY ZcpyAssumption, FS_CardinalityType
<1> HIDE DEF n
<1>2. n # 0
  BY <1>1
<1>3. 1 \in ZcpyBits /\ n \in ZcpyBits /\ \A b \in ZcpyBits : b \in Int /\ 1 <= b /\ b <= n
  BY <1>1, <1>2
<1>4. Min(ZcpyBits) = 1
  <2>1. \E x \in ZcpyBits : \A y \in ZcpyBits : x =< y
    BY <1>3
  <2>2. Min(ZcpyBits) \in ZcpyBits /\ Min(ZcpyBits) <= 1
    BY <1>3, <2>1 DEF Min
  <2> QED
    BY <1>3, <2>2
<1>5. Max(ZcpyBits) = n
  <2>1. \E x \in ZcpyBits : \A y \in ZcpyBits : x >= y
    BY <1>1, <1>3
  <2>2. Max(ZcpyBits) \in ZcpyBits /\ Max(ZcpyBits) >= n
    BY <1>3, <2>1 DEF Max
  <2> QED
    BY <1>1, <1>3, <2>2
<1> QED
  BY <1>1, <1>2, <1>4, <1>5 DEF n

LEMMA ZcpyUseIs ==
  ASSUME NEW buf
  PROVE  /\ ZcpyInUseNow(buf) \subseteq BOOLEAN
         /\ FALSE \notin ZcpyInUseNow(buf) =>
               buf \in zcpyMarked /\ \A a \in ZcpyCores : ~(ZcpyBusy(a) /\ zcpyCall[a].buf = buf)
         /\ (buf \in zcpyMarked \/ \E a \in ZcpyCores : ZcpyBusy(a) /\ zcpyCall[a].buf = buf) =>
               TRUE \in ZcpyInUseNow(buf)
<1> DEFINE changes == \E a \in ZcpyCores : zcpyCall[a].buf = buf /\ zcpyCall[a].step \in {"fill", "zero", "clear"}
<1>1. changes <=> \E a \in ZcpyCores : ZcpyBusy(a) /\ zcpyCall[a].buf = buf
  BY DEF ZcpyBusy, ZcpyBusySteps
<1>2. ZcpyInUseNow(buf) = IF changes THEN BOOLEAN ELSE IF buf \in zcpyMarked THEN {TRUE} ELSE {FALSE}
  BY DEF ZcpyInUseNow
<1> HIDE DEF changes
<1>3. CASE changes
  BY <1>1, <1>2, <1>3
<1>4. CASE ~changes
  BY <1>1, <1>2, <1>4
<1> QED
  BY <1>3, <1>4

\* Nobody changes the buffer, and whether it is marked.
LEMMA ZcpyUseOne ==
  ASSUME NEW buf, NEW is \in BOOLEAN, ZcpyInUseNow(buf) = {is}
  PROVE  /\ \A a \in ZcpyCores : ~(ZcpyBusy(a) /\ zcpyCall[a].buf = buf)
         /\ buf \in zcpyMarked <=> is
<1> DEFINE changes == \E a \in ZcpyCores : zcpyCall[a].buf = buf /\ zcpyCall[a].step \in {"fill", "zero", "clear"}
<1>1. ZcpyInUseNow(buf) = IF changes THEN BOOLEAN ELSE IF buf \in zcpyMarked THEN {TRUE} ELSE {FALSE}
  BY DEF ZcpyInUseNow
<1>2. ~changes
  <2> SUFFICES ASSUME changes PROVE FALSE
    OBVIOUS
  <2>1. {is} = BOOLEAN
    BY <1>1
  <2>2. TRUE \in {is} /\ FALSE \in {is}
    BY <2>1
  <2> QED
    BY <2>2
<1>3. \A a \in ZcpyCores : ~(ZcpyBusy(a) /\ zcpyCall[a].buf = buf)
  BY <1>2 DEF ZcpyBusy, ZcpyBusySteps
<1> HIDE DEF changes
<1>4. (IF buf \in zcpyMarked THEN {TRUE} ELSE {FALSE}) = {is}
  BY <1>1, <1>2
<1>6. buf \in zcpyMarked <=> is
  BY <1>4
<1> QED
  BY <1>3, <1>6

LEMMA ZcpyGoesOnIs ==
  ASSUME ZcpyTableOK, NEW a \in ZcpyCores, NEW call \in ZcpyCalls, ZcpyGoesOn(a, call)
  PROVE  /\ zcpyCall' \in [ZcpyCores -> ZcpyCalls]
         /\ zcpyCall'[a].step = call.step /\ zcpyCall'[a].buf = call.buf
         /\ zcpyCall'[a].bit = call.bit /\ zcpyCall'[a].answer = call.answer
         /\ zcpyCall'[a].may = (IF call.step \in {"look", "bit"} THEN call.may \cup ZcpyInUseNow(call.buf)
                                ELSE call.may)
         /\ \A c \in ZcpyCores : c # a =>
               /\ zcpyCall'[c].step = zcpyCall[c].step /\ zcpyCall'[c].buf = zcpyCall[c].buf
               /\ zcpyCall'[c].bit = zcpyCall[c].bit /\ zcpyCall'[c].answer = zcpyCall[c].answer
               /\ zcpyCall'[c].may = (IF ZcpyScans(c) THEN zcpyCall[c].may \cup ZcpyInUseNow(zcpyCall[c].buf)
                                      ELSE zcpyCall[c].may)
<1> DEFINE Now(c) == IF c = a THEN call ELSE zcpyCall[c]
           Next(c) == IF Now(c).step \in {"look", "bit"}
                      THEN [Now(c) EXCEPT !.may = @ \cup ZcpyInUseNow(Now(c).buf)] ELSE Now(c)
<1>1. zcpyCall' = [c \in ZcpyCores |-> Next(c)]
  BY DEF ZcpyGoesOn
<1>2. ASSUME NEW now \in ZcpyCalls
      PROVE  /\ [now EXCEPT !.may = @ \cup ZcpyInUseNow(now.buf)] \in ZcpyCalls
             /\ [now EXCEPT !.may = @ \cup ZcpyInUseNow(now.buf)].step = now.step
             /\ [now EXCEPT !.may = @ \cup ZcpyInUseNow(now.buf)].buf = now.buf
             /\ [now EXCEPT !.may = @ \cup ZcpyInUseNow(now.buf)].bit = now.bit
             /\ [now EXCEPT !.may = @ \cup ZcpyInUseNow(now.buf)].answer = now.answer
             /\ [now EXCEPT !.may = @ \cup ZcpyInUseNow(now.buf)].may = now.may \cup ZcpyInUseNow(now.buf)
  <2>1. now.may \cup ZcpyInUseNow(now.buf) \subseteq BOOLEAN
    BY ZcpyUseIs DEF ZcpyCalls
  <2> QED
    BY <2>1 DEF ZcpyCalls
<1>3. \A c \in ZcpyCores : Now(c) \in ZcpyCalls
  BY DEF ZcpyTableOK
<1> HIDE DEF Now
<1>4. \A c \in ZcpyCores :
         /\ Next(c) \in ZcpyCalls /\ Next(c).step = Now(c).step /\ Next(c).buf = Now(c).buf
         /\ Next(c).bit = Now(c).bit /\ Next(c).answer = Now(c).answer
         /\ Next(c).may = (IF Now(c).step \in {"look", "bit"} THEN Now(c).may \cup ZcpyInUseNow(Now(c).buf)
                           ELSE Now(c).may)
  BY <1>2, <1>3
<1> HIDE DEF Next
<1>5. zcpyCall' \in [ZcpyCores -> ZcpyCalls] /\ \A c \in ZcpyCores : zcpyCall'[c] = Next(c)
  BY <1>1, <1>4
<1>6. Now(a) = call /\ \A c \in ZcpyCores : c # a => Now(c) = zcpyCall[c]
  BY DEF Now
<1> QED
  BY <1>4, <1>5, <1>6 DEF ZcpyScans

LEMMA ZcpySearchesKeep ==
  ASSUME ZcpyTableInv, NEW a \in ZcpyCores, NEW call \in ZcpyCalls, ZcpyGoesOn(a, call),
         \A bit \in zcpyBitset :
            zcpyBitmap[bit] \in zcpyMarked /\
            (\A c \in ZcpyCores : ~(ZcpyBusy(c) /\ zcpyCall[c].buf = zcpyBitmap[bit])) =>
               bit \in zcpyBitset' /\ zcpyBitmap'[bit] = zcpyBitmap[bit],
         ZcpySearch(a)'
  PROVE  ZcpySearches'
<1> SUFFICES ASSUME NEW c \in ZcpyCores, c # a PROVE ZcpySearch(c)'
  BY DEF ZcpySearches
<1>1. /\ zcpyCall'[c].step = zcpyCall[c].step /\ zcpyCall'[c].buf = zcpyCall[c].buf
      /\ zcpyCall'[c].bit = zcpyCall[c].bit /\ zcpyCall'[c].answer = zcpyCall[c].answer
      /\ zcpyCall'[c].may = (IF ZcpyScans(c) THEN zcpyCall[c].may \cup ZcpyInUseNow(zcpyCall[c].buf)
                             ELSE zcpyCall[c].may)
  BY ZcpyGoesOnIs DEF ZcpyTableInv
<1>2. ZcpySearch(c) /\ ZcpyTableOK /\ ZcpyEntries
  BY DEF ZcpyTableInv, ZcpySearches
<1>3. ZcpyScans(c)' <=> ZcpyScans(c)
  BY <1>1 DEF ZcpyScans
<1>4. zcpyCall[c].step = "bit" => ZcpyScans(c)
  BY DEF ZcpyScans
<1>5. zcpyCall[c].step = "answered" => ~ZcpyScans(c)
  BY DEF ZcpyScans
<1>6. ASSUME ZcpyScans(c), FALSE \notin zcpyCall'[c].may
      PROVE  \E bit \in zcpyBitset' :
                /\ zcpyBitmap'[bit] = zcpyCall[c].buf /\ zcpyCall[c].bit <= bit
                /\ zcpyCall[c].step = "bit" => bit = zcpyCall[c].bit
  <2>1. FALSE \notin zcpyCall[c].may /\ FALSE \notin ZcpyInUseNow(zcpyCall[c].buf)
    BY <1>1, <1>6
  <2>2. zcpyCall[c].buf \in zcpyMarked
        /\ \A b \in ZcpyCores : ~(ZcpyBusy(b) /\ zcpyCall[b].buf = zcpyCall[c].buf)
    BY <2>1, ZcpyUseIs
  <2>3. PICK bit \in zcpyBitset : /\ zcpyBitmap[bit] = zcpyCall[c].buf /\ zcpyCall[c].bit <= bit
                                  /\ zcpyCall[c].step = "bit" => bit = zcpyCall[c].bit
    BY <1>2, <1>6, <2>1 DEF ZcpySearch
  <2>4. bit \in zcpyBitset' /\ zcpyBitmap'[bit] = zcpyBitmap[bit]
    BY <2>2, <2>3
  <2> QED
    BY <2>3, <2>4
<1> QED
  BY <1>1, <1>2, <1>3, <1>4, <1>5, <1>6 DEF ZcpySearch

\* Types, for a step that makes a call of core a.
LEMMA ZcpyTableTypes ==
  ASSUME ZcpyTableOK, NEW a \in ZcpyCores, NEW call \in ZcpyCalls, ZcpyGoesOn(a, call),
         call.step # "idle" => call.buf \in ZcpyBufs,
         zcpyBitset' \subseteq ZcpyBits, zcpyMarked' \subseteq ZcpyBufs,
         zcpyBitmap' \in [ZcpyBits -> ZcpyBufs \cup {ZcpyNull}]
  PROVE  ZcpyTableOK'
<1>1. /\ zcpyCall' \in [ZcpyCores -> ZcpyCalls]
      /\ zcpyCall'[a].step = call.step /\ zcpyCall'[a].buf = call.buf
      /\ \A c \in ZcpyCores : c # a =>
            zcpyCall'[c].step = zcpyCall[c].step /\ zcpyCall'[c].buf = zcpyCall[c].buf
  BY ZcpyGoesOnIs
<1>2. \A c \in ZcpyCores : zcpyCall'[c].step # "idle" => zcpyCall'[c].buf \in ZcpyBufs
  BY <1>1 DEF ZcpyTableOK
<1> QED
  BY <1>1, <1>2 DEF ZcpyTableOK

LEMMA ZcpyNoCallIs ==
  /\ ZcpyNoCall \in ZcpyCalls /\ ZcpyNoCall.step = "idle" /\ ZcpyNoCall.buf = ZcpyNull
  /\ ZcpyNoCall.bit = 0 /\ ZcpyNoCall.may = {} /\ ZcpyNoCall.answer = FALSE
BY DEF ZcpyNoCall, ZcpyCalls

LEMMA ZcpyMarkKeeps ==
  ASSUME ZcpyTableInv, NEW a \in ZcpyCores, NEW buf \in ZcpyBufs, ZcpyMark(a, buf)
  PROVE  ZcpyTableInv'
<1>1. PICK bit \in ZcpyBits \ zcpyBitset :
         /\ zcpyBitset' = zcpyBitset \cup {bit}
         /\ ZcpyGoesOn(a, [ZcpyNoCall EXCEPT !.step = "fill", !.buf = buf, !.bit = bit])
  BY DEF ZcpyMark
<1> DEFINE call == [ZcpyNoCall EXCEPT !.step = "fill", !.buf = buf, !.bit = bit]
<1>2. /\ zcpyCall[a].step = "idle" /\ ZcpyInUseNow(buf) = {FALSE}
      /\ zcpyBitmap' = zcpyBitmap /\ zcpyMarked' = zcpyMarked
  BY DEF ZcpyMark, ZcpyAt
<1>3. /\ call \in ZcpyCalls /\ call.step = "fill" /\ call.buf = buf /\ call.bit = bit
  BY ZcpyNoCallIs DEF ZcpyCalls
<1>4. ZcpyGoesOn(a, call)
  BY <1>1
<1> HIDE DEF call
<1>5. ZcpyTableOK /\ ZcpyEntries /\ ZcpyChanges /\ ZcpySearches
  BY DEF ZcpyTableInv
<1>6. /\ zcpyCall'[a].step = "fill" /\ zcpyCall'[a].buf = buf /\ zcpyCall'[a].bit = bit
      /\ \A c \in ZcpyCores : c # a =>
            /\ zcpyCall'[c].step = zcpyCall[c].step /\ zcpyCall'[c].buf = zcpyCall[c].buf
            /\ zcpyCall'[c].bit = zcpyCall[c].bit
  BY <1>3, <1>4, <1>5, ZcpyGoesOnIs
<1>7. buf \notin zcpyMarked /\ \A c \in ZcpyCores : ~(ZcpyBusy(c) /\ zcpyCall[c].buf = buf)
  BY <1>2, ZcpyUseOne
<1>8. zcpyBitmap[bit] = ZcpyNull
  BY <1>1, <1>5 DEF ZcpyEntries
<1>9. ZcpyBusy(a)' /\ ~ZcpyBusy(a) /\ \A c \in ZcpyCores : c # a => (ZcpyBusy(c)' <=> ZcpyBusy(c))
  BY <1>2, <1>6 DEF ZcpyBusy, ZcpyBusySteps
<1>10. ZcpyTableOK'
  BY <1>1, <1>2, <1>3, <1>4, <1>5, ZcpyTableTypes DEF ZcpyTableOK
<1>11. ZcpyEntries'
  <2>1. \A b \in ZcpyBits : zcpyBitmap'[b] # ZcpyNull =>
          b \in zcpyBitset' /\
          (zcpyBitmap'[b] \in zcpyMarked' \/
           \E c \in ZcpyCores : zcpyCall'[c].step = "zero" /\ zcpyCall'[c].bit = b)
    BY <1>1, <1>2, <1>5, <1>6 DEF ZcpyEntries
  <2>2. ASSUME NEW b \in zcpyBitset', zcpyBitmap'[b] = ZcpyNull
        PROVE  \E c \in ZcpyCores : ZcpyBusy(c)' /\ zcpyCall'[c].bit = b
    <3>1. CASE b = bit
      BY <1>6, <1>9, <3>1
    <3>2. CASE b # bit
      <4>1. b \in zcpyBitset /\ zcpyBitmap[b] = ZcpyNull
        BY <1>1, <1>2, <2>2, <3>2
      <4>2. PICK c \in ZcpyCores : ZcpyBusy(c) /\ zcpyCall[c].bit = b
        BY <1>5, <4>1 DEF ZcpyEntries
      <4> QED
        BY <1>6, <1>9, <4>2
    <3> QED
      BY <3>1, <3>2
  <2> QED
    BY <1>2, <1>5, <2>1, <2>2 DEF ZcpyEntries
<1>12. ZcpyChanges'
  <2>1. ASSUME NEW c \in ZcpyCores, ZcpyBusy(c)'
        PROVE  /\ zcpyCall'[c].bit \in zcpyBitset' /\ zcpyCall'[c].buf \notin zcpyMarked'
               /\ zcpyBitmap'[zcpyCall'[c].bit] =
                     (IF zcpyCall'[c].step = "zero" THEN zcpyCall'[c].buf ELSE ZcpyNull)
    <3>1. CASE c = a
      BY <1>1, <1>2, <1>6, <1>7, <1>8, <3>1
    <3>2. CASE c # a
      BY <1>1, <1>2, <1>5, <1>6, <1>9, <2>1, <3>2 DEF ZcpyChanges
    <3> QED
      BY <3>1, <3>2
  <2>2. ASSUME NEW c \in ZcpyCores, ZcpyBusy(c)', c # a
        PROVE  zcpyCall'[c].bit # bit /\ zcpyCall'[c].buf # buf
    BY <1>1, <1>5, <1>6, <1>7, <1>9, <2>2 DEF ZcpyChanges
  <2>3. ASSUME NEW c \in ZcpyCores, NEW d \in ZcpyCores, ZcpyBusy(c)', ZcpyBusy(d)', c # d
        PROVE  zcpyCall'[c].bit # zcpyCall'[d].bit /\ zcpyCall'[c].buf # zcpyCall'[d].buf
    <3>1. CASE c = a \/ d = a
      BY <1>6, <2>2, <2>3, <3>1
    <3>2. CASE c # a /\ d # a
      BY <1>5, <1>6, <1>9, <2>3, <3>2 DEF ZcpyChanges
    <3> QED
      BY <3>1, <3>2
  <2> QED
    BY <2>1, <2>3 DEF ZcpyChanges
<1>13. ZcpySearches'
  <2>1. ZcpySearch(a)'
    BY <1>6 DEF ZcpySearch, ZcpyScans
  <2>2. \A b \in zcpyBitset : b \in zcpyBitset' /\ zcpyBitmap'[b] = zcpyBitmap[b]
    BY <1>1, <1>2
  <2> QED
    BY <1>3, <1>4, <2>1, <2>2, ZcpySearchesKeep
<1> QED
  BY <1>10, <1>11, <1>12, <1>13 DEF ZcpyTableInv

\* What the lemma of a step needs of its call, and of the calls of others.
LEMMA ZcpyGoesOnTo ==
  ASSUME ZcpyTableInv, NEW a \in ZcpyCores, NEW call \in ZcpyCalls, ZcpyGoesOn(a, call)
  PROVE  /\ zcpyCall'[a].step = call.step /\ zcpyCall'[a].buf = call.buf
         /\ zcpyCall'[a].bit = call.bit /\ (ZcpyBusy(a)' <=> call.step \in ZcpyBusySteps)
         /\ \A c \in ZcpyCores : c # a =>
               /\ zcpyCall'[c].step = zcpyCall[c].step /\ zcpyCall'[c].buf = zcpyCall[c].buf
               /\ zcpyCall'[c].bit = zcpyCall[c].bit /\ (ZcpyBusy(c)' <=> ZcpyBusy(c))
<1>1. /\ zcpyCall'[a].step = call.step /\ zcpyCall'[a].buf = call.buf
      /\ zcpyCall'[a].bit = call.bit
      /\ \A c \in ZcpyCores : c # a =>
            /\ zcpyCall'[c].step = zcpyCall[c].step /\ zcpyCall'[c].buf = zcpyCall[c].buf
            /\ zcpyCall'[c].bit = zcpyCall[c].bit
  BY ZcpyGoesOnIs DEF ZcpyTableInv
<1> QED
  BY <1>1 DEF ZcpyBusy

LEMMA ZcpyFillKeeps ==
  ASSUME ZcpyTableInv, NEW a \in ZcpyCores, ZcpyFill(a)
  PROVE  ZcpyTableInv'
<1> DEFINE buf == zcpyCall[a].buf
           bit == zcpyCall[a].bit
<1>1. /\ zcpyCall[a].step = "fill" /\ ZcpyGoesOn(a, ZcpyNoCall)
      /\ zcpyBitmap' = [zcpyBitmap EXCEPT ![bit] = buf]
      /\ zcpyMarked' = zcpyMarked \cup {buf} /\ zcpyBitset' = zcpyBitset
  BY DEF ZcpyFill, ZcpyAt
<1>2. ZcpyTableOK /\ ZcpyEntries /\ ZcpyChanges /\ ZcpySearches
  BY DEF ZcpyTableInv
<1>3. ZcpyBusy(a) /\ ~(ZcpyNoCall.step \in ZcpyBusySteps)
  BY <1>1, ZcpyNoCallIs DEF ZcpyBusy, ZcpyBusySteps
<1>4. /\ zcpyCall'[a].step = "idle" /\ ~ZcpyBusy(a)'
      /\ \A c \in ZcpyCores : c # a =>
            /\ zcpyCall'[c].step = zcpyCall[c].step /\ zcpyCall'[c].buf = zcpyCall[c].buf
            /\ zcpyCall'[c].bit = zcpyCall[c].bit /\ (ZcpyBusy(c)' <=> ZcpyBusy(c))
  BY <1>1, <1>3, ZcpyNoCallIs, ZcpyGoesOnTo
<1>5. bit \in zcpyBitset /\ bit \in ZcpyBits /\ buf \notin zcpyMarked /\ buf \in ZcpyBufs
      /\ zcpyBitmap[bit] = ZcpyNull /\ buf # ZcpyNull
  BY <1>1, <1>2, <1>3, ZcpyAssumption DEF ZcpyChanges, ZcpyTableOK
<1>6. \A c \in ZcpyCores : c # a /\ ZcpyBusy(c) => zcpyCall[c].bit # bit /\ zcpyCall[c].buf # buf
  BY <1>2, <1>3 DEF ZcpyChanges
<1>7. \A c \in ZcpyCores : zcpyCall[c].step = "zero" => ZcpyBusy(c) /\ c # a
  BY <1>1 DEF ZcpyBusy, ZcpyBusySteps
<1>8. \A b \in ZcpyBits : zcpyBitmap'[b] = IF b = bit THEN buf ELSE zcpyBitmap[b]
  BY <1>1, <1>2 DEF ZcpyTableOK
<1>9. ZcpyTableOK'
  <2>1. /\ zcpyBitset' \subseteq ZcpyBits /\ zcpyMarked' \subseteq ZcpyBufs
        /\ zcpyBitmap' \in [ZcpyBits -> ZcpyBufs \cup {ZcpyNull}]
    BY <1>1, <1>2, <1>5 DEF ZcpyTableOK
  <2> QED
    BY <1>1, <1>2, <2>1, ZcpyNoCallIs, ZcpyTableTypes
<1> HIDE DEF buf, bit
\* No entry has the buffer yet.
<1>10. \A b \in ZcpyBits : zcpyBitmap[b] # buf
  <2> SUFFICES ASSUME NEW b \in ZcpyBits, zcpyBitmap[b] = buf PROVE FALSE
    OBVIOUS
  <2>1. PICK c \in ZcpyCores : zcpyCall[c].step = "zero" /\ zcpyCall[c].bit = b
    BY <1>2, <1>5 DEF ZcpyEntries
  <2>2. zcpyCall[c].buf = buf /\ ZcpyBusy(c) /\ c # a
    BY <1>2, <1>7, <2>1 DEF ZcpyChanges
  <2> QED
    BY <1>6, <2>2
<1>11. ZcpyEntries'
  <2>1. ASSUME NEW b \in ZcpyBits, zcpyBitmap'[b] # ZcpyNull
        PROVE  b \in zcpyBitset' /\
               (zcpyBitmap'[b] \in zcpyMarked' \/
                \E c \in ZcpyCores : zcpyCall'[c].step = "zero" /\ zcpyCall'[c].bit = b)
    <3>1. CASE b = bit
      BY <1>1, <1>5, <1>8, <3>1
    <3>2. CASE b # bit
      <4>1. zcpyBitmap'[b] = zcpyBitmap[b]
        BY <1>8, <3>2
      <4>2. b \in zcpyBitset /\ (zcpyBitmap[b] \in zcpyMarked \/
             \E c \in ZcpyCores : zcpyCall[c].step = "zero" /\ zcpyCall[c].bit = b)
        BY <1>2, <2>1, <4>1 DEF ZcpyEntries
      <4> QED
        BY <1>1, <1>4, <1>7, <4>1, <4>2
    <3> QED
      BY <3>1, <3>2
  <2>2. ASSUME NEW b \in zcpyBitset', zcpyBitmap'[b] = ZcpyNull
        PROVE  \E c \in ZcpyCores : ZcpyBusy(c)' /\ zcpyCall'[c].bit = b
    <3>1. b \in zcpyBitset /\ b \in ZcpyBits /\ b # bit /\ zcpyBitmap[b] = ZcpyNull
      BY <1>1, <1>2, <1>5, <1>8, <2>2 DEF ZcpyTableOK
    <3>2. PICK c \in ZcpyCores : ZcpyBusy(c) /\ zcpyCall[c].bit = b
      BY <1>2, <3>1 DEF ZcpyEntries
    <3> QED
      BY <1>4, <3>1, <3>2 DEF bit
  <2>3. \A b, c \in ZcpyBits : zcpyBitmap'[b] = zcpyBitmap'[c] /\ b # c => zcpyBitmap'[b] = ZcpyNull
    BY <1>2, <1>8, <1>10 DEF ZcpyEntries
  <2>4. ASSUME NEW m \in zcpyMarked' PROVE \E b \in ZcpyBits : zcpyBitmap'[b] = m
    <3>1. CASE m = buf
      BY <1>5, <1>8, <3>1
    <3>2. CASE m # buf
      <4>1. m \in zcpyMarked /\ m # ZcpyNull
        BY <1>1, <1>2, <2>4, <3>2, ZcpyAssumption DEF ZcpyTableOK
      <4>2. PICK b \in ZcpyBits : zcpyBitmap[b] = m
        BY <1>2, <4>1 DEF ZcpyEntries
      <4> QED
        BY <1>5, <1>8, <4>1, <4>2
    <3> QED
      BY <3>1, <3>2
  <2> QED
    BY <2>1, <2>2, <2>3, <2>4 DEF ZcpyEntries
<1>12. ZcpyChanges'
  <2>1. ASSUME NEW c \in ZcpyCores, ZcpyBusy(c)'
        PROVE  /\ zcpyCall'[c].bit \in zcpyBitset' /\ zcpyCall'[c].buf \notin zcpyMarked'
               /\ zcpyBitmap'[zcpyCall'[c].bit] =
                     (IF zcpyCall'[c].step = "zero" THEN zcpyCall'[c].buf ELSE ZcpyNull)
    <3>1. c # a /\ ZcpyBusy(c)
      BY <1>4, <2>1
    <3>2. zcpyCall[c].bit \in zcpyBitset /\ zcpyCall[c].bit \in ZcpyBits /\ zcpyCall[c].buf \notin zcpyMarked
          /\ zcpyBitmap[zcpyCall[c].bit] = (IF zcpyCall[c].step = "zero" THEN zcpyCall[c].buf ELSE ZcpyNull)
      BY <1>2, <3>1 DEF ZcpyChanges, ZcpyTableOK
    <3>3. zcpyCall[c].bit # bit /\ zcpyCall[c].buf # buf
      BY <1>6, <3>1
    <3> QED
      BY <1>1, <1>4, <1>8, <3>1, <3>2, <3>3
  <2>2. ASSUME NEW c \in ZcpyCores, NEW d \in ZcpyCores, ZcpyBusy(c)', ZcpyBusy(d)', c # d
        PROVE  zcpyCall'[c].bit # zcpyCall'[d].bit /\ zcpyCall'[c].buf # zcpyCall'[d].buf
    BY <1>2, <1>4, <2>2 DEF ZcpyChanges
  <2> QED
    BY <2>1, <2>2 DEF ZcpyChanges
<1>13. ZcpySearches'
  <2>1. ZcpySearch(a)'
    BY <1>4 DEF ZcpySearch, ZcpyScans
  <2>2. ASSUME NEW b \in zcpyBitset, zcpyBitmap[b] \in zcpyMarked
        PROVE  b \in zcpyBitset' /\ zcpyBitmap'[b] = zcpyBitmap[b]
    <3>1. zcpyBitmap[b] # ZcpyNull /\ b \in ZcpyBits
      BY <1>2, <2>2, ZcpyAssumption DEF ZcpyTableOK
    <3> QED
      BY <1>1, <1>5, <1>8, <3>1
  <2> QED
    BY <1>1, <2>1, <2>2, ZcpyNoCallIs, ZcpySearchesKeep
<1> QED
  BY <1>9, <1>11, <1>12, <1>13 DEF ZcpyTableInv

LEMMA ZcpyUnmarkKeeps ==
  ASSUME ZcpyTableInv, NEW a \in ZcpyCores, NEW buf \in ZcpyBufs, ZcpyUnmark(a, buf)
  PROVE  ZcpyTableInv'
<1> DEFINE found == {b \in ZcpyBits : zcpyBitmap[b] = buf}
           bit == Min(found)
           call == [ZcpyNoCall EXCEPT !.step = "zero", !.buf = buf, !.bit = bit]
<1>1. /\ zcpyCall[a].step = "idle" /\ ZcpyInUseNow(buf) = {TRUE}
      /\ zcpyBitmap' = zcpyBitmap /\ zcpyBitset' = zcpyBitset
  BY DEF ZcpyUnmark, ZcpyAt
<1>2. ZcpyTableOK /\ ZcpyEntries /\ ZcpyChanges /\ ZcpySearches
  BY DEF ZcpyTableInv
<1>3. buf \in zcpyMarked /\ \A c \in ZcpyCores : ~(ZcpyBusy(c) /\ zcpyCall[c].buf = buf)
  BY <1>1, ZcpyUseOne
<1>4. buf # ZcpyNull
  BY ZcpyAssumption
<1>5. bit \in ZcpyBits /\ zcpyBitmap[bit] = buf /\ found # {}
      /\ \A b \in ZcpyBits : zcpyBitmap[b] = buf => b = bit
  <2>1. PICK b \in ZcpyBits : zcpyBitmap[b] = buf
    BY <1>2, <1>3 DEF ZcpyEntries
  <2>2. \A c \in ZcpyBits : zcpyBitmap[c] = buf => c = b
    BY <1>2, <1>4, <2>1 DEF ZcpyEntries
  <2>3. found = {b} /\ b <= b
    BY <2>1, <2>2, ZcpyBitsAre
  <2>4. bit = b
    BY <2>3 DEF Min
  <2> QED
    BY <2>1, <2>2, <2>3, <2>4
<1>6. zcpyMarked' = zcpyMarked \ {buf} /\ ZcpyGoesOn(a, call)
  BY <1>5 DEF ZcpyUnmark
<1> HIDE DEF bit, found
<1>7. call \in ZcpyCalls /\ call.step = "zero" /\ call.buf = buf /\ call.bit = bit
  BY <1>5, ZcpyNoCallIs DEF ZcpyCalls
<1> HIDE DEF call
<1>8. call.step \in ZcpyBusySteps /\ ~ZcpyBusy(a) /\ bit \in zcpyBitset
  BY <1>1, <1>2, <1>4, <1>5, <1>7 DEF ZcpyBusy, ZcpyBusySteps, ZcpyEntries
<1>9. /\ zcpyCall'[a].step = "zero" /\ zcpyCall'[a].buf = buf /\ zcpyCall'[a].bit = bit /\ ZcpyBusy(a)'
      /\ \A c \in ZcpyCores : c # a =>
            /\ zcpyCall'[c].step = zcpyCall[c].step /\ zcpyCall'[c].buf = zcpyCall[c].buf
            /\ zcpyCall'[c].bit = zcpyCall[c].bit /\ (ZcpyBusy(c)' <=> ZcpyBusy(c))
  BY <1>6, <1>7, <1>8, ZcpyGoesOnTo
<1>10. ZcpyTableOK'
  BY <1>1, <1>2, <1>6, <1>7, ZcpyTableTypes DEF ZcpyTableOK
<1>11. ZcpyEntries'
  <2>1. ASSUME NEW b \in ZcpyBits, zcpyBitmap[b] # ZcpyNull
        PROVE  b \in zcpyBitset /\
               (zcpyBitmap[b] \in zcpyMarked' \/
                \E c \in ZcpyCores : zcpyCall'[c].step = "zero" /\ zcpyCall'[c].bit = b)
    <3>1. b \in zcpyBitset /\ (zcpyBitmap[b] \in zcpyMarked \/
             \E c \in ZcpyCores : zcpyCall[c].step = "zero" /\ zcpyCall[c].bit = b)
      BY <1>2, <2>1 DEF ZcpyEntries
    <3>2. CASE b = bit
      BY <1>9, <3>1, <3>2
    <3>3. CASE b # bit
      BY <1>1, <1>5, <1>6, <1>9, <3>1, <3>3
    <3> QED
      BY <3>2, <3>3
  <2>2. ASSUME NEW b \in zcpyBitset, zcpyBitmap[b] = ZcpyNull
        PROVE  \E c \in ZcpyCores : ZcpyBusy(c)' /\ zcpyCall'[c].bit = b
    <3>1. PICK c \in ZcpyCores : ZcpyBusy(c) /\ zcpyCall[c].bit = b
      BY <1>2, <2>2 DEF ZcpyEntries
    <3> QED
      BY <1>8, <1>9, <3>1
  <2> QED
    BY <1>1, <1>2, <1>6, <2>1, <2>2 DEF ZcpyEntries
<1>12. ZcpyChanges'
  <2>1. ASSUME NEW c \in ZcpyCores, ZcpyBusy(c)'
        PROVE  /\ zcpyCall'[c].bit \in zcpyBitset' /\ zcpyCall'[c].buf \notin zcpyMarked'
               /\ zcpyBitmap'[zcpyCall'[c].bit] =
                     (IF zcpyCall'[c].step = "zero" THEN zcpyCall'[c].buf ELSE ZcpyNull)
    <3>1. CASE c = a
      BY <1>1, <1>5, <1>6, <1>8, <1>9, <3>1
    <3>2. CASE c # a
      BY <1>1, <1>2, <1>6, <1>9, <2>1, <3>2 DEF ZcpyChanges
    <3> QED
      BY <3>1, <3>2
  <2>2. ASSUME NEW c \in ZcpyCores, ZcpyBusy(c)', c # a
        PROVE  zcpyCall'[c].bit # bit /\ zcpyCall'[c].buf # buf
    <3>1. ZcpyBusy(c) /\ zcpyCall[c].buf # buf
      BY <1>3, <1>9, <2>2
    <3>2. zcpyBitmap[zcpyCall[c].bit] # buf
      BY <1>2, <1>4, <3>1 DEF ZcpyChanges
    <3> QED
      BY <1>5, <1>9, <2>2, <3>1, <3>2
  <2>3. ASSUME NEW c \in ZcpyCores, NEW d \in ZcpyCores, ZcpyBusy(c)', ZcpyBusy(d)', c # d
        PROVE  zcpyCall'[c].bit # zcpyCall'[d].bit /\ zcpyCall'[c].buf # zcpyCall'[d].buf
    <3>1. CASE c = a \/ d = a
      BY <1>9, <2>2, <2>3, <3>1
    <3>2. CASE c # a /\ d # a
      BY <1>2, <1>9, <2>3, <3>2 DEF ZcpyChanges
    <3> QED
      BY <3>1, <3>2
  <2> QED
    BY <2>1, <2>3 DEF ZcpyChanges
<1>13. ZcpySearches'
  <2>1. ZcpySearch(a)'
    BY <1>9 DEF ZcpySearch, ZcpyScans
  <2>2. \A b \in zcpyBitset : b \in zcpyBitset' /\ zcpyBitmap'[b] = zcpyBitmap[b]
    BY <1>1
  <2> QED
    BY <1>6, <1>7, <2>1, <2>2, ZcpySearchesKeep
<1> QED
  BY <1>10, <1>11, <1>12, <1>13 DEF ZcpyTableInv

LEMMA ZcpyClearKeeps ==
  ASSUME ZcpyTableInv, NEW a \in ZcpyCores, ZcpyClear(a)
  PROVE  ZcpyTableInv'
<1> DEFINE old == zcpyCall[a]
           buf == old.buf
           bit == old.bit
<1>1. ZcpyTableOK /\ ZcpyEntries /\ ZcpyChanges /\ ZcpySearches
  BY DEF ZcpyTableInv
<1>2. zcpyMarked' = zcpyMarked /\ old.step \in {"zero", "clear"} /\ ZcpyBusy(a)
  BY DEF ZcpyClear, ZcpyAt, ZcpyBusy, ZcpyBusySteps
<1>3. bit \in zcpyBitset /\ bit \in ZcpyBits /\ buf \notin zcpyMarked /\ buf \in ZcpyBufs
      /\ zcpyBitmap[bit] = (IF old.step = "zero" THEN buf ELSE ZcpyNull)
  BY <1>1, <1>2 DEF ZcpyChanges, ZcpyTableOK
<1>4. \A c \in ZcpyCores : c # a /\ ZcpyBusy(c) => zcpyCall[c].bit # bit /\ zcpyCall[c].buf # buf
  BY <1>1, <1>2 DEF ZcpyChanges
<1>5. \A c \in ZcpyCores : zcpyCall[c].step = "zero" => ZcpyBusy(c)
  BY DEF ZcpyBusy, ZcpyBusySteps
<1>6. CASE old.step = "zero"
  <2> DEFINE call == [old EXCEPT !.step = "clear"]
  <2>1. /\ zcpyBitmap' = [zcpyBitmap EXCEPT ![bit] = ZcpyNull] /\ ZcpyGoesOn(a, call)
        /\ zcpyBitset' = zcpyBitset
    BY <1>6 DEF ZcpyClear, ZcpyAt
  <2>2. call \in ZcpyCalls /\ call.step = "clear" /\ call.buf = buf /\ call.bit = bit
    BY <1>1 DEF ZcpyTableOK, ZcpyCalls
  <2> HIDE DEF call
  <2>3. \A b \in ZcpyBits : zcpyBitmap'[b] = IF b = bit THEN ZcpyNull ELSE zcpyBitmap[b]
    BY <1>1, <2>1 DEF ZcpyTableOK
  <2>4. ZcpyTableOK'
    <3>1. zcpyBitmap' \in [ZcpyBits -> ZcpyBufs \cup {ZcpyNull}]
      BY <1>1, <2>1 DEF ZcpyTableOK
    <3> QED
      BY <1>1, <1>2, <1>3, <2>1, <2>2, <3>1, ZcpyTableTypes DEF ZcpyTableOK
  <2>5. call.step \in ZcpyBusySteps
    BY <2>2 DEF ZcpyBusySteps
  <2>6. /\ zcpyCall'[a].step = "clear" /\ zcpyCall'[a].buf = buf /\ zcpyCall'[a].bit = bit /\ ZcpyBusy(a)'
        /\ \A c \in ZcpyCores : c # a =>
            /\ zcpyCall'[c].step = zcpyCall[c].step /\ zcpyCall'[c].buf = zcpyCall[c].buf
            /\ zcpyCall'[c].bit = zcpyCall[c].bit /\ (ZcpyBusy(c)' <=> ZcpyBusy(c))
    BY <2>1, <2>2, <2>5, ZcpyGoesOnTo
  <2> HIDE DEF old, buf, bit
  <2>7. ZcpyEntries'
    <3>1. ASSUME NEW b \in ZcpyBits, zcpyBitmap'[b] # ZcpyNull
          PROVE  b \in zcpyBitset' /\
               (zcpyBitmap'[b] \in zcpyMarked' \/
                \E c \in ZcpyCores : zcpyCall'[c].step = "zero" /\ zcpyCall'[c].bit = b)
      <4>1. b # bit /\ zcpyBitmap'[b] = zcpyBitmap[b]
        BY <2>3, <3>1
      <4>2. b \in zcpyBitset /\ (zcpyBitmap[b] \in zcpyMarked \/
             \E c \in ZcpyCores : zcpyCall[c].step = "zero" /\ zcpyCall[c].bit = b)
        BY <1>1, <3>1, <4>1 DEF ZcpyEntries
      <4> QED
        BY <1>2, <2>1, <2>6, <4>1, <4>2 DEF bit, old
    <3>2. ASSUME NEW b \in zcpyBitset', zcpyBitmap'[b] = ZcpyNull
          PROVE  \E c \in ZcpyCores : ZcpyBusy(c)' /\ zcpyCall'[c].bit = b
      <4>1. CASE b = bit
        BY <2>6, <4>1
      <4>2. CASE b # bit
        <5>1. b \in zcpyBitset /\ b \in ZcpyBits /\ zcpyBitmap[b] = ZcpyNull
          BY <1>1, <2>1, <2>3, <3>2, <4>2 DEF ZcpyTableOK
        <5>2. PICK c \in ZcpyCores : ZcpyBusy(c) /\ zcpyCall[c].bit = b
          BY <1>1, <5>1 DEF ZcpyEntries
        <5> QED
          BY <2>6, <4>2, <5>2 DEF bit, old
      <4> QED
        BY <4>1, <4>2
    <3>3. \A b, c \in ZcpyBits : zcpyBitmap'[b] = zcpyBitmap'[c] /\ b # c => zcpyBitmap'[b] = ZcpyNull
      BY <1>1, <2>3 DEF ZcpyEntries
    <3>4. ASSUME NEW m \in zcpyMarked' PROVE \E b \in ZcpyBits : zcpyBitmap'[b] = m
      <4>1. PICK b \in ZcpyBits : zcpyBitmap[b] = m
        BY <1>1, <1>2, <3>4 DEF ZcpyEntries
      <4>2. b # bit
        BY <1>2, <1>3, <1>6, <3>4, <4>1
      <4> QED
        BY <2>3, <4>1, <4>2
    <3> QED
      BY <3>1, <3>2, <3>3, <3>4 DEF ZcpyEntries
  <2>8. ZcpyChanges'
    <3>1. ASSUME NEW c \in ZcpyCores, ZcpyBusy(c)'
          PROVE  /\ zcpyCall'[c].bit \in zcpyBitset' /\ zcpyCall'[c].buf \notin zcpyMarked'
                 /\ zcpyBitmap'[zcpyCall'[c].bit] =
                       (IF zcpyCall'[c].step = "zero" THEN zcpyCall'[c].buf ELSE ZcpyNull)
      <4>1. CASE c = a
        BY <1>2, <1>3, <2>1, <2>3, <2>6, <4>1
      <4>2. CASE c # a
        <5>1. ZcpyBusy(c) /\ zcpyCall[c].bit # bit
          BY <1>4, <2>6, <3>1, <4>2
        <5>2. zcpyCall[c].bit \in ZcpyBits
          BY <1>1, <5>1 DEF ZcpyChanges, ZcpyTableOK
        <5> QED
          BY <1>1, <1>2, <2>1, <2>3, <2>6, <4>2, <5>1, <5>2 DEF ZcpyChanges
      <4> QED
        BY <4>1, <4>2
    <3>2. ASSUME NEW c \in ZcpyCores, NEW d \in ZcpyCores, ZcpyBusy(c)', ZcpyBusy(d)', c # d
          PROVE  zcpyCall'[c].bit # zcpyCall'[d].bit /\ zcpyCall'[c].buf # zcpyCall'[d].buf
      <4>1. CASE c = a \/ d = a
        BY <1>4, <2>6, <3>2, <4>1
      <4>2. CASE c # a /\ d # a
        BY <1>1, <2>6, <3>2, <4>2 DEF ZcpyChanges
      <4> QED
        BY <4>1, <4>2
    <3> QED
      BY <3>1, <3>2 DEF ZcpyChanges
  <2>9. ZcpySearches'
    <3>1. ZcpySearch(a)'
      BY <2>6 DEF ZcpySearch, ZcpyScans
    <3>2. ASSUME NEW b \in zcpyBitset, zcpyBitmap[b] \in zcpyMarked
          PROVE  b \in zcpyBitset' /\ zcpyBitmap'[b] = zcpyBitmap[b]
      <4>1. b # bit /\ b \in ZcpyBits
        BY <1>1, <1>3, <1>6, <3>2 DEF ZcpyTableOK
      <4> QED
        BY <2>1, <2>3, <4>1
    <3> QED
      BY <2>1, <2>2, <3>1, <3>2, ZcpySearchesKeep
  <2> QED
    BY <2>4, <2>7, <2>8, <2>9 DEF ZcpyTableInv
<1>7. CASE old.step = "clear"
  <2>1. /\ zcpyBitset' = zcpyBitset \ {bit} /\ ZcpyGoesOn(a, ZcpyNoCall) /\ zcpyBitmap' = zcpyBitmap
    BY <1>7 DEF ZcpyClear, ZcpyAt
  <2>2. ~(ZcpyNoCall.step \in ZcpyBusySteps) /\ zcpyBitmap[bit] = ZcpyNull
    BY <1>3, <1>7, ZcpyNoCallIs DEF ZcpyBusySteps
  <2>3. /\ zcpyCall'[a].step = "idle" /\ ~ZcpyBusy(a)'
        /\ \A c \in ZcpyCores : c # a =>
            /\ zcpyCall'[c].step = zcpyCall[c].step /\ zcpyCall'[c].buf = zcpyCall[c].buf
            /\ zcpyCall'[c].bit = zcpyCall[c].bit /\ (ZcpyBusy(c)' <=> ZcpyBusy(c))
    BY <2>1, <2>2, ZcpyNoCallIs, ZcpyGoesOnTo
  <2>4. ZcpyTableOK'
    <3>1. zcpyBitset' \subseteq ZcpyBits
      BY <1>1, <2>1 DEF ZcpyTableOK
    <3> QED
      BY <1>1, <1>2, <2>1, <3>1, ZcpyNoCallIs, ZcpyTableTypes DEF ZcpyTableOK
  <2>5. ZcpyEntries'
    <3>1. ASSUME NEW b \in ZcpyBits, zcpyBitmap[b] # ZcpyNull
          PROVE  b \in zcpyBitset' /\
               (zcpyBitmap[b] \in zcpyMarked \/
                \E c \in ZcpyCores : zcpyCall'[c].step = "zero" /\ zcpyCall'[c].bit = b)
      <4>1. b # bit
        BY <2>2, <3>1
      <4>2. b \in zcpyBitset /\ (zcpyBitmap[b] \in zcpyMarked \/
             \E c \in ZcpyCores : zcpyCall[c].step = "zero" /\ zcpyCall[c].bit = b)
        BY <1>1, <3>1 DEF ZcpyEntries
      <4> QED
        BY <1>7, <2>1, <2>3, <4>1, <4>2
    <3>2. ASSUME NEW b \in zcpyBitset', zcpyBitmap[b] = ZcpyNull
          PROVE  \E c \in ZcpyCores : ZcpyBusy(c)' /\ zcpyCall'[c].bit = b
      <4>1. b \in zcpyBitset /\ b # bit
        BY <2>1
      <4>2. PICK c \in ZcpyCores : ZcpyBusy(c) /\ zcpyCall[c].bit = b
        BY <1>1, <3>2, <4>1 DEF ZcpyEntries
      <4> QED
        BY <2>3, <4>1, <4>2
    <3> QED
      BY <1>1, <1>2, <2>1, <3>1, <3>2 DEF ZcpyEntries
  <2>6. ZcpyChanges'
    <3>1. ASSUME NEW c \in ZcpyCores, ZcpyBusy(c)'
          PROVE  c # a /\ ZcpyBusy(c) /\ zcpyCall[c].bit # bit
      BY <1>4, <2>3, <3>1
    <3> QED
      BY <1>1, <1>2, <2>1, <2>3, <3>1 DEF ZcpyChanges
  <2>7. ZcpySearches'
    <3>1. ZcpySearch(a)'
      BY <2>3 DEF ZcpySearch, ZcpyScans
    <3>2. ASSUME NEW b \in zcpyBitset, zcpyBitmap[b] \in zcpyMarked
          PROVE  b \in zcpyBitset' /\ zcpyBitmap'[b] = zcpyBitmap[b]
      <4>1. b # bit
        BY <1>1, <2>2, <3>2, ZcpyAssumption DEF ZcpyTableOK
      <4> QED
        BY <2>1, <4>1
    <3> QED
      BY <2>1, <3>1, <3>2, ZcpyNoCallIs, ZcpySearchesKeep
  <2> QED
    BY <2>4, <2>5, <2>6, <2>7 DEF ZcpyTableInv
<1> QED
  BY <1>2, <1>6, <1>7

\* A step that only asks, or that goes on asking.
LEMMA ZcpyAskKeeps ==
  ASSUME ZcpyTableInv, NEW a \in ZcpyCores, NEW call \in ZcpyCalls, ZcpyGoesOn(a, call),
         ~ZcpyBusy(a), call.step \notin ZcpyBusySteps, call.step # "idle" => call.buf \in ZcpyBufs,
         UNCHANGED <<zcpyBitset, zcpyBitmap, zcpyMarked>>, ZcpySearch(a)'
  PROVE  ZcpyTableInv'
<1>1. ZcpyTableOK /\ ZcpyEntries /\ ZcpyChanges /\ ZcpySearches
  BY DEF ZcpyTableInv
<1>2. /\ zcpyCall'[a].step = call.step /\ ~ZcpyBusy(a)'
      /\ \A c \in ZcpyCores : c # a =>
            /\ zcpyCall'[c].step = zcpyCall[c].step /\ zcpyCall'[c].buf = zcpyCall[c].buf
            /\ zcpyCall'[c].bit = zcpyCall[c].bit /\ (ZcpyBusy(c)' <=> ZcpyBusy(c))
  BY ZcpyGoesOnTo
<1>3. ZcpyTableOK'
  BY <1>1, ZcpyTableTypes DEF ZcpyTableOK
<1>4. \A c \in ZcpyCores : ZcpyBusy(c) => c # a
  OBVIOUS
<1>5. \A c \in ZcpyCores : zcpyCall[c].step = "zero" => ZcpyBusy(c)
  BY DEF ZcpyBusy, ZcpyBusySteps
<1>6. ZcpyEntries'
  <2>1. ASSUME NEW b \in ZcpyBits, zcpyBitmap[b] # ZcpyNull
        PROVE  b \in zcpyBitset /\
               (zcpyBitmap[b] \in zcpyMarked \/
                \E c \in ZcpyCores : zcpyCall'[c].step = "zero" /\ zcpyCall'[c].bit = b)
    <3>1. b \in zcpyBitset /\ (zcpyBitmap[b] \in zcpyMarked \/
             \E c \in ZcpyCores : zcpyCall[c].step = "zero" /\ zcpyCall[c].bit = b)
      BY <1>1, <2>1 DEF ZcpyEntries
    <3> QED
      BY <1>2, <1>4, <1>5, <3>1
  <2>2. ASSUME NEW b \in zcpyBitset, zcpyBitmap[b] = ZcpyNull
        PROVE  \E c \in ZcpyCores : ZcpyBusy(c)' /\ zcpyCall'[c].bit = b
    <3>1. PICK c \in ZcpyCores : ZcpyBusy(c) /\ zcpyCall[c].bit = b
      BY <1>1, <2>2 DEF ZcpyEntries
    <3> QED
      BY <1>2, <1>4, <3>1
  <2> QED
    BY <1>1, <2>1, <2>2 DEF ZcpyEntries
<1>7. ZcpyChanges'
  <2>1. \A c \in ZcpyCores : ZcpyBusy(c)' =>
            /\ ZcpyBusy(c) /\ zcpyCall'[c].step = zcpyCall[c].step
            /\ zcpyCall'[c].buf = zcpyCall[c].buf /\ zcpyCall'[c].bit = zcpyCall[c].bit
    BY <1>2
  <2> QED
    BY <1>1, <2>1 DEF ZcpyChanges
<1>8. ZcpySearches'
  BY ZcpySearchesKeep
<1> QED
  BY <1>3, <1>6, <1>7, <1>8 DEF ZcpyTableInv

LEMMA ZcpyAskIsKept ==
  ASSUME ZcpyTableInv, NEW a \in ZcpyCores, NEW buf \in ZcpyBufs, ZcpyAsk(a, buf)
  PROVE  ZcpyTableInv'
<1> DEFINE call == [ZcpyNoCall EXCEPT !.step = "look", !.buf = buf, !.bit = Min(ZcpyBits)]
<1>1. /\ zcpyCall[a].step = "idle" /\ ZcpyGoesOn(a, call)
      /\ zcpyBitset' = zcpyBitset /\ zcpyBitmap' = zcpyBitmap /\ zcpyMarked' = zcpyMarked
  BY DEF ZcpyAsk, ZcpyAt
<1>2. Min(ZcpyBits) = 1 /\ 1 \in ZcpyBits
  BY ZcpyBitsAre
<1>3. /\ call \in ZcpyCalls /\ call.step = "look" /\ call.buf = buf /\ call.bit = 1
      /\ call.may = {} /\ call.answer = FALSE
  BY <1>2, ZcpyNoCallIs DEF ZcpyCalls
<1> HIDE DEF call
<1>4. ~ZcpyBusy(a) /\ call.step \notin ZcpyBusySteps
  BY <1>1, <1>3 DEF ZcpyBusy, ZcpyBusySteps
<1>5. /\ zcpyCall'[a].step = "look" /\ zcpyCall'[a].buf = buf
      /\ zcpyCall'[a].bit = 1 /\ zcpyCall'[a].answer = FALSE
      /\ zcpyCall'[a].may = ZcpyInUseNow(buf)
  BY <1>1, <1>3, ZcpyGoesOnIs DEF ZcpyTableInv
<1>6. ASSUME FALSE \notin zcpyCall'[a].may
      PROVE  \E bit \in zcpyBitset' : zcpyBitmap'[bit] = buf /\ 1 <= bit
  <2>1. buf \in zcpyMarked /\ buf # ZcpyNull
    BY <1>5, <1>6, ZcpyUseIs, ZcpyAssumption
  <2>2. PICK bit \in ZcpyBits : zcpyBitmap[bit] = buf
    BY <2>1 DEF ZcpyTableInv, ZcpyEntries
  <2>3. bit \in zcpyBitset
    BY <2>1, <2>2 DEF ZcpyTableInv, ZcpyEntries
  <2>4. 1 <= bit
    BY <2>2, ZcpyBitsAre
  <2> QED
    BY <1>1, <2>2, <2>3, <2>4
<1>7. ZcpySearch(a)'
  BY <1>2, <1>5, <1>6 DEF ZcpySearch, ZcpyScans
<1> QED
  BY <1>1, <1>3, <1>4, <1>7, ZcpyAskKeeps

LEMMA ZcpyLookKeeps ==
  ASSUME ZcpyTableInv, NEW a \in ZcpyCores, ZcpyLook(a)
  PROVE  ZcpyTableInv'
<1> DEFINE old == zcpyCall[a]
           next == IF old.bit = Max(ZcpyBits) THEN [old EXCEPT !.step = "answered"]
                   ELSE [old EXCEPT !.step = "look", !.bit = @ + 1]
           bit == old.bit
<1>1. ZcpyTableOK /\ ZcpyEntries /\ ZcpyChanges /\ ZcpySearch(a)
  BY DEF ZcpyTableInv, ZcpySearches
<1>2. UNCHANGED <<zcpyBitset, zcpyBitmap, zcpyMarked>>
  BY DEF ZcpyLook
<1>3. /\ old \in ZcpyCalls /\ (old.step # "idle" => old.buf \in ZcpyBufs)
  BY <1>1 DEF ZcpyTableOK
<1>4. old.step \in {"look", "bit", "answered"} /\ ~ZcpyBusy(a)
  BY DEF ZcpyLook, ZcpyAt, ZcpyBusy, ZcpyBusySteps
\* The next entry, or the end.
<1>5. ASSUME old.step \in {"look", "bit"}
      PROVE  /\ next \in ZcpyCalls /\ next.buf = old.buf /\ next.answer = FALSE /\ next.may = old.may
             /\ IF bit = Max(ZcpyBits) THEN next.step = "answered"
                ELSE next.step = "look" /\ next.bit = bit + 1 /\ bit + 1 \in ZcpyBits
  <2>1. bit \in ZcpyBits /\ old.answer = FALSE
    BY <1>1, <1>5 DEF ZcpySearch, ZcpyScans
  <2>2. bit # Max(ZcpyBits) => bit + 1 \in ZcpyBits
    BY <2>1, ZcpyBitsAre
  <2>3. CASE bit = Max(ZcpyBits)
    BY <1>3, <2>1, <2>3 DEF ZcpyCalls
  <2>4. CASE bit # Max(ZcpyBits)
    <3>1. next = [old EXCEPT !.step = "look", !.bit = bit + 1]
      BY <2>4
    <3>2. next \in ZcpyCalls /\ next.buf = old.buf /\ next.answer = old.answer /\ next.may = old.may
          /\ next.step = "look" /\ next.bit = bit + 1
      BY <1>3, <2>2, <2>4, <3>1 DEF ZcpyCalls
    <3> QED
      BY <2>1, <2>2, <2>4, <3>2
  <2> QED
    BY <2>3, <2>4
\* The entry at which it looks is not the one.
<1>6. ASSUME old.step \in {"look", "bit"}, ZcpyGoesOn(a, next),
             \A b \in zcpyBitset : zcpyBitmap[b] = old.buf => b # bit
      PROVE  ZcpyTableInv'
  <2> HIDE DEF next
  <2>0. old.buf \in ZcpyBufs /\ bit \in ZcpyBits
    BY <1>1, <1>3, <1>6 DEF ZcpySearch, ZcpyScans
  <2>1. /\ next \in ZcpyCalls /\ next.buf = old.buf /\ next.answer = FALSE /\ next.may = old.may
        /\ IF bit = Max(ZcpyBits) THEN next.step = "answered"
           ELSE next.step = "look" /\ next.bit = bit + 1 /\ bit + 1 \in ZcpyBits
    BY <1>5, <1>6
  <2>2. FALSE \notin old.may => \E b \in zcpyBitset : zcpyBitmap[b] = old.buf /\ bit < b
    <3> SUFFICES ASSUME FALSE \notin old.may
                 PROVE  \E b \in zcpyBitset : zcpyBitmap[b] = old.buf /\ bit < b
      OBVIOUS
    <3>1. PICK b \in zcpyBitset : zcpyBitmap[b] = old.buf /\ bit <= b
      BY <1>1, <1>6 DEF ZcpySearch, ZcpyScans
    <3>2. b # bit
      BY <1>6, <3>1
    <3>3. b \in Int /\ bit \in Int
      BY <1>1, <2>0, ZcpyBitsAre DEF ZcpyTableOK
    <3> QED
      BY <3>1, <3>2, <3>3
  <2>3. CASE bit = Max(ZcpyBits)
    <3>1. FALSE \in old.may
      <4>1. \A b \in zcpyBitset : ~(bit < b)
        BY <1>1, <2>3, ZcpyBitsAre DEF ZcpyTableOK
      <4> QED
        BY <2>2, <4>1
    <3>2. zcpyCall'[a].step = "answered" /\ zcpyCall'[a].answer = FALSE /\ FALSE \in zcpyCall'[a].may
      BY <1>1, <1>6, <2>1, <2>3, <3>1, ZcpyGoesOnIs
    <3>3. ZcpySearch(a)'
      BY <3>2 DEF ZcpySearch, ZcpyScans
    <3>4. next.step \notin ZcpyBusySteps
      BY <2>1, <2>3 DEF ZcpyBusySteps
    <3> QED
      BY <1>2, <1>4, <1>6, <2>0, <2>1, <3>3, <3>4, ZcpyAskKeeps
  <2>4. CASE bit # Max(ZcpyBits)
    <3>1. /\ zcpyCall'[a].step = "look" /\ zcpyCall'[a].answer = FALSE /\ zcpyCall'[a].buf = old.buf
          /\ zcpyCall'[a].bit = bit + 1 /\ bit + 1 \in ZcpyBits
          /\ zcpyCall'[a].may = old.may \cup ZcpyInUseNow(old.buf)
      <4>1. /\ next.step = "look" /\ next.bit = bit + 1 /\ bit + 1 \in ZcpyBits
            /\ next.step \in {"look", "bit"}
        BY <2>1, <2>4
      <4>2. /\ zcpyCall'[a].step = next.step /\ zcpyCall'[a].answer = next.answer
            /\ zcpyCall'[a].buf = next.buf /\ zcpyCall'[a].bit = next.bit
            /\ zcpyCall'[a].may = next.may \cup ZcpyInUseNow(next.buf)
        BY <1>1, <1>6, <2>1, <4>1, ZcpyGoesOnIs
      <4> QED
        BY <2>1, <4>1, <4>2
    <3>2. FALSE \notin zcpyCall'[a].may =>
             \E b \in zcpyBitset' : zcpyBitmap'[b] = old.buf /\ bit + 1 <= b
      <4>1. \A b \in zcpyBitset : bit < b => bit + 1 <= b
        BY <1>1, <2>0, ZcpyBitsAre DEF ZcpyTableOK
      <4> QED
        BY <1>2, <2>2, <3>1, <4>1
    <3>3. ZcpySearch(a)'
      BY <3>1, <3>2 DEF ZcpySearch, ZcpyScans
    <3>4. next.step \notin ZcpyBusySteps
      BY <2>1, <2>4 DEF ZcpyBusySteps
    <3> QED
      BY <1>2, <1>4, <1>6, <2>0, <2>1, <3>3, <3>4, ZcpyAskKeeps
  <2> QED
    BY <2>3, <2>4
<1>7. CASE old.step = "look"
  <2>1. ZcpyGoesOn(a, IF zcpyBitmap[bit] = old.buf THEN [old EXCEPT !.step = "bit"] ELSE next)
    BY <1>7 DEF ZcpyLook, ZcpyAt
  <2>2. CASE zcpyBitmap[bit] # old.buf
    <3>1. ZcpyGoesOn(a, next)
      BY <2>1, <2>2
    <3> HIDE DEF next
    <3> QED
      BY <1>6, <1>7, <2>2, <3>1
  <2>3. CASE zcpyBitmap[bit] = old.buf
    <3> DEFINE call == [old EXCEPT !.step = "bit"]
    <3>1. ZcpyGoesOn(a, call)
      BY <2>1, <2>3
    <3>2. /\ call \in ZcpyCalls /\ call.step = "bit" /\ call.buf = old.buf /\ call.bit = bit
          /\ call.may = old.may /\ call.answer = old.answer
      BY <1>3 DEF ZcpyCalls
    <3> HIDE DEF call
    <3>3. /\ bit \in ZcpyBits /\ old.answer = FALSE /\ old.buf \in ZcpyBufs /\ bit <= bit
          /\ old.buf # ZcpyNull
      <4>1. bit \in ZcpyBits /\ old.answer = FALSE /\ old.buf \in ZcpyBufs
        BY <1>1, <1>3, <1>7 DEF ZcpySearch, ZcpyScans
      <4> QED
        BY <4>1, ZcpyBitsAre, ZcpyAssumption
    <3>4. /\ zcpyCall'[a].step = "bit" /\ zcpyCall'[a].buf = old.buf /\ zcpyCall'[a].bit = bit
          /\ zcpyCall'[a].answer = FALSE /\ zcpyCall'[a].may = old.may \cup ZcpyInUseNow(old.buf)
      BY <1>1, <3>1, <3>2, <3>3, ZcpyGoesOnIs
    <3>5. bit \in zcpyBitset /\ TRUE \in ZcpyInUseNow(old.buf)
      <4>1. bit \in zcpyBitset /\
            (zcpyBitmap[bit] \in zcpyMarked \/
             \E c \in ZcpyCores : zcpyCall[c].step = "zero" /\ zcpyCall[c].bit = bit)
        BY <1>1, <2>3, <3>3 DEF ZcpyEntries
      <4>2. \A c \in ZcpyCores : zcpyCall[c].step = "zero" /\ zcpyCall[c].bit = bit =>
                ZcpyBusy(c) /\ zcpyCall[c].buf = old.buf
        BY <1>1, <2>3 DEF ZcpyChanges, ZcpyBusy, ZcpyBusySteps
      <4> QED
        BY <2>3, <4>1, <4>2, ZcpyUseIs
    <3>6. ZcpySearch(a)'
      BY <1>2, <2>3, <3>3, <3>4, <3>5 DEF ZcpySearch, ZcpyScans
    <3>7. call.step \notin ZcpyBusySteps
      BY <3>2 DEF ZcpyBusySteps
    <3> QED
      BY <1>2, <1>4, <3>1, <3>2, <3>3, <3>6, <3>7, ZcpyAskKeeps
  <2> QED
    BY <2>2, <2>3
<1>8. CASE old.step = "bit"
  <2>1. ZcpyGoesOn(a, IF bit \in zcpyBitset THEN [old EXCEPT !.step = "answered", !.answer = TRUE]
                      ELSE next)
    BY <1>8 DEF ZcpyLook, ZcpyAt
  <2>2. CASE bit \notin zcpyBitset
    <3>1. ZcpyGoesOn(a, next)
      BY <2>1, <2>2
    <3> HIDE DEF next
    <3> QED
      BY <1>6, <1>8, <2>2, <3>1
  <2>3. CASE bit \in zcpyBitset
    <3> DEFINE call == [old EXCEPT !.step = "answered", !.answer = TRUE]
    <3>1. ZcpyGoesOn(a, call)
      BY <2>1, <2>3
    <3>2. /\ call \in ZcpyCalls /\ call.step = "answered" /\ call.buf = old.buf
          /\ call.may = old.may /\ call.answer = TRUE
      BY <1>3 DEF ZcpyCalls
    <3> HIDE DEF call
    <3>3. TRUE \in old.may /\ old.buf \in ZcpyBufs
      BY <1>1, <1>3, <1>8 DEF ZcpySearch
    <3>4. zcpyCall'[a].step = "answered" /\ zcpyCall'[a].answer = TRUE /\ TRUE \in zcpyCall'[a].may
      BY <1>1, <3>1, <3>2, <3>3, ZcpyGoesOnIs
    <3>5. ZcpySearch(a)'
      BY <3>4 DEF ZcpySearch, ZcpyScans
    <3>6. call.step \notin ZcpyBusySteps
      BY <3>2 DEF ZcpyBusySteps
    <3> QED
      BY <1>2, <1>4, <3>1, <3>2, <3>3, <3>5, <3>6, ZcpyAskKeeps
  <2> QED
    BY <2>2, <2>3
<1>9. CASE old.step = "answered"
  <2>1. ZcpyGoesOn(a, ZcpyNoCall)
    BY <1>9 DEF ZcpyLook, ZcpyAt
  <2>2. zcpyCall'[a].step = "idle"
    BY <1>1, <2>1, ZcpyNoCallIs, ZcpyGoesOnIs
  <2>3. ZcpySearch(a)'
    BY <2>2 DEF ZcpySearch, ZcpyScans
  <2>4. ZcpyNoCall.step \notin ZcpyBusySteps
    BY ZcpyNoCallIs DEF ZcpyBusySteps
  <2> QED
    BY <1>2, <1>4, <2>1, <2>3, <2>4, ZcpyNoCallIs, ZcpyAskKeeps
<1> QED
  BY <1>4, <1>7, <1>8, <1>9

LEMMA ZcpyTableStarts == ASSUME ZcpyInit PROVE ZcpyTableInv
<1>1. /\ zcpyBitset = {} /\ zcpyBitmap = [bit \in ZcpyBits |-> ZcpyNull]
      /\ zcpyCall = [a \in ZcpyCores |-> ZcpyNoCall] /\ zcpyMarked = {}
  BY DEF ZcpyInit
<1>2. \A a \in ZcpyCores : zcpyCall[a].step = "idle"
  BY <1>1, ZcpyNoCallIs
<1>3. ZcpyTableOK
  BY <1>1, <1>2, ZcpyNoCallIs DEF ZcpyTableOK
<1>4. ZcpyEntries
  BY <1>1 DEF ZcpyEntries
<1>5. ZcpyChanges
  BY <1>2 DEF ZcpyChanges, ZcpyBusy, ZcpyBusySteps
<1>6. ZcpySearches
  BY <1>2 DEF ZcpySearches, ZcpySearch, ZcpyScans
<1> QED
  BY <1>3, <1>4, <1>5, <1>6 DEF ZcpyTableInv

LEMMA ZcpyTableKeeps ==
  ASSUME ZcpyTableInv, ZcpyTableNext \/ UNCHANGED zcpyTableVars
  PROVE  ZcpyTableInv'
<1>1. CASE ZcpyTableNext
  BY <1>1, ZcpyFillKeeps, ZcpyClearKeeps, ZcpyLookKeeps, ZcpyMarkKeeps, ZcpyUnmarkKeeps, ZcpyAskIsKept
     DEF ZcpyTableNext
<1>2. CASE UNCHANGED zcpyTableVars
  <2>1. /\ zcpyBitset' = zcpyBitset /\ zcpyBitmap' = zcpyBitmap
        /\ zcpyCall' = zcpyCall /\ zcpyMarked' = zcpyMarked
    BY <1>2 DEF zcpyTableVars
  <2>2. ZcpyTableOK' /\ ZcpyEntries' /\ ZcpyChanges'
    BY <2>1 DEF ZcpyTableInv, ZcpyTableOK, ZcpyEntries, ZcpyChanges, ZcpyBusy
  <2>3. ZcpySearches'
    BY <2>1 DEF ZcpyTableInv, ZcpySearches, ZcpySearch, ZcpyScans
  <2> QED
    BY <2>2, <2>3 DEF ZcpyTableInv
<1> QED
  BY <1>1, <1>2

LEMMA ZcpyTableServes == ASSUME ZcpyTableInv PROVE ZcpyInUse
<1>1. ZcpyTableOK /\ ZcpyEntries /\ ZcpyChanges /\ ZcpySearches
  BY DEF ZcpyTableInv
<1>2. \A a \in ZcpyCores : ZcpyAt(a, "answered") => zcpyCall[a].answer \in zcpyCall[a].may
  BY <1>1 DEF ZcpySearches, ZcpySearch, ZcpyAt
<1>3. ASSUME NEW buf \in ZcpyBufs, ZcpyInUseNow(buf) # BOOLEAN
      PROVE  Cardinality({bit \in zcpyBitset : zcpyBitmap[bit] = buf})
               = (IF buf \in zcpyMarked THEN 1 ELSE 0)
  <2> DEFINE has == {bit \in zcpyBitset : zcpyBitmap[bit] = buf}
  <2>1. \A a \in ZcpyCores : ~(ZcpyBusy(a) /\ zcpyCall[a].buf = buf)
    BY <1>3 DEF ZcpyInUseNow, ZcpyBusy, ZcpyBusySteps
  <2>2. buf # ZcpyNull
    BY ZcpyAssumption
  <2>3. CASE buf \in zcpyMarked
    <3>1. PICK bit \in ZcpyBits : zcpyBitmap[bit] = buf
      BY <1>1, <2>3 DEF ZcpyEntries
    <3>2. bit \in zcpyBitset /\ \A b \in ZcpyBits : zcpyBitmap[b] = buf => b = bit
      BY <1>1, <2>2, <3>1 DEF ZcpyEntries
    <3>3. has = {bit}
      BY <1>1, <3>1, <3>2 DEF ZcpyTableOK
    <3> QED
      BY <2>3, <3>3, FS_Singleton
  <2>4. CASE buf \notin zcpyMarked
    <3>1. ASSUME NEW bit \in zcpyBitset, zcpyBitmap[bit] = buf PROVE FALSE
      <4>1. PICK a \in ZcpyCores : zcpyCall[a].step = "zero" /\ zcpyCall[a].bit = bit
        BY <1>1, <2>2, <2>4, <3>1 DEF ZcpyEntries, ZcpyTableOK
      <4>2. ZcpyBusy(a)
        BY <4>1 DEF ZcpyBusy, ZcpyBusySteps
      <4>3. zcpyCall[a].buf = buf
        BY <1>1, <3>1, <4>1, <4>2 DEF ZcpyChanges
      <4> QED
        BY <2>1, <4>2, <4>3
    <3>2. has = {}
      BY <3>1
    <3> QED
      BY <2>4, <3>2, FS_EmptySet
  <2> QED
    BY <2>3, <2>4
<1>4. ASSUME \A a \in ZcpyCores : zcpyCall[a].step \notin {"fill", "zero", "clear"}
      PROVE  Cardinality(zcpyBitset) = Cardinality(zcpyMarked)
  <2>1. \A a \in ZcpyCores : ~ZcpyBusy(a) /\ zcpyCall[a].step # "zero"
    BY <1>4 DEF ZcpyBusy, ZcpyBusySteps
  <2>2. IsFiniteSet(zcpyBitset)
    BY <1>1, ZcpyAssumption, FS_Subset DEF ZcpyTableOK
  <2> DEFINE f == [bit \in zcpyBitset |-> zcpyBitmap[bit]]
  <2>3. \A bit \in zcpyBitset : zcpyBitmap[bit] # ZcpyNull /\ zcpyBitmap[bit] \in zcpyMarked
    BY <1>1, <2>1 DEF ZcpyEntries, ZcpyTableOK
  <2>4. \A b, c \in zcpyBitset : zcpyBitmap[b] = zcpyBitmap[c] => b = c
    BY <1>1, <2>3 DEF ZcpyEntries, ZcpyTableOK
  <2>5. \A m \in zcpyMarked : \E bit \in zcpyBitset : zcpyBitmap[bit] = m
    <3> SUFFICES ASSUME NEW m \in zcpyMarked PROVE \E bit \in zcpyBitset : zcpyBitmap[bit] = m
      OBVIOUS
    <3>1. m # ZcpyNull
      BY <1>1, ZcpyAssumption DEF ZcpyTableOK
    <3>2. PICK bit \in ZcpyBits : zcpyBitmap[bit] = m
      BY <1>1 DEF ZcpyEntries
    <3>3. bit \in zcpyBitset
      BY <1>1, <3>1, <3>2 DEF ZcpyEntries
    <3> QED
      BY <3>2, <3>3
  <2>6. f \in Bijection(zcpyBitset, zcpyMarked)
    <3>1. f \in [zcpyBitset -> zcpyMarked]
      BY <2>3
    <3>2. \A b, c \in zcpyBitset : f[b] = f[c] => b = c
      BY <2>4
    <3>3. \A m \in zcpyMarked : \E bit \in zcpyBitset : f[bit] = m
      BY <2>5
    <3> HIDE DEF f
    <3> QED
      BY <3>1, <3>2, <3>3 DEF Bijection, Injection, Surjection, IsInjective
  <2>7. ExistsBijection(zcpyBitset, zcpyMarked)
    BY <2>6 DEF ExistsBijection
  <2> QED
    BY <2>2, <2>7, FS_Bijection
<1> QED
  BY <1>2, <1>3, <1>4 DEF ZcpyInUse
---------------------------------------------------------------------------
(***************************************************************************)
(* ZeroCopy: the rings.                                                    *)
(*                                                                         *)
(* A ring holds what was put into it and not taken, in its order; whoever  *)
(* takes an element has the first; and for every buffer that waits for a   *)
(* handler, and one that waits for a task that sleeps, its id is on the way.*)
(***************************************************************************)
ZcpyRings == ZcpyIds \cup {0}
ZcpyThings(r) == IF r = 0 THEN ZcpyIds ELSE ZcpyBufs
ZcpyDist(p, q, r) == IF p <= q THEN q - p ELSE q - p + 2 * ZcpySize[r]
ZcpyPlace(p, r) == IF p < ZcpySize[r] THEN p
                   ELSE IF p < 2 * ZcpySize[r] THEN p - ZcpySize[r] ELSE p - 2 * ZcpySize[r]
ZcpyRingOf(r) == [wb : 0..(2 * ZcpySize[r] - 1), rd : 0..(2 * ZcpySize[r] - 1),
                  elems : [0..(ZcpySize[r] - 1) -> ZcpyThings(r) \cup {0}]]

\* A ring holds a sequence: it has its length, and each of its elements in its place.
ZcpyHolds(ring, q, r) ==
    /\ ring \in ZcpyRingOf(r) /\ q \in Seq(ZcpyThings(r))
    /\ Len(q) = ZcpyDist(ring.rd, ring.wb, r) /\ Len(q) <= ZcpySize[r]
    /\ \A n \in 1..Len(q) : q[n] = ring.elems[ZcpyPlace(ring.rd + n - 1, r)]

ZcpyHeld ==
    /\ zcpyRing \in [ZcpyRings -> UNION {ZcpyRingOf(r) : r \in ZcpyRings}]
    /\ zcpyOwed \in [ZcpyRings -> UNION {Seq(ZcpyThings(r)) : r \in ZcpyRings}]
    /\ \A r \in ZcpyRings : ZcpyHolds(zcpyRing[r], zcpyOwed[r], r)

ZcpyRingOK ==
    /\ zcpySend \in [step : {"idle", "put buffer", "id", "put id", "raise"},
                     id : ZcpyRings, buf : ZcpyBufs \cup {ZcpyNull}]
    /\ zcpySend.step # "idle" => zcpySend.id \in ZcpyIds /\ zcpySend.buf \in ZcpyBufs
    /\ zcpyIsr \in [step : {"idle", "read", "take", "get", "got"},
                    id : ZcpyRings, buf : ZcpyBufs \cup {ZcpyNull}]
    /\ zcpyIsr.step \in {"take", "get", "got"} => zcpyIsr.id \in ZcpyIds
    /\ zcpyTask \in [ZcpyIds -> [step : {"run", "asleep", "get", "got"}, buf : ZcpyBufs \cup {ZcpyNull}]]
    /\ zcpyHandler \subseteq ZcpyHandled

\* A ring whose next place has an element already, and room for it.
ZcpyReady(r, elem) ==
    /\ Len(zcpyOwed[r]) < ZcpySize[r]
    /\ zcpyRing[r].elems[ZcpyPlace(zcpyRing[r].wb, r)] = elem
ZcpyPending ==
    /\ zcpySend.step = "put buffer" => ZcpyReady(zcpySend.id, zcpySend.buf)
    /\ zcpySend.step = "put id" => ZcpyReady(0, zcpySend.id)

\* What is in the hands of who takes it is the first of its ring.
ZcpyFirst(r, elem) == zcpyOwed[r] # <<>> /\ elem = Head(zcpyOwed[r])
ZcpyHands ==
    /\ zcpyIsr.step = "take" => ZcpyFirst(0, zcpyIsr.id)
    /\ zcpyIsr.step = "got" => ZcpyFirst(zcpyIsr.id, zcpyIsr.buf)
    /\ \A id \in ZcpyIds : zcpyTask[id].step = "got" => ZcpyFirst(id, zcpyTask[id].buf)

\* Handlers and tasks have ids of their own; nothing is sent to an id that has no handler yet.
ZcpyOwners ==
    /\ zcpyIsr.step \in {"get", "got"} => zcpyIsr.id \in zcpyHandler
    /\ \A id \in ZcpyIds : zcpyTask[id].step # "run" => id \notin ZcpyHandled
    /\ \A id \in ZcpyIds : zcpyTask[id].step = "asleep" => id \in zcpyTasks
    /\ \A id \in ZcpyHandled \ zcpyHandler :
          zcpyOwed[id] = <<>> /\ (zcpySend.step # "idle" => zcpySend.id # id)

ZcpyRingInv == ZcpyHeld /\ ZcpyRingOK /\ ZcpyPending /\ ZcpyHands /\ ZcpyOwners /\ ZcpyWoken

LEMMA ZcpySizes == ASSUME NEW r \in ZcpyRings PROVE ZcpySize[r] \in Nat \ {0}
BY ZcpyAssumption DEF ZcpyRings

LEMMA ZcpyDistIs ==
  ASSUME NEW r \in ZcpyRings, NEW p \in 0..(2 * ZcpySize[r] - 1), NEW q \in 0..(2 * ZcpySize[r] - 1)
  PROVE  (q - p) % (2 * ZcpySize[r]) = ZcpyDist(p, q, r) /\ ZcpyDist(p, q, r) \in 0..(2 * ZcpySize[r] - 1)
<1> DEFINE s == 2 * ZcpySize[r]
<1>1. s \in Nat \ {0}
  BY ZcpySizes
<1>2. ZcpyDist(p, q, r) = IF p <= q THEN q - p ELSE q - p + s
  BY DEF ZcpyDist
<1>3. p \in 0..(s - 1) /\ q \in 0..(s - 1)
  OBVIOUS
<1> SUFFICES (q - p) % s = ZcpyDist(p, q, r) /\ ZcpyDist(p, q, r) \in 0..(s - 1)
  OBVIOUS
<1> HIDE DEF s
<1>4. CASE p <= q
  BY <1>1, <1>2, <1>3, <1>4
<1>5. CASE q < p
  <2>1. (q - p) % s = q - p + s
    BY <1>1, <1>3, <1>5
  <2> QED
    BY <1>1, <1>2, <1>3, <1>5, <2>1
<1> QED
  BY <1>1, <1>3, <1>4, <1>5

LEMMA ZcpyPlaceIs ==
  ASSUME NEW r \in ZcpyRings, NEW p \in 0..(3 * ZcpySize[r] - 1)
  PROVE  p % ZcpySize[r] = ZcpyPlace(p, r) /\ ZcpyPlace(p, r) \in 0..(ZcpySize[r] - 1)
<1> DEFINE s == ZcpySize[r]
<1>1. s \in Nat \ {0}
  BY ZcpySizes
<1>2. ZcpyPlace(p, r) = IF p < s THEN p ELSE IF p < 2 * s THEN p - s ELSE p - 2 * s
  BY DEF ZcpyPlace
<1>3. p \in 0..(3 * s - 1)
  OBVIOUS
<1> SUFFICES p % s = ZcpyPlace(p, r) /\ ZcpyPlace(p, r) \in 0..(s - 1)
  OBVIOUS
<1> HIDE DEF s
<1>4. CASE p < s
  BY <1>1, <1>2, <1>3, <1>4
<1>5. CASE s <= p /\ p < 2 * s
  <2>1. p % s = p - s
    BY <1>1, <1>3, <1>5
  <2> QED
    BY <1>1, <1>2, <1>3, <1>5, <2>1
<1>6. CASE 2 * s <= p
  <2>1. p % s = p - 2 * s
    BY <1>1, <1>3, <1>6
  <2> QED
    BY <1>1, <1>2, <1>3, <1>6, <2>1
<1> QED
  BY <1>1, <1>3, <1>4, <1>5, <1>6

\* The index after p.
ZcpyAfter(p, r) == IF p + 1 = 2 * ZcpySize[r] THEN 0 ELSE p + 1

LEMMA ZcpyAfterIs ==
  ASSUME NEW r \in ZcpyRings, NEW p \in 0..(2 * ZcpySize[r] - 1)
  PROVE  CbIncr(p, r) = ZcpyAfter(p, r) /\ ZcpyAfter(p, r) \in 0..(2 * ZcpySize[r] - 1)
<1> DEFINE s == 2 * ZcpySize[r]
<1>1. s \in Nat \ {0}
  BY ZcpySizes
<1>2. ZcpyAfter(p, r) = (IF p + 1 = s THEN 0 ELSE p + 1) /\ CbIncr(p, r) = (p + 1) % s
  BY DEF ZcpyAfter, CbIncr
<1>3. p \in 0..(s - 1)
  OBVIOUS
<1> SUFFICES CbIncr(p, r) = ZcpyAfter(p, r) /\ ZcpyAfter(p, r) \in 0..(s - 1)
  OBVIOUS
<1> HIDE DEF s
<1>4. CASE p + 1 = s
  BY <1>1, <1>2, <1>3, <1>4
<1>5. CASE p + 1 # s
  BY <1>1, <1>2, <1>3, <1>5
<1> QED
  BY <1>1, <1>3, <1>4, <1>5

\* Full and empty are told by the length.
LEMMA ZcpyFullIs ==
  ASSUME NEW r \in ZcpyRings, ZcpyHolds(zcpyRing[r], zcpyOwed[r], r)
  PROVE  /\ CbFull(r) <=> Len(zcpyOwed[r]) = ZcpySize[r]
         /\ CbEmpty(r) <=> zcpyOwed[r] = <<>>
         /\ Len(zcpyOwed[r]) \in Nat
<1> DEFINE s == ZcpySize[r]
           w == zcpyRing[r].wb
           p == zcpyRing[r].rd
           q == zcpyOwed[r]
<1>1. s \in Nat \ {0}
  BY ZcpySizes
<1>2. w \in 0..(2 * s - 1) /\ p \in 0..(2 * s - 1) /\ q \in Seq(ZcpyThings(r)) /\ Len(q) = ZcpyDist(p, w, r)
  BY DEF ZcpyHolds, ZcpyRingOf
<1>3. Len(q) = IF p <= w THEN w - p ELSE w - p + 2 * s
  BY <1>2 DEF ZcpyDist
<1>4. (CbFull(r) <=> w = (p + s) % (2 * s)) /\ (CbEmpty(r) <=> w = p)
  BY DEF CbFull, CbEmpty
<1>5. q = <<>> <=> Len(q) = 0
  BY <1>2
<1>6. Len(q) \in Nat
  BY <1>2
<1> HIDE DEF s, w, p, q
<1>7. (p + s) % (2 * s) = IF p < s THEN p + s ELSE p - s
  <2>1. CASE p < s
    BY <1>1, <1>2, <2>1
  <2>2. CASE p >= s
    <3>1. (p + s) % (2 * s) = (p + s) - 2 * s
      <4> DEFINE t == 2 * s
                 n == p + s
      <4>1. t \in Nat \ {0} /\ n \in Nat /\ t <= n /\ n < 2 * t
        BY <1>1, <1>2, <2>2
      <4> SUFFICES n % t = n - t
        OBVIOUS
      <4> HIDE DEF t, n
      <4> QED
        BY <4>1
    <3> QED
      BY <1>1, <1>2, <2>2, <3>1
  <2> QED
    BY <1>1, <1>2, <2>1, <2>2
<1>8. w = (p + s) % (2 * s) <=> Len(q) = s
  BY <1>1, <1>2, <1>3, <1>7
<1>9. w = p <=> Len(q) = 0
  BY <1>1, <1>2, <1>3
<1> QED
  BY <1>4, <1>5, <1>6, <1>8, <1>9 DEF s, q

\* The places of what a ring holds, the next place, and the next indexes.
LEMMA ZcpyPlaces ==
  ASSUME NEW r \in ZcpyRings, NEW p \in 0..(2 * ZcpySize[r] - 1), NEW w \in 0..(2 * ZcpySize[r] - 1),
         ZcpyDist(p, w, r) <= ZcpySize[r]
  PROVE  /\ \A n \in 1..ZcpyDist(p, w, r) : p + n - 1 \in 0..(3 * ZcpySize[r] - 1)
         /\ ZcpyDist(p, w, r) < ZcpySize[r] =>
               /\ \A n \in 1..ZcpyDist(p, w, r) : ZcpyPlace(p + n - 1, r) # ZcpyPlace(w, r)
               /\ ZcpyPlace(p + ZcpyDist(p, w, r), r) = ZcpyPlace(w, r)
               /\ ZcpyDist(p, ZcpyAfter(w, r), r) = ZcpyDist(p, w, r) + 1
         /\ ZcpyDist(p, w, r) > 0 =>
               /\ ZcpyDist(ZcpyAfter(p, r), w, r) = ZcpyDist(p, w, r) - 1
               /\ \A n \in 1..(ZcpyDist(p, w, r) - 1) :
                     ZcpyPlace(ZcpyAfter(p, r) + n - 1, r) = ZcpyPlace(p + n, r)
<1> DEFINE s == ZcpySize[r]
<1>1. s \in Nat \ {0}
  BY ZcpySizes
<1>2. p \in 0..(2 * s - 1) /\ w \in 0..(2 * s - 1)
  OBVIOUS
<1>3. \A a, b : ZcpyDist(a, b, r) = IF a <= b THEN b - a ELSE b - a + 2 * s
  BY DEF ZcpyDist
<1>4. \A a : ZcpyAfter(a, r) = IF a + 1 = 2 * s THEN 0 ELSE a + 1
  BY DEF ZcpyAfter
<1>5. \A a : ZcpyPlace(a, r) = IF a < s THEN a ELSE IF a < 2 * s THEN a - s ELSE a - 2 * s
  BY DEF ZcpyPlace
<1> HIDE DEF s
<1> DEFINE d == ZcpyDist(p, w, r)
<1>6. d = (IF p <= w THEN w - p ELSE w - p + 2 * s) /\ d <= s
  BY <1>3 DEF s
<1> HIDE DEF d
<1>7. d \in 0..s
  BY <1>1, <1>2, <1>6
<1>8. \A n \in 1..d : p + n - 1 \in 0..(3 * s - 1)
  BY <1>1, <1>2, <1>7
<1>9. ASSUME d < s
      PROVE  /\ \A n \in 1..d : ZcpyPlace(p + n - 1, r) # ZcpyPlace(w, r)
             /\ ZcpyPlace(p + d, r) = ZcpyPlace(w, r)
             /\ ZcpyDist(p, ZcpyAfter(w, r), r) = d + 1
  <2>1. ASSUME NEW n \in 1..d PROVE ZcpyPlace(p + n - 1, r) # ZcpyPlace(w, r)
    BY <1>1, <1>2, <1>5, <1>6, <1>7, <1>9
  <2>2. ZcpyPlace(p + d, r) = ZcpyPlace(w, r)
    BY <1>1, <1>2, <1>5, <1>6, <1>7, <1>9
  <2>3. ZcpyDist(p, ZcpyAfter(w, r), r) = d + 1
    BY <1>1, <1>2, <1>3, <1>4, <1>6, <1>7, <1>9
  <2> QED
    BY <2>1, <2>2, <2>3
<1>10. ASSUME d > 0
       PROVE  /\ ZcpyDist(ZcpyAfter(p, r), w, r) = d - 1
              /\ \A n \in 1..(d - 1) : ZcpyPlace(ZcpyAfter(p, r) + n - 1, r) = ZcpyPlace(p + n, r)
  <2>1. ZcpyDist(ZcpyAfter(p, r), w, r) = d - 1
    BY <1>1, <1>2, <1>3, <1>4, <1>6, <1>7, <1>10
  <2>2. ASSUME NEW n \in 1..(d - 1)
        PROVE  ZcpyPlace(ZcpyAfter(p, r) + n - 1, r) = ZcpyPlace(p + n, r)
    BY <1>1, <1>2, <1>4, <1>5, <1>6, <1>7, <1>10
  <2> QED
    BY <2>1, <2>2
<1> QED
  BY <1>8, <1>9, <1>10 DEF d, s

LEMMA ZcpyHeldStep ==
  ASSUME ZcpyHeld, NEW r \in ZcpyRings, NEW ring, NEW q, ZcpyHolds(ring, q, r),
         zcpyRing' = [zcpyRing EXCEPT ![r] = ring], zcpyOwed' = [zcpyOwed EXCEPT ![r] = q]
  PROVE  /\ ZcpyHeld' /\ zcpyRing'[r] = ring /\ zcpyOwed'[r] = q
         /\ \A i \in ZcpyRings : i # r => zcpyRing'[i] = zcpyRing[i] /\ zcpyOwed'[i] = zcpyOwed[i]
<1>1. /\ zcpyRing \in [ZcpyRings -> UNION {ZcpyRingOf(i) : i \in ZcpyRings}]
      /\ zcpyOwed \in [ZcpyRings -> UNION {Seq(ZcpyThings(i)) : i \in ZcpyRings}]
      /\ \A i \in ZcpyRings : ZcpyHolds(zcpyRing[i], zcpyOwed[i], i)
  BY DEF ZcpyHeld
<1>2. ring \in ZcpyRingOf(r) /\ q \in Seq(ZcpyThings(r))
  BY DEF ZcpyHolds
<1>3. ring \in UNION {ZcpyRingOf(i) : i \in ZcpyRings} /\ q \in UNION {Seq(ZcpyThings(i)) : i \in ZcpyRings}
  BY <1>2
<1>4. /\ zcpyRing' \in [ZcpyRings -> UNION {ZcpyRingOf(i) : i \in ZcpyRings}]
      /\ zcpyOwed' \in [ZcpyRings -> UNION {Seq(ZcpyThings(i)) : i \in ZcpyRings}]
      /\ zcpyRing'[r] = ring /\ zcpyOwed'[r] = q
      /\ \A i \in ZcpyRings : i # r => zcpyRing'[i] = zcpyRing[i] /\ zcpyOwed'[i] = zcpyOwed[i]
  BY <1>1, <1>3
<1>5. \A i \in ZcpyRings : ZcpyHolds(zcpyRing'[i], zcpyOwed'[i], i)
  BY <1>1, <1>4
<1>6. ZcpyHeld'
  BY <1>4, <1>5 DEF ZcpyHeld, ZcpyHolds, ZcpyRingOf, ZcpyThings, ZcpyRings
<1> QED
  BY <1>4, <1>6

LEMMA ZcpyTopIs ==
  ASSUME ZcpyHeld, NEW r \in ZcpyRings, zcpyOwed[r] # <<>>
  PROVE  CbTop(r) = Head(zcpyOwed[r]) /\ Head(zcpyOwed[r]) \in ZcpyThings(r)
<1> DEFINE ring == zcpyRing[r]
           q == zcpyOwed[r]
<1>1. ZcpyHolds(ring, q, r)
  BY DEF ZcpyHeld
<1>2. q \in Seq(ZcpyThings(r)) /\ ring.rd \in 0..(2 * ZcpySize[r] - 1)
      /\ \A n \in 1..Len(q) : q[n] = ring.elems[ZcpyPlace(ring.rd + n - 1, r)]
  BY <1>1 DEF ZcpyHolds, ZcpyRingOf
<1>3. Len(q) \in Nat /\ Len(q) >= 1 /\ Head(q) = q[1] /\ q[1] \in ZcpyThings(r)
  BY <1>2
<1>4. ring.rd + 1 - 1 = ring.rd /\ ring.rd \in 0..(3 * ZcpySize[r] - 1)
  BY <1>2, ZcpySizes
<1>5. q[1] = ring.elems[ZcpyPlace(ring.rd, r)]
  BY <1>2, <1>3, <1>4
<1>6. ring.rd % ZcpySize[r] = ZcpyPlace(ring.rd, r)
  BY <1>4, ZcpyPlaceIs
<1> QED
  BY <1>3, <1>5, <1>6 DEF CbTop

LEMMA ZcpyPutKeeps ==
  ASSUME ZcpyHeld, NEW r \in ZcpyRings, NEW elem \in ZcpyThings(r), ~CbFull(r), CbPut(r, elem)
  PROVE  /\ ZcpyHeld' /\ zcpyOwed' = zcpyOwed /\ ZcpyReady(r, elem)'
         /\ \A i \in ZcpyRings : i # r => zcpyRing'[i] = zcpyRing[i]
<1> DEFINE ring == zcpyRing[r]
           q == zcpyOwed[r]
           w == ZcpyPlace(ring.wb, r)
           new == [ring EXCEPT !.elems = [ring.elems EXCEPT ![w] = elem]]
<1>1. ZcpyHolds(ring, q, r)
  BY DEF ZcpyHeld
<1>2. /\ ring \in ZcpyRingOf(r) /\ q \in Seq(ZcpyThings(r))
      /\ Len(q) = ZcpyDist(ring.rd, ring.wb, r) /\ Len(q) <= ZcpySize[r]
      /\ \A n \in 1..Len(q) : q[n] = ring.elems[ZcpyPlace(ring.rd + n - 1, r)]
  BY <1>1 DEF ZcpyHolds
<1>3. /\ ring.rd \in 0..(2 * ZcpySize[r] - 1) /\ ring.wb \in 0..(2 * ZcpySize[r] - 1)
      /\ ring.elems \in [0..(ZcpySize[r] - 1) -> ZcpyThings(r) \cup {0}]
  BY <1>2 DEF ZcpyRingOf
<1>4. ZcpySize[r] \in Nat \ {0}
  BY ZcpySizes
<1>5. Len(q) < ZcpySize[r]
  <2>1. Len(q) # ZcpySize[r] /\ Len(q) \in Nat
    BY <1>1, ZcpyFullIs
  <2> QED
    BY <1>2, <1>4, <2>1
<1>6. ring.wb % ZcpySize[r] = w /\ w \in 0..(ZcpySize[r] - 1)
  <2>1. ring.wb \in 0..(3 * ZcpySize[r] - 1)
    BY <1>3, <1>4
  <2> QED
    BY <2>1, ZcpyPlaceIs
<1>7. zcpyRing' = [zcpyRing EXCEPT ![r].elems[w] = elem] /\ zcpyOwed' = zcpyOwed
  BY <1>6 DEF CbPut
<1>8. zcpyRing' = [zcpyRing EXCEPT ![r] = new]
  BY <1>7
<1>9. zcpyOwed' = [zcpyOwed EXCEPT ![r] = q]
  BY <1>7 DEF ZcpyHeld
<1>10. \A n \in 1..Len(q) : ZcpyPlace(ring.rd + n - 1, r) # w /\ ring.rd + n - 1 \in 0..(3 * ZcpySize[r] - 1)
  BY <1>2, <1>3, <1>5, ZcpyPlaces
<1>11. \A n \in 1..Len(q) : ZcpyPlace(ring.rd + n - 1, r) \in 0..(ZcpySize[r] - 1)
  BY <1>10, ZcpyPlaceIs
<1> HIDE DEF w, q, ring
<1>12. /\ new \in ZcpyRingOf(r) /\ new.rd = ring.rd /\ new.wb = ring.wb /\ new.elems[w] = elem
       /\ \A k \in 0..(ZcpySize[r] - 1) : k # w => new.elems[k] = ring.elems[k]
  BY <1>2, <1>3, <1>6 DEF ZcpyRingOf
<1> HIDE DEF new
<1>13. \A n \in 1..Len(q) : q[n] = new.elems[ZcpyPlace(new.rd + n - 1, r)]
  BY <1>2, <1>10, <1>11, <1>12
<1>14. ZcpyHolds(new, q, r)
  BY <1>2, <1>12, <1>13 DEF ZcpyHolds
<1>15. /\ ZcpyHeld' /\ zcpyRing'[r] = new /\ zcpyOwed'[r] = q
       /\ \A i \in ZcpyRings : i # r => zcpyRing'[i] = zcpyRing[i]
  BY <1>8, <1>9, <1>14, ZcpyHeldStep
<1>16. ZcpyReady(r, elem)'
  BY <1>5, <1>12, <1>15 DEF ZcpyReady, w
<1> QED
  BY <1>7, <1>15, <1>16

LEMMA ZcpyPutDoneKeeps ==
  ASSUME ZcpyHeld, NEW r \in ZcpyRings, NEW elem \in ZcpyThings(r), ZcpyReady(r, elem), CbPutDone(r, elem)
  PROVE  /\ ZcpyHeld' /\ zcpyOwed'[r] = Append(zcpyOwed[r], elem)
         /\ \A i \in ZcpyRings : i # r => zcpyRing'[i] = zcpyRing[i] /\ zcpyOwed'[i] = zcpyOwed[i]
<1> DEFINE ring == zcpyRing[r]
           q == zcpyOwed[r]
           new == [ring EXCEPT !.wb = ZcpyAfter(ring.wb, r)]
           long == Append(q, elem)
<1>1. /\ ring \in ZcpyRingOf(r) /\ q \in Seq(ZcpyThings(r))
      /\ Len(q) = ZcpyDist(ring.rd, ring.wb, r)
      /\ \A n \in 1..Len(q) : q[n] = ring.elems[ZcpyPlace(ring.rd + n - 1, r)]
  BY DEF ZcpyHeld, ZcpyHolds
<1>2. /\ ring.rd \in 0..(2 * ZcpySize[r] - 1) /\ ring.wb \in 0..(2 * ZcpySize[r] - 1)
  BY <1>1 DEF ZcpyRingOf
<1>3. ZcpySize[r] \in Nat \ {0} /\ Len(q) < ZcpySize[r] /\ ring.elems[ZcpyPlace(ring.wb, r)] = elem
      /\ Len(q) \in Nat
  BY <1>1, ZcpySizes DEF ZcpyReady
<1>4. CbIncr(ring.wb, r) = ZcpyAfter(ring.wb, r) /\ ZcpyAfter(ring.wb, r) \in 0..(2 * ZcpySize[r] - 1)
  BY <1>2, ZcpyAfterIs
<1>5. zcpyRing' = [zcpyRing EXCEPT ![r] = new] /\ zcpyOwed' = [zcpyOwed EXCEPT ![r] = long]
  BY <1>4 DEF CbPutDone
<1>6. /\ ZcpyPlace(ring.rd + Len(q), r) = ZcpyPlace(ring.wb, r)
      /\ ZcpyDist(ring.rd, ZcpyAfter(ring.wb, r), r) = Len(q) + 1
  BY <1>1, <1>2, <1>3, ZcpyPlaces
<1> HIDE DEF q, ring
<1>7. new \in ZcpyRingOf(r) /\ new.rd = ring.rd /\ new.wb = ZcpyAfter(ring.wb, r) /\ new.elems = ring.elems
  BY <1>1, <1>4 DEF ZcpyRingOf
<1> HIDE DEF new
<1>8. /\ long \in Seq(ZcpyThings(r)) /\ Len(long) = Len(q) + 1
      /\ \A n \in 1..(Len(q) + 1) : long[n] = IF n = Len(q) + 1 THEN elem ELSE q[n]
  BY <1>1
<1> HIDE DEF long
<1>9. ASSUME NEW n \in 1..Len(long) PROVE long[n] = new.elems[ZcpyPlace(new.rd + n - 1, r)]
  <2>1. CASE n = Len(q) + 1
    <3>1. new.rd + n - 1 = ring.rd + Len(q)
      BY <1>2, <1>3, <1>7, <2>1 DEF ring
    <3> QED
      BY <1>3, <1>6, <1>7, <1>8, <2>1, <3>1
  <2>2. CASE n # Len(q) + 1
    <3>1. n \in 1..Len(q)
      BY <1>3, <1>8, <2>2
    <3> QED
      BY <1>1, <1>7, <1>8, <2>2, <3>1
  <2> QED
    BY <2>1, <2>2
<1>10. ZcpyHolds(new, long, r)
  <2>1. Len(long) = ZcpyDist(new.rd, new.wb, r)
    BY <1>6, <1>7, <1>8
  <2>2. Len(long) <= ZcpySize[r]
    BY <1>3, <1>8
  <2> QED
    BY <1>7, <1>8, <1>9, <2>1, <2>2 DEF ZcpyHolds
<1>11. /\ ZcpyHeld' /\ zcpyOwed'[r] = long
       /\ \A i \in ZcpyRings : i # r => zcpyRing'[i] = zcpyRing[i] /\ zcpyOwed'[i] = zcpyOwed[i]
  BY <1>5, <1>10, ZcpyHeldStep
<1> QED
  BY <1>11 DEF long, q

LEMMA ZcpyTakenKeeps ==
  ASSUME ZcpyHeld, NEW r \in ZcpyRings, zcpyOwed[r] # <<>>, CbTaken(r)
  PROVE  /\ ZcpyHeld' /\ zcpyOwed'[r] = Tail(zcpyOwed[r])
         /\ zcpyRing'[r].wb = zcpyRing[r].wb /\ zcpyRing'[r].elems = zcpyRing[r].elems
         /\ \A i \in ZcpyRings : i # r => zcpyRing'[i] = zcpyRing[i] /\ zcpyOwed'[i] = zcpyOwed[i]
<1> DEFINE ring == zcpyRing[r]
           q == zcpyOwed[r]
           new == [ring EXCEPT !.rd = ZcpyAfter(ring.rd, r)]
           short == Tail(q)
<1>1. /\ ring \in ZcpyRingOf(r) /\ q \in Seq(ZcpyThings(r))
      /\ Len(q) = ZcpyDist(ring.rd, ring.wb, r) /\ Len(q) <= ZcpySize[r]
      /\ \A n \in 1..Len(q) : q[n] = ring.elems[ZcpyPlace(ring.rd + n - 1, r)]
  BY DEF ZcpyHeld, ZcpyHolds
<1>2. /\ ring.rd \in 0..(2 * ZcpySize[r] - 1) /\ ring.wb \in 0..(2 * ZcpySize[r] - 1)
  BY <1>1 DEF ZcpyRingOf
<1>3. ZcpySize[r] \in Nat \ {0} /\ Len(q) \in Nat /\ Len(q) > 0
  BY <1>1, ZcpySizes
<1>4. CbIncr(ring.rd, r) = ZcpyAfter(ring.rd, r) /\ ZcpyAfter(ring.rd, r) \in 0..(2 * ZcpySize[r] - 1)
  BY <1>2, ZcpyAfterIs
<1>5. zcpyRing' = [zcpyRing EXCEPT ![r] = new] /\ zcpyOwed' = [zcpyOwed EXCEPT ![r] = short]
  BY <1>4 DEF CbTaken
<1>6. /\ ZcpyDist(ZcpyAfter(ring.rd, r), ring.wb, r) = Len(q) - 1
      /\ \A n \in 1..(Len(q) - 1) : ZcpyPlace(ZcpyAfter(ring.rd, r) + n - 1, r) = ZcpyPlace(ring.rd + n, r)
  <2> DEFINE d == ZcpyDist(ring.rd, ring.wb, r)
  <2>1. d <= ZcpySize[r] /\ d > 0 /\ d = Len(q)
    BY <1>1, <1>3
  <2>2. /\ ZcpyDist(ZcpyAfter(ring.rd, r), ring.wb, r) = d - 1
        /\ \A n \in 1..(d - 1) : ZcpyPlace(ZcpyAfter(ring.rd, r) + n - 1, r) = ZcpyPlace(ring.rd + n, r)
    BY <1>2, <2>1, ZcpyPlaces
  <2> HIDE DEF d, ring, q
  <2> QED
    BY <2>1, <2>2
<1> HIDE DEF q, ring
<1>7. new \in ZcpyRingOf(r) /\ new.rd = ZcpyAfter(ring.rd, r) /\ new.wb = ring.wb /\ new.elems = ring.elems
  BY <1>1, <1>4 DEF ZcpyRingOf
<1> HIDE DEF new
<1>8. /\ short \in Seq(ZcpyThings(r)) /\ Len(short) = Len(q) - 1
      /\ \A n \in 1..(Len(q) - 1) : short[n] = q[n + 1]
  BY <1>1, <1>3
<1> HIDE DEF short
<1>9. ASSUME NEW n \in 1..Len(short) PROVE short[n] = new.elems[ZcpyPlace(new.rd + n - 1, r)]
  <2>1. n \in 1..(Len(q) - 1) /\ n + 1 \in 1..Len(q) /\ ring.rd + (n + 1) - 1 = ring.rd + n
    BY <1>2, <1>3, <1>8 DEF ring
  <2>2. q[n + 1] = ring.elems[ZcpyPlace(ring.rd + n, r)]
    BY <1>1, <2>1
  <2> QED
    BY <1>6, <1>7, <1>8, <2>1, <2>2
<1>10. ZcpyHolds(new, short, r)
  <2>1. Len(short) = ZcpyDist(new.rd, new.wb, r)
    BY <1>6, <1>7, <1>8
  <2>2. Len(short) <= ZcpySize[r]
    BY <1>1, <1>3, <1>8
  <2> QED
    BY <1>7, <1>8, <1>9, <2>1, <2>2 DEF ZcpyHolds
<1>11. /\ ZcpyHeld' /\ zcpyRing'[r] = new /\ zcpyOwed'[r] = short
       /\ \A i \in ZcpyRings : i # r => zcpyRing'[i] = zcpyRing[i] /\ zcpyOwed'[i] = zcpyOwed[i]
  BY <1>5, <1>10, ZcpyHeldStep
<1> QED
  BY <1>7, <1>11 DEF short, q, ring

\* How often an id is in a sequence, and what announces it besides.
ZcpyTimes(q, id) == Cardinality({n \in DOMAIN q : q[n] = id})
ZcpyOnWay(id) == IF zcpySend.id = id /\ zcpySend.step \in {"id", "put id"} THEN 1 ELSE 0
ZcpyInHand(id) == IF zcpyIsr.id = id /\ zcpyIsr.step \in {"get", "got"} THEN 1 ELSE 0
ZcpyOne(e, id) == IF e = id THEN 1 ELSE 0

LEMMA ZcpyTimesIs ==
  ASSUME NEW T, NEW q \in Seq(T), NEW id
  PROVE  /\ ZcpyTimes(q, id) \in Nat
         /\ \A e \in T : ZcpyTimes(Append(q, e), id) = ZcpyTimes(q, id) + ZcpyOne(e, id)
         /\ q # <<>> => ZcpyTimes(q, id) = ZcpyTimes(Tail(q), id) + ZcpyOne(Head(q), id)
<1> DEFINE At(s) == {n \in DOMAIN s : s[n] = id}
<1>1. \A s \in Seq(T) : IsFiniteSet(At(s)) /\ Cardinality(At(s)) \in Nat
  <2> SUFFICES ASSUME NEW s \in Seq(T) PROVE IsFiniteSet(At(s)) /\ Cardinality(At(s)) \in Nat
    OBVIOUS
  <2>1. DOMAIN s = 1..Len(s) /\ Len(s) \in Nat
    OBVIOUS
  <2>2. IsFiniteSet(1..Len(s)) /\ At(s) \subseteq 1..Len(s)
    BY <2>1, FS_Interval
  <2> QED
    BY <2>2, FS_Subset, FS_CardinalityType
<1>2. ASSUME NEW e \in T PROVE Cardinality(At(Append(q, e))) = Cardinality(At(q)) + ZcpyOne(e, id)
  <2>1. /\ Append(q, e) \in Seq(T) /\ Len(q) \in Nat /\ DOMAIN q = 1..Len(q)
        /\ DOMAIN Append(q, e) = 1..(Len(q) + 1)
        /\ \A n \in 1..(Len(q) + 1) : Append(q, e)[n] = IF n = Len(q) + 1 THEN e ELSE q[n]
    OBVIOUS
  <2>2. CASE e = id
    <3>1. At(Append(q, e)) = At(q) \cup {Len(q) + 1} /\ (Len(q) + 1) \notin At(q)
      BY <2>1, <2>2
    <3> HIDE DEF At
    <3>2. Cardinality(At(q) \cup {Len(q) + 1}) = Cardinality(At(q)) + 1
      BY <1>1, <3>1, FS_AddElement
    <3> QED
      BY <2>2, <3>1, <3>2 DEF ZcpyOne
  <2>3. CASE e # id
    <3>1. At(Append(q, e)) = At(q)
      BY <2>1, <2>3
    <3> HIDE DEF At
    <3>2. Cardinality(At(q)) \in Nat
      BY <1>1
    <3> QED
      BY <2>3, <3>1, <3>2 DEF ZcpyOne
  <2> QED
    BY <2>2, <2>3
<1>3. ASSUME q # <<>> PROVE Cardinality(At(q)) = Cardinality(At(Tail(q))) + ZcpyOne(Head(q), id)
  <2>1. /\ Tail(q) \in Seq(T) /\ Len(q) \in Nat \ {0} /\ DOMAIN q = 1..Len(q) /\ Head(q) = q[1]
        /\ DOMAIN Tail(q) = 1..(Len(q) - 1) /\ \A n \in 1..(Len(q) - 1) : Tail(q)[n] = q[n + 1]
    BY <1>3
  <2> DEFINE rest == {n \in DOMAIN q : q[n] = id /\ n # 1}
             f == [n \in At(Tail(q)) |-> n + 1]
  <2>2. f \in Bijection(At(Tail(q)), rest)
    <3>1. \A n \in At(Tail(q)) : n \in 1..(Len(q) - 1) /\ n + 1 \in rest
      BY <2>1
    <3>2. \A m \in rest : m - 1 \in At(Tail(q)) /\ (m - 1) + 1 = m
      <4> SUFFICES ASSUME NEW m \in rest PROVE m - 1 \in At(Tail(q)) /\ (m - 1) + 1 = m
        OBVIOUS
      <4>1. m \in 2..Len(q) /\ q[m] = id
        BY <2>1
      <4>2. m - 1 \in 1..(Len(q) - 1) /\ (m - 1) + 1 = m
        BY <2>1, <4>1
      <4>3. Tail(q)[m - 1] = q[(m - 1) + 1]
        BY <2>1, <4>2
      <4> QED
        BY <2>1, <4>1, <4>2, <4>3
    <3> HIDE DEF At, rest
    <3>3. f \in [At(Tail(q)) -> rest] /\ (\A m, n \in At(Tail(q)) : f[m] = f[n] => m = n)
          /\ (\A m \in rest : \E n \in At(Tail(q)) : f[n] = m)
      BY <3>1, <3>2
    <3> HIDE DEF f
    <3> QED
      BY <3>3 DEF Bijection, Injection, Surjection, IsInjective
  <2>3. Cardinality(At(Tail(q))) = Cardinality(rest) /\ IsFiniteSet(rest)
    <3>1. ExistsBijection(At(Tail(q)), rest)
      BY <2>2 DEF ExistsBijection
    <3>2. IsFiniteSet(At(Tail(q)))
      BY <1>1, <2>1
    <3> HIDE DEF At, rest
    <3> QED
      BY <3>1, <3>2, FS_Bijection
  <2>4. CASE Head(q) = id
    <3>1. At(q) = rest \cup {1} /\ 1 \notin rest
      BY <2>1, <2>4
    <3> HIDE DEF At, rest
    <3>2. Cardinality(rest \cup {1}) = Cardinality(rest) + 1
      BY <2>3, <3>1, FS_AddElement
    <3> QED
      BY <2>3, <2>4, <3>1, <3>2 DEF ZcpyOne
  <2>5. CASE Head(q) # id
    <3>1. At(q) = rest
      BY <2>1, <2>5
    <3> HIDE DEF At, rest
    <3>2. Cardinality(At(q)) \in Nat
      BY <1>1
    <3> QED
      BY <2>3, <2>5, <3>1, <3>2 DEF ZcpyOne
  <2> QED
    BY <2>4, <2>5
<1> QED
  BY <1>1, <1>2, <1>3 DEF ZcpyTimes

LEMMA ZcpyAnnouncedIs ==
  ASSUME NEW id
  PROVE  /\ ZcpyAnnounced(id) = ZcpyTimes(zcpyOwed[0], id) + ZcpyOnWay(id) + ZcpyInHand(id)
         /\ ZcpyAnnounced(id)' = ZcpyTimes(zcpyOwed'[0], id) + ZcpyOnWay(id)' + ZcpyInHand(id)'
         /\ ZcpyOnWay(id) \in {0, 1} /\ ZcpyInHand(id) \in {0, 1}
BY DEF ZcpyAnnounced, ZcpyTimes, ZcpyOnWay, ZcpyInHand

\* What is known of the sequence of a ring.
LEMMA ZcpyOwedIs ==
  ASSUME ZcpyHeld
  PROVE  /\ 0 \in ZcpyRings /\ ZcpyThings(0) = ZcpyIds /\ zcpyOwed[0] \in Seq(ZcpyIds)
         /\ \A id \in ZcpyIds : /\ id \in ZcpyRings /\ id # 0 /\ ZcpyThings(id) = ZcpyBufs
                                /\ zcpyOwed[id] \in Seq(ZcpyBufs) /\ Len(zcpyOwed[id]) \in Nat
         /\ \A id : ZcpyTimes(zcpyOwed[0], id) \in Nat /\ ZcpyAnnounced(id) \in Nat
<1>1. /\ 0 \in ZcpyRings /\ ZcpyThings(0) = ZcpyIds
      /\ \A id \in ZcpyIds : id \in ZcpyRings /\ id # 0 /\ ZcpyThings(id) = ZcpyBufs
  BY ZcpyAssumption DEF ZcpyRings, ZcpyThings
<1>2. \A r \in ZcpyRings : zcpyOwed[r] \in Seq(ZcpyThings(r))
  BY DEF ZcpyHeld, ZcpyHolds
<1>3. zcpyOwed[0] \in Seq(ZcpyIds)
  BY <1>1, <1>2
<1>4. \A id \in ZcpyIds : zcpyOwed[id] \in Seq(ZcpyBufs)
  BY <1>1, <1>2
<1>5. \A id \in ZcpyIds : Len(zcpyOwed[id]) \in Nat
  BY <1>4
<1>6. \A id : ZcpyTimes(zcpyOwed[0], id) \in Nat
  BY <1>3, ZcpyTimesIs
<1>7. \A id : ZcpyAnnounced(id) \in Nat
  BY <1>6, ZcpyAnnouncedIs
<1> QED
  BY <1>1, <1>3, <1>4, <1>5, <1>6, <1>7

\* The two parts of ZcpyWoken.
ZcpyRaised == zcpyOwed[0] # <<>> => zcpyReg \/ zcpyIsr.step # "idle" \/ zcpySend.step = "raise"
ZcpyHeard(id) ==
    /\ zcpyTask[id].step = "asleep" /\ zcpyOwed[id] # <<>> => ZcpyAnnounced(id) > 0
    /\ id \in zcpyHandler => Len(zcpyOwed[id]) <= ZcpyAnnounced(id)

LEMMA ZcpyWokenIs ==
  /\ ZcpyWoken <=> ZcpyRaised /\ \A id \in ZcpyIds \ zcpyHalf : ZcpyHeard(id)
  /\ ZcpyWoken' <=> ZcpyRaised' /\ \A id \in ZcpyIds \ zcpyHalf' : ZcpyHeard(id)'
BY DEF ZcpyWoken, ZcpyRaised, ZcpyHeard

\* An id to whose ring and receivers nothing happens, and whose announcements stay.
LEMMA ZcpyHeardKeeps ==
  ASSUME NEW id, ZcpyHeard(id), zcpyOwed'[id] = zcpyOwed[id], ZcpyAnnounced(id)' = ZcpyAnnounced(id),
         zcpyTask'[id].step = "asleep" => zcpyTask[id].step = "asleep" \/ zcpyOwed[id] = <<>>,
         id \in zcpyHandler' => id \in zcpyHandler
  PROVE  ZcpyHeard(id)'
BY DEF ZcpyHeard

LEMMA ZcpySendBufferKeeps ==
  ASSUME ZcpyRingInv, NEW id \in ZcpyIds, NEW buf \in ZcpyBufs, ZcpySendBuffer(id, buf)
  PROVE  ZcpyRingInv'
<1>1. ZcpyHeld /\ ZcpyRingOK /\ ZcpyPending /\ ZcpyHands /\ ZcpyOwners /\ ZcpyWoken
  BY DEF ZcpyRingInv
<1>2. /\ zcpySend = ZcpyNoSend /\ (id \in ZcpyHandled => id \in zcpyHandler)
      /\ ~CbFull(id) /\ CbPut(id, buf) /\ zcpySend' = [step |-> "put buffer", id |-> id, buf |-> buf]
      /\ zcpyReg' = zcpyReg /\ zcpyHalf' = zcpyHalf
      /\ zcpyIsr' = zcpyIsr /\ zcpyHandler' = zcpyHandler /\ zcpyTasks' = zcpyTasks /\ zcpyTask' = zcpyTask
  BY DEF ZcpySendBuffer, zcpyGetVars
<1>3. zcpySend.step = "idle"
  BY <1>2 DEF ZcpyNoSend
<1>4. id \in ZcpyRings /\ id # 0 /\ buf \in ZcpyThings(id)
  BY <1>1, ZcpyOwedIs
<1>5. ZcpyHeld' /\ zcpyOwed' = zcpyOwed /\ ZcpyReady(id, buf)'
  BY <1>1, <1>2, <1>4, ZcpyPutKeeps
<1>6. zcpySend'.step = "put buffer" /\ zcpySend'.id = id /\ zcpySend'.buf = buf
  BY <1>2
<1>7. ZcpyRingOK'
  BY <1>1, <1>2, <1>4 DEF ZcpyRingOK
<1>8. ZcpyPending'
  BY <1>5, <1>6 DEF ZcpyPending
<1>9. ZcpyHands'
  BY <1>1, <1>2, <1>5 DEF ZcpyHands, ZcpyFirst
<1>10. ZcpyOwners'
  BY <1>1, <1>2, <1>5, <1>6 DEF ZcpyOwners
<1>11. \A i \in ZcpyIds : ZcpyAnnounced(i)' = ZcpyAnnounced(i)
  BY <1>2, <1>3, <1>5, <1>6, ZcpyAnnouncedIs DEF ZcpyOnWay, ZcpyInHand
<1>12. ZcpyRaised'
  BY <1>1, <1>2, <1>3, <1>5, ZcpyWokenIs DEF ZcpyRaised
<1>13. \A i \in ZcpyIds \ zcpyHalf' : ZcpyHeard(i)'
  BY <1>1, <1>2, <1>5, <1>11, ZcpyWokenIs, ZcpyHeardKeeps
<1> QED
  BY <1>5, <1>7, <1>8, <1>9, <1>10, <1>12, <1>13, ZcpyWokenIs DEF ZcpyRingInv

\* An element behind others leaves the first as it is.
LEMMA ZcpyFirstGrows ==
  ASSUME NEW T, NEW q \in Seq(T), NEW e \in T
  PROVE  /\ q # <<>> => Append(q, e) # <<>> /\ Head(Append(q, e)) = Head(q)
         /\ Len(Append(q, e)) = Len(q) + 1
<1>1. /\ Len(q) \in Nat /\ Append(q, e) \in Seq(T) /\ Len(Append(q, e)) = Len(q) + 1
      /\ \A n \in 1..Len(q) : Append(q, e)[n] = q[n]
  OBVIOUS
<1>2. ASSUME q # <<>> PROVE Append(q, e) # <<>> /\ Head(Append(q, e)) = Head(q)
  <2>1. Len(q) > 0 /\ Head(q) = q[1]
    BY <1>2
  <2>2. Append(q, e) # <<>> /\ Head(Append(q, e)) = Append(q, e)[1]
    BY <1>1
  <2> QED
    BY <1>1, <2>1, <2>2
<1> QED
  BY <1>1, <1>2

LEMMA ZcpyBufferPutKeeps ==
  ASSUME ZcpyRingInv, ZcpyBufferPut
  PROVE  ZcpyRingInv'
<1> DEFINE id == zcpySend.id
           buf == zcpySend.buf
<1>1. ZcpyHeld /\ ZcpyRingOK /\ ZcpyPending /\ ZcpyHands /\ ZcpyOwners /\ ZcpyWoken
  BY DEF ZcpyRingInv
<1>2. /\ zcpySend.step = "put buffer" /\ zcpySend' = [zcpySend EXCEPT !.step = "id"]
      /\ CbPutDone(id, buf) /\ zcpyReg' = zcpyReg /\ zcpyHalf' = zcpyHalf
      /\ zcpyIsr' = zcpyIsr /\ zcpyHandler' = zcpyHandler /\ zcpyTasks' = zcpyTasks /\ zcpyTask' = zcpyTask
  BY DEF ZcpyBufferPut, ZcpySender, zcpyGetVars
<1>3. zcpySend'.step = "id" /\ zcpySend'.id = id /\ zcpySend'.buf = buf
  BY <1>1, <1>2 DEF ZcpyRingOK
<1>4. id \in ZcpyIds /\ buf \in ZcpyBufs
  BY <1>1, <1>2 DEF ZcpyRingOK
<1>5. /\ 0 \in ZcpyRings /\ \A i \in ZcpyIds : /\ i \in ZcpyRings /\ i # 0 /\ ZcpyThings(i) = ZcpyBufs
                                               /\ zcpyOwed[i] \in Seq(ZcpyBufs) /\ Len(zcpyOwed[i]) \in Nat
      /\ \A i : ZcpyAnnounced(i) \in Nat
  BY <1>1, ZcpyOwedIs
<1>6. ZcpyReady(id, buf)
  BY <1>1, <1>2 DEF ZcpyPending
<1>7. /\ ZcpyHeld' /\ zcpyOwed'[id] = Append(zcpyOwed[id], buf)
      /\ \A i \in ZcpyRings : i # id => zcpyRing'[i] = zcpyRing[i] /\ zcpyOwed'[i] = zcpyOwed[i]
  BY <1>1, <1>2, <1>4, <1>5, <1>6, ZcpyPutDoneKeeps
<1>8. /\ zcpyOwed[id] # <<>> => zcpyOwed'[id] # <<>> /\ Head(zcpyOwed'[id]) = Head(zcpyOwed[id])
      /\ Len(zcpyOwed'[id]) = Len(zcpyOwed[id]) + 1
  BY <1>4, <1>5, <1>7, ZcpyFirstGrows
<1>9. ZcpyRingOK'
  BY <1>1, <1>2, <1>4 DEF ZcpyRingOK
<1> HIDE DEF id, buf
<1>10. ZcpyPending'
  BY <1>3 DEF ZcpyPending
<1>11. \A i \in ZcpyRings : \A e : ZcpyFirst(i, e) => ZcpyFirst(i, e)'
  BY <1>7, <1>8 DEF ZcpyFirst
<1>12. ZcpyHands'
  <2>1. zcpyIsr.step = "got" => zcpyIsr.id \in ZcpyRings
    BY <1>1, <1>5 DEF ZcpyRingOK
  <2> QED
    BY <1>1, <1>2, <1>5, <1>11, <2>1 DEF ZcpyHands
<1>13. ZcpyOwners'
  <2>1. \A i \in ZcpyHandled \ zcpyHandler : i # id /\ i \in ZcpyIds
    BY <1>1, <1>2, ZcpyAssumption DEF ZcpyOwners, id
  <2> QED
    BY <1>1, <1>2, <1>3, <1>5, <1>7, <2>1 DEF ZcpyOwners
<1>14. \A i \in ZcpyIds : ZcpyAnnounced(i)' = ZcpyAnnounced(i) + ZcpyOne(id, i)
  <2> SUFFICES ASSUME NEW i \in ZcpyIds PROVE ZcpyAnnounced(i)' = ZcpyAnnounced(i) + ZcpyOne(id, i)
    OBVIOUS
  <2>1. ZcpyOnWay(i) = 0 /\ ZcpyOnWay(i)' = ZcpyOne(id, i) /\ ZcpyInHand(i)' = ZcpyInHand(i)
    BY <1>2, <1>3 DEF ZcpyOnWay, ZcpyOne, ZcpyInHand, id
  <2>2. ZcpyTimes(zcpyOwed'[0], i) = ZcpyTimes(zcpyOwed[0], i) /\ ZcpyTimes(zcpyOwed[0], i) \in Nat
    BY <1>1, <1>4, <1>5, <1>7, ZcpyOwedIs
  <2> QED
    BY <2>1, <2>2, ZcpyAnnouncedIs DEF ZcpyOne
<1>15. ZcpyRaised'
  BY <1>1, <1>2, <1>4, <1>5, <1>7, ZcpyWokenIs DEF ZcpyRaised
<1>16. \A i \in ZcpyIds \ zcpyHalf' : ZcpyHeard(i)'
  <2> SUFFICES ASSUME NEW i \in ZcpyIds \ zcpyHalf PROVE ZcpyHeard(i)'
    BY <1>2
  <2>1. ZcpyHeard(i)
    BY <1>1, ZcpyWokenIs
  <2>2. CASE i = id
    <3>1. ZcpyAnnounced(i)' = ZcpyAnnounced(i) + 1
      BY <1>14, <2>2 DEF ZcpyOne
    <3>2. ZcpyAnnounced(i) \in Nat /\ Len(zcpyOwed[i]) \in Nat /\ Len(zcpyOwed'[i]) = Len(zcpyOwed[i]) + 1
      BY <1>5, <1>8, <2>2
    <3>3. i \in zcpyHandler => Len(zcpyOwed[i]) <= ZcpyAnnounced(i)
      BY <2>1 DEF ZcpyHeard
    <3>4. ZcpyAnnounced(i)' > 0 /\ (i \in zcpyHandler => Len(zcpyOwed'[i]) <= ZcpyAnnounced(i)')
      BY <3>1, <3>2, <3>3
    <3> QED
      BY <1>2, <3>4 DEF ZcpyHeard
  <2>3. CASE i # id
    <3>1. ZcpyAnnounced(i)' = ZcpyAnnounced(i)
      BY <1>5, <1>14, <2>3 DEF ZcpyOne
    <3> QED
      BY <1>2, <1>5, <1>7, <2>1, <2>3, <3>1, ZcpyHeardKeeps
  <2> QED
    BY <2>2, <2>3
<1> QED
  BY <1>7, <1>9, <1>10, <1>12, <1>13, <1>15, <1>16, ZcpyWokenIs DEF ZcpyRingInv

LEMMA ZcpySendIdKeeps ==
  ASSUME ZcpyRingInv, ZcpySendId
  PROVE  ZcpyRingInv'
<1> DEFINE id == zcpySend.id
<1>1. ZcpyHeld /\ ZcpyRingOK /\ ZcpyPending /\ ZcpyHands /\ ZcpyOwners /\ ZcpyWoken
  BY DEF ZcpyRingInv
<1>2. /\ zcpySend.step = "id" /\ zcpyReg' = zcpyReg
      /\ zcpyIsr' = zcpyIsr /\ zcpyHandler' = zcpyHandler /\ zcpyTasks' = zcpyTasks /\ zcpyTask' = zcpyTask
  BY DEF ZcpySendId, zcpyGetVars
<1>3. id \in ZcpyIds /\ zcpySend.buf \in ZcpyBufs
  BY <1>1, <1>2 DEF ZcpyRingOK
<1>4. 0 \in ZcpyRings /\ id \in ZcpyRings /\ id \in ZcpyThings(0)
  BY <1>1, <1>3, ZcpyOwedIs
<1>5. CASE ZcpyFails /\ zcpyHalf' = zcpyHalf \cup {id}
  <2>1. zcpyRing' = zcpyRing /\ zcpyOwed' = zcpyOwed /\ zcpySend'.step = "idle" /\ zcpySend'.id = 0
        /\ zcpySend' = [step |-> "idle", id |-> 0, buf |-> ZcpyNull]
    BY <1>5 DEF ZcpyFails, ZcpyNoSend
  <2>2. ZcpyHeld'
    BY <1>1, <2>1 DEF ZcpyHeld
  <2>3. ZcpyRingOK'
    <3>1. zcpySend' \in [step : {"idle", "put buffer", "id", "put id", "raise"},
                         id : ZcpyRings, buf : ZcpyBufs \cup {ZcpyNull}]
      BY <1>4, <2>1
    <3> QED
      BY <1>1, <1>2, <2>1, <3>1 DEF ZcpyRingOK
  <2>4. ZcpyPending' /\ ZcpyHands' /\ ZcpyOwners'
    BY <1>1, <1>2, <2>1 DEF ZcpyPending, ZcpyHands, ZcpyFirst, ZcpyOwners
  <2>5. ZcpyRaised'
    BY <1>1, <1>2, <2>1, ZcpyWokenIs DEF ZcpyRaised
  <2>6. \A i \in ZcpyIds \ zcpyHalf' : ZcpyHeard(i)'
    <3> SUFFICES ASSUME NEW i \in ZcpyIds \ zcpyHalf, i # id PROVE ZcpyHeard(i)'
      BY <1>5
    <3>1. ZcpyAnnounced(i)' = ZcpyAnnounced(i)
      <4>1. ZcpyOnWay(i) = 0 /\ ZcpyOnWay(i)' = 0 /\ ZcpyInHand(i)' = ZcpyInHand(i)
        BY <1>2, <2>1 DEF ZcpyOnWay, ZcpyInHand
      <4> QED
        BY <2>1, <4>1, ZcpyAnnouncedIs
    <3>2. ZcpyHeard(i)
      BY <1>1, ZcpyWokenIs
    <3> QED
      BY <1>2, <2>1, <3>1, <3>2, ZcpyHeardKeeps
  <2> QED
    BY <2>2, <2>3, <2>4, <2>5, <2>6, ZcpyWokenIs DEF ZcpyRingInv
<1>6. CASE ~CbFull(0) /\ ZcpySender("id", "put id") /\ CbPut(0, id) /\ zcpyHalf' = zcpyHalf
  <2>1. zcpySend' = [zcpySend EXCEPT !.step = "put id"]
    BY <1>6 DEF ZcpySender
  <2>2. zcpySend'.step = "put id" /\ zcpySend'.id = id /\ zcpySend'.buf = zcpySend.buf
    BY <1>1, <2>1 DEF ZcpyRingOK
  <2>3. ZcpyHeld' /\ zcpyOwed' = zcpyOwed /\ \A e : e = id => ZcpyReady(0, e)'
    BY <1>1, <1>4, <1>6, ZcpyPutKeeps
  <2>4. ZcpyRingOK'
    BY <1>1, <1>2, <1>3, <2>1 DEF ZcpyRingOK
  <2> HIDE DEF id
  <2>5. ZcpyPending'
    BY <2>2, <2>3 DEF ZcpyPending
  <2>6. ZcpyHands'
    BY <1>1, <1>2, <2>3 DEF ZcpyHands, ZcpyFirst
  <2>7. ZcpyOwners'
    BY <1>1, <1>2, <2>2, <2>3 DEF ZcpyOwners, id
  <2>8. ZcpyRaised'
    BY <1>1, <1>2, <2>3, ZcpyWokenIs DEF ZcpyRaised
  <2>9. ASSUME NEW i \in ZcpyIds \ zcpyHalf PROVE ZcpyHeard(i)'
    <3>1. ZcpyAnnounced(i)' = ZcpyAnnounced(i)
      <4>1. ZcpyOnWay(i)' = ZcpyOnWay(i) /\ ZcpyInHand(i)' = ZcpyInHand(i)
        BY <1>2, <2>2 DEF ZcpyOnWay, ZcpyInHand, id
      <4> QED
        BY <2>3, <4>1, ZcpyAnnouncedIs
    <3>2. ZcpyHeard(i)
      BY <1>1, ZcpyWokenIs
    <3> QED
      BY <1>2, <2>3, <3>1, <3>2, ZcpyHeardKeeps
  <2> QED
    BY <1>6, <2>3, <2>4, <2>5, <2>6, <2>7, <2>8, <2>9, ZcpyWokenIs DEF ZcpyRingInv
<1> QED
  BY <1>5, <1>6 DEF ZcpySendId

LEMMA ZcpyIdPutKeeps ==
  ASSUME ZcpyRingInv, ZcpyIdPut
  PROVE  ZcpyRingInv'
<1> DEFINE id == zcpySend.id
<1>1. ZcpyHeld /\ ZcpyRingOK /\ ZcpyPending /\ ZcpyHands /\ ZcpyOwners /\ ZcpyWoken
  BY DEF ZcpyRingInv
<1>2. /\ zcpySend.step = "put id" /\ zcpySend' = [zcpySend EXCEPT !.step = "raise"]
      /\ CbPutDone(0, id) /\ zcpyReg' = zcpyReg /\ zcpyHalf' = zcpyHalf
      /\ zcpyIsr' = zcpyIsr /\ zcpyHandler' = zcpyHandler /\ zcpyTasks' = zcpyTasks /\ zcpyTask' = zcpyTask
  BY DEF ZcpyIdPut, ZcpySender, zcpyGetVars
<1>3. zcpySend'.step = "raise" /\ zcpySend'.id = id
  BY <1>1, <1>2 DEF ZcpyRingOK
<1>4. id \in ZcpyIds
  BY <1>1, <1>2 DEF ZcpyRingOK
<1>5. /\ 0 \in ZcpyRings /\ ZcpyThings(0) = ZcpyIds /\ zcpyOwed[0] \in Seq(ZcpyIds)
      /\ \A i \in ZcpyIds : i \in ZcpyRings /\ i # 0
      /\ \A i : ZcpyTimes(zcpyOwed[0], i) \in Nat
  BY <1>1, ZcpyOwedIs
<1>6. ZcpyReady(0, id)
  BY <1>1, <1>2 DEF ZcpyPending
<1>7. /\ ZcpyHeld' /\ zcpyOwed'[0] = Append(zcpyOwed[0], id)
      /\ \A i \in ZcpyRings : i # 0 => zcpyRing'[i] = zcpyRing[i] /\ zcpyOwed'[i] = zcpyOwed[i]
  BY <1>1, <1>2, <1>4, <1>5, <1>6, ZcpyPutDoneKeeps
<1>8. zcpyOwed[0] # <<>> => zcpyOwed'[0] # <<>> /\ Head(zcpyOwed'[0]) = Head(zcpyOwed[0])
  BY <1>4, <1>5, <1>7, ZcpyFirstGrows
<1>9. ZcpyRingOK'
  BY <1>1, <1>2, <1>4 DEF ZcpyRingOK
<1> HIDE DEF id
<1>10. ZcpyPending'
  BY <1>3 DEF ZcpyPending
<1>11. \A i \in ZcpyRings : \A e : ZcpyFirst(i, e) => ZcpyFirst(i, e)'
  BY <1>7, <1>8 DEF ZcpyFirst
<1>12. ZcpyHands'
  <2>1. zcpyIsr.step = "got" => zcpyIsr.id \in ZcpyRings
    BY <1>1, <1>5 DEF ZcpyRingOK
  <2> QED
    BY <1>1, <1>2, <1>5, <1>11, <2>1 DEF ZcpyHands
<1>13. ZcpyOwners'
  <2>1. \A i \in ZcpyHandled \ zcpyHandler : i # id /\ i \in ZcpyIds
    BY <1>1, <1>2, ZcpyAssumption DEF ZcpyOwners, id
  <2> QED
    BY <1>1, <1>2, <1>3, <1>5, <1>7, <2>1 DEF ZcpyOwners
<1>14. \A i \in ZcpyIds : ZcpyAnnounced(i)' = ZcpyAnnounced(i)
  <2> SUFFICES ASSUME NEW i \in ZcpyIds PROVE ZcpyAnnounced(i)' = ZcpyAnnounced(i)
    OBVIOUS
  <2>1. ZcpyOnWay(i)' = 0 /\ ZcpyOnWay(i) = ZcpyOne(id, i) /\ ZcpyInHand(i)' = ZcpyInHand(i)
    BY <1>2, <1>3 DEF ZcpyOnWay, ZcpyOne, ZcpyInHand, id
  <2>2. ZcpyTimes(zcpyOwed'[0], i) = ZcpyTimes(zcpyOwed[0], i) + ZcpyOne(id, i)
    BY <1>4, <1>5, <1>7, ZcpyTimesIs
  <2>3. ZcpyTimes(zcpyOwed[0], i) \in Nat /\ ZcpyOne(id, i) \in Nat /\ ZcpyInHand(i) \in Nat
    BY <1>5, ZcpyAnnouncedIs DEF ZcpyOne
  <2> QED
    BY <2>1, <2>2, <2>3, ZcpyAnnouncedIs
<1>15. ZcpyRaised'
  BY <1>3 DEF ZcpyRaised
<1>16. \A i \in ZcpyIds \ zcpyHalf' : ZcpyHeard(i)'
  BY <1>1, <1>2, <1>5, <1>7, <1>14, ZcpyWokenIs, ZcpyHeardKeeps
<1> QED
  BY <1>7, <1>9, <1>10, <1>12, <1>13, <1>15, <1>16, ZcpyWokenIs DEF ZcpyRingInv

LEMMA ZcpyRaiseKeeps ==
  ASSUME ZcpyRingInv, ZcpyRaise
  PROVE  ZcpyRingInv'
<1>1. ZcpyHeld /\ ZcpyRingOK /\ ZcpyPending /\ ZcpyHands /\ ZcpyOwners /\ ZcpyWoken
  BY DEF ZcpyRingInv
<1>2. /\ zcpySend.step = "raise" /\ zcpySend' = [step |-> "idle", id |-> 0, buf |-> ZcpyNull]
      /\ zcpyReg' = TRUE /\ zcpyRing' = zcpyRing /\ zcpyOwed' = zcpyOwed /\ zcpyHalf' = zcpyHalf
      /\ zcpyIsr' = zcpyIsr /\ zcpyHandler' = zcpyHandler /\ zcpyTasks' = zcpyTasks /\ zcpyTask' = zcpyTask
  BY DEF ZcpyRaise, ZcpyNoSend, zcpyGetVars
<1>3. zcpySend'.step = "idle"
  BY <1>2
<1>4. ZcpyHeld'
  BY <1>1, <1>2 DEF ZcpyHeld
<1>5. ZcpyRingOK'
  <2>1. 0 \in ZcpyRings
    BY <1>1, ZcpyOwedIs
  <2>2. zcpySend' \in [step : {"idle", "put buffer", "id", "put id", "raise"},
                       id : ZcpyRings, buf : ZcpyBufs \cup {ZcpyNull}]
    BY <1>2, <2>1
  <2> QED
    BY <1>1, <1>2, <1>3, <2>2 DEF ZcpyRingOK
<1>6. ZcpyPending' /\ ZcpyHands' /\ ZcpyOwners'
  BY <1>1, <1>2, <1>3 DEF ZcpyPending, ZcpyHands, ZcpyFirst, ZcpyOwners
<1>7. ZcpyRaised'
  BY <1>2 DEF ZcpyRaised
<1>8. ASSUME NEW i \in ZcpyIds \ zcpyHalf PROVE ZcpyHeard(i)'
  <2>1. ZcpyOnWay(i)' = ZcpyOnWay(i) /\ ZcpyInHand(i)' = ZcpyInHand(i)
    BY <1>2, <1>3 DEF ZcpyOnWay, ZcpyInHand
  <2>2. ZcpyAnnounced(i)' = ZcpyAnnounced(i) /\ ZcpyHeard(i)
    BY <1>1, <1>2, <2>1, ZcpyAnnouncedIs, ZcpyWokenIs
  <2> QED
    BY <1>2, <2>2, ZcpyHeardKeeps
<1> QED
  BY <1>2, <1>4, <1>5, <1>6, <1>7, <1>8, ZcpyWokenIs DEF ZcpyRingInv

\* A step of the interrupt that changes no ring, no handler and no task.
LEMMA ZcpyIsrKeeps ==
  ASSUME ZcpyRingInv,
         UNCHANGED <<zcpyRing, zcpyOwed, zcpySend, zcpyHalf, zcpyHandler, zcpyTasks, zcpyTask>>,
         zcpyIsr' \in [step : {"idle", "read", "take", "get", "got"},
                       id : ZcpyRings, buf : ZcpyBufs \cup {ZcpyNull}],
         zcpyIsr'.step \in {"take", "get", "got"} => zcpyIsr'.id \in ZcpyIds,
         zcpyIsr'.step = "take" => ZcpyFirst(0, zcpyIsr.id)',
         zcpyIsr'.step = "got" => ZcpyFirst(zcpyIsr.id, zcpyIsr.buf)',
         zcpyIsr'.step \in {"get", "got"} => zcpyIsr'.id \in zcpyHandler,
         ZcpyRaised',
         \A i \in ZcpyIds : ZcpyInHand(i)' = ZcpyInHand(i) \/ (i \in ZcpyHandled /\ zcpyOwed[i] = <<>>)
  PROVE  ZcpyRingInv'
<1>1. ZcpyHeld /\ ZcpyRingOK /\ ZcpyPending /\ ZcpyHands /\ ZcpyOwners /\ ZcpyWoken
  BY DEF ZcpyRingInv
<1>2. ZcpyHeld'
  BY <1>1 DEF ZcpyHeld
<1>3. ZcpyRingOK'
  BY <1>1 DEF ZcpyRingOK
<1>4. ZcpyPending'
  BY <1>1 DEF ZcpyPending, ZcpyReady
<1>5. ZcpyHands'
  BY <1>1 DEF ZcpyHands, ZcpyFirst
<1>6. ZcpyOwners'
  BY <1>1 DEF ZcpyOwners
<1>7. ASSUME NEW i \in ZcpyIds \ zcpyHalf PROVE ZcpyHeard(i)'
  <2>1. ZcpyHeard(i) /\ ZcpyOnWay(i)' = ZcpyOnWay(i)
    BY <1>1, ZcpyWokenIs DEF ZcpyOnWay
  <2>2. CASE ZcpyInHand(i)' = ZcpyInHand(i)
    <3>1. ZcpyAnnounced(i)' = ZcpyAnnounced(i)
      BY <2>1, <2>2, ZcpyAnnouncedIs
    <3> QED
      BY <2>1, <3>1, ZcpyHeardKeeps
  <2>3. CASE zcpyOwed[i] = <<>>
    <3>1. ZcpyAnnounced(i)' \in Nat
      <4>1. ZcpyTimes(zcpyOwed[0], i) \in Nat /\ ZcpyOnWay(i) \in Nat
        BY <1>1, ZcpyOwedIs, ZcpyAnnouncedIs
      <4>2. ZcpyInHand(i)' \in {0, 1}
        BY DEF ZcpyInHand
      <4> QED
        BY <2>1, <4>1, <4>2, ZcpyAnnouncedIs
    <3>2. Len(zcpyOwed'[i]) = 0 /\ zcpyOwed'[i] = <<>>
      BY <2>3
    <3> QED
      BY <3>1, <3>2 DEF ZcpyHeard
  <2> QED
    BY <2>2, <2>3
<1> QED
  BY <1>2, <1>3, <1>4, <1>5, <1>6, <1>7, ZcpyWokenIs DEF ZcpyRingInv

LEMMA ZcpyIsrMovesKeep ==
  ASSUME ZcpyRingInv, ZcpyIsrEnters \/ ZcpyIsrReads \/ ZcpyIsrLeaves
  PROVE  ZcpyRingInv'
<1>1. ZcpyHeld /\ ZcpyRingOK /\ ZcpyPending /\ ZcpyHands /\ ZcpyOwners /\ ZcpyWoken
  BY DEF ZcpyRingInv
<1>2. UNCHANGED <<zcpyRing, zcpyOwed, zcpySend, zcpyHalf, zcpyHandler, zcpyTasks, zcpyTask>>
  BY DEF ZcpyIsrEnters, ZcpyIsrReads, ZcpyIsrLeaves, zcpyPutVars
<1>3. 0 \in ZcpyRings /\ ZcpyThings(0) = ZcpyIds /\ \A i \in ZcpyIds : i \in ZcpyRings
  BY <1>1, ZcpyOwedIs
<1>4. CbEmpty(0) <=> zcpyOwed[0] = <<>>
  BY <1>1, <1>3, ZcpyFullIs DEF ZcpyHeld
<1>5. CASE ZcpyIsrEnters
  <2>1. zcpyIsr.step = "idle" /\ zcpyIsr' = [zcpyIsr EXCEPT !.step = "read"]
    BY <1>5 DEF ZcpyIsrEnters
  <2>2. zcpyIsr' \in [step : {"idle", "read", "take", "get", "got"},
                      id : ZcpyRings, buf : ZcpyBufs \cup {ZcpyNull}] /\ zcpyIsr'.step = "read"
    BY <1>1, <2>1 DEF ZcpyRingOK
  <2>3. ZcpyRaised' /\ \A i \in ZcpyIds : ZcpyInHand(i)' = ZcpyInHand(i)
    BY <2>1, <2>2 DEF ZcpyRaised, ZcpyInHand
  <2> QED
    BY <1>2, <2>2, <2>3, ZcpyIsrKeeps
<1>6. CASE ZcpyIsrReads
  <2>1. zcpyIsr.step = "read" /\ zcpyOwed[0] # <<>>
        /\ zcpyIsr' = [zcpyIsr EXCEPT !.step = "take", !.id = CbTop(0)]
    BY <1>4, <1>6 DEF ZcpyIsrReads
  <2>2. CbTop(0) = Head(zcpyOwed[0]) /\ CbTop(0) \in ZcpyIds
    BY <1>1, <1>3, <2>1, ZcpyTopIs
  <2>3. zcpyIsr' \in [step : {"idle", "read", "take", "get", "got"},
                      id : ZcpyRings, buf : ZcpyBufs \cup {ZcpyNull}]
        /\ zcpyIsr'.step = "take" /\ zcpyIsr'.id = CbTop(0)
    BY <1>1, <1>3, <2>1, <2>2 DEF ZcpyRingOK
  <2>4. ZcpyRaised' /\ \A i \in ZcpyIds : ZcpyInHand(i)' = ZcpyInHand(i)
    BY <2>1, <2>3 DEF ZcpyRaised, ZcpyInHand
  <2>5. ZcpyFirst(0, zcpyIsr.id)'
    BY <1>2, <2>1, <2>2, <2>3 DEF ZcpyFirst
  <2> QED
    BY <1>2, <2>2, <2>3, <2>4, <2>5, ZcpyIsrKeeps
<1>7. CASE ZcpyIsrLeaves
  <2>1. zcpyIsr.step = "read" /\ zcpyOwed[0] = <<>> /\ zcpyIsr' = [zcpyIsr EXCEPT !.step = "idle"]
    BY <1>4, <1>7 DEF ZcpyIsrLeaves
  <2>2. zcpyIsr' \in [step : {"idle", "read", "take", "get", "got"},
                      id : ZcpyRings, buf : ZcpyBufs \cup {ZcpyNull}] /\ zcpyIsr'.step = "idle"
    BY <1>1, <2>1 DEF ZcpyRingOK
  <2>3. ZcpyRaised' /\ \A i \in ZcpyIds : ZcpyInHand(i)' = ZcpyInHand(i)
    BY <1>2, <2>1, <2>2 DEF ZcpyRaised, ZcpyInHand
  <2> QED
    BY <1>2, <2>2, <2>3, ZcpyIsrKeeps
<1> QED
  BY <1>5, <1>6, <1>7

LEMMA ZcpyIsrTakesKeeps ==
  ASSUME ZcpyRingInv, ZcpyIsrTakes
  PROVE  ZcpyRingInv'
<1> DEFINE id == zcpyIsr.id
           next == IF id \in zcpyHandler THEN "get" ELSE "read"
<1>1. ZcpyHeld /\ ZcpyRingOK /\ ZcpyPending /\ ZcpyHands /\ ZcpyOwners /\ ZcpyWoken
  BY DEF ZcpyRingInv
<1>2. /\ zcpyIsr.step = "take" /\ CbTaken(0) /\ zcpyIsr' = [zcpyIsr EXCEPT !.step = next]
      /\ zcpyTask' = IF id \in zcpyTasks \ zcpyHandler /\ zcpyTask[id].step = "asleep"
                     THEN [zcpyTask EXCEPT ![id].step = "get"] ELSE zcpyTask
      /\ zcpySend' = zcpySend /\ zcpyHalf' = zcpyHalf /\ zcpyHandler' = zcpyHandler /\ zcpyTasks' = zcpyTasks
  BY DEF ZcpyIsrTakes, zcpyPutVars
<1>3. /\ 0 \in ZcpyRings /\ ZcpyThings(0) = ZcpyIds /\ zcpyOwed[0] \in Seq(ZcpyIds)
      /\ \A i \in ZcpyIds : i \in ZcpyRings /\ i # 0
  BY <1>1, ZcpyOwedIs
<1>4. zcpyOwed[0] # <<>> /\ id = Head(zcpyOwed[0]) /\ id \in ZcpyIds
  BY <1>1, <1>2 DEF ZcpyHands, ZcpyFirst, ZcpyRingOK
<1>5. /\ ZcpyHeld' /\ zcpyOwed'[0] = Tail(zcpyOwed[0])
      /\ zcpyRing'[0].wb = zcpyRing[0].wb /\ zcpyRing'[0].elems = zcpyRing[0].elems
      /\ \A i \in ZcpyRings : i # 0 => zcpyRing'[i] = zcpyRing[i] /\ zcpyOwed'[i] = zcpyOwed[i]
  BY <1>1, <1>2, <1>3, <1>4, ZcpyTakenKeeps
<1>6. next \in {"get", "read"} /\ (next = "get" <=> id \in zcpyHandler)
  OBVIOUS
<1> HIDE DEF next
<1>7. /\ zcpyIsr' \in [step : {"idle", "read", "take", "get", "got"},
                       id : ZcpyRings, buf : ZcpyBufs \cup {ZcpyNull}]
      /\ zcpyIsr'.step = next /\ zcpyIsr'.id = id
  BY <1>1, <1>2, <1>6 DEF ZcpyRingOK
\* Only the task of the id goes on, when it sleeps.
<1>8. /\ zcpyTask' \in [ZcpyIds -> [step : {"run", "asleep", "get", "got"}, buf : ZcpyBufs \cup {ZcpyNull}]]
      /\ \A i \in ZcpyIds : /\ zcpyTask'[i].buf = zcpyTask[i].buf
                            /\ \/ zcpyTask'[i].step = zcpyTask[i].step
                               \/ i = id /\ zcpyTask[i].step = "asleep" /\ zcpyTask'[i].step = "get"
      /\ id \in zcpyTasks \ zcpyHandler => zcpyTask'[id].step # "asleep"
  <2>1. CASE id \in zcpyTasks \ zcpyHandler /\ zcpyTask[id].step = "asleep"
    <3>1. zcpyTask' = [zcpyTask EXCEPT ![id].step = "get"]
      BY <1>2, <2>1
    <3> QED
      BY <1>1, <1>4, <2>1, <3>1 DEF ZcpyRingOK
  <2>2. CASE ~(id \in zcpyTasks \ zcpyHandler /\ zcpyTask[id].step = "asleep")
    <3>1. zcpyTask' = zcpyTask
      BY <1>2, <2>2
    <3> QED
      BY <1>1, <2>2, <3>1 DEF ZcpyRingOK
  <2> QED
    BY <2>1, <2>2
<1>9. ZcpyRingOK'
  BY <1>1, <1>2, <1>4, <1>7, <1>8 DEF ZcpyRingOK
<1> HIDE DEF id
<1>10. ZcpyPending'
  <2>1. \A e : zcpySend.step = "put buffer" /\ ZcpyReady(zcpySend.id, e) => ZcpyReady(zcpySend.id, e)'
    BY <1>1, <1>2, <1>3, <1>5 DEF ZcpyReady, ZcpyRingOK
  <2>2. \A e : ZcpyReady(0, e) => ZcpyReady(0, e)'
    <3>1. Len(zcpyOwed[0]) \in Nat /\ Len(Tail(zcpyOwed[0])) <= Len(zcpyOwed[0])
          /\ Len(Tail(zcpyOwed[0])) \in Nat /\ ZcpySize[0] \in Nat
      BY <1>3, <1>4, ZcpySizes
    <3> QED
      BY <1>5, <3>1 DEF ZcpyReady
  <2>3. zcpySend.step = "put buffer" => ZcpyReady(zcpySend.id, zcpySend.buf)'
    BY <1>1, <1>2, <2>1 DEF ZcpyPending
  <2>4. zcpySend.step = "put id" => ZcpyReady(0, zcpySend.id)'
    BY <1>1, <1>2, <2>2 DEF ZcpyPending
  <2> QED
    BY <1>2, <2>3, <2>4 DEF ZcpyPending
<1>11. ZcpyHands'
  <2>1. ASSUME NEW i \in ZcpyIds, zcpyTask'[i].step = "got" PROVE ZcpyFirst(i, zcpyTask[i].buf)'
    BY <1>1, <1>3, <1>5, <1>8, <2>1 DEF ZcpyHands, ZcpyFirst
  <2> QED
    BY <1>6, <1>7, <2>1 DEF ZcpyHands
<1>12. ZcpyOwners'
  <2>1. zcpyIsr'.step \in {"get", "got"} => zcpyIsr'.id \in zcpyHandler
    BY <1>6, <1>7
  <2>2. \A i \in ZcpyIds : zcpyTask'[i].step # "run" => zcpyTask[i].step # "run"
    BY <1>8
  <2>3. \A i \in ZcpyIds : zcpyTask'[i].step = "asleep" => zcpyTask[i].step = "asleep"
    BY <1>8
  <2>4. \A i \in ZcpyHandled : zcpyOwed'[i] = zcpyOwed[i]
    BY <1>3, <1>5, ZcpyAssumption
  <2> QED
    BY <1>1, <1>2, <2>1, <2>2, <2>3, <2>4 DEF ZcpyOwners
<1>13. ZcpyRaised'
  BY <1>6, <1>7 DEF ZcpyRaised
<1>14. ASSUME NEW i \in ZcpyIds \ zcpyHalf PROVE ZcpyHeard(i)'
  <2>1. ZcpyHeard(i)
    BY <1>1, ZcpyWokenIs
  <2>2. ZcpyTimes(zcpyOwed[0], i) = ZcpyTimes(zcpyOwed'[0], i) + ZcpyOne(id, i)
        /\ ZcpyTimes(zcpyOwed[0], i) \in Nat
    BY <1>3, <1>4, <1>5, ZcpyTimesIs
  <2>3. Tail(zcpyOwed[0]) \in Seq(ZcpyIds)
    BY <1>3, <1>4
  <2>4. ZcpyTimes(zcpyOwed'[0], i) \in Nat
    BY <1>5, <2>3, ZcpyTimesIs
  <2>5. ZcpyOnWay(i)' = ZcpyOnWay(i) /\ ZcpyOnWay(i) \in Nat
    BY <1>2, ZcpyAnnouncedIs DEF ZcpyOnWay
  <2>6. ZcpyInHand(i) = 0 /\ ZcpyInHand(i)' = IF i = id /\ id \in zcpyHandler THEN 1 ELSE 0
    BY <1>2, <1>6, <1>7 DEF ZcpyInHand
  <2>7. CASE i # id \/ id \in zcpyHandler
    <3>1. ZcpyAnnounced(i)' = ZcpyAnnounced(i)
      BY <2>2, <2>4, <2>5, <2>6, <2>7, ZcpyAnnouncedIs DEF ZcpyOne
    <3>2. zcpyOwed'[i] = zcpyOwed[i] /\ (zcpyTask'[i].step = "asleep" => zcpyTask[i].step = "asleep")
      BY <1>3, <1>5, <1>8
    <3> QED
      BY <1>2, <2>1, <3>1, <3>2, ZcpyHeardKeeps
  <2>8. CASE i = id /\ id \notin zcpyHandler
    <3>1. zcpyTask'[i].step # "asleep"
      <4>1. zcpyTask[i].step = "asleep" => id \in zcpyTasks \ zcpyHandler
        BY <1>1, <2>8 DEF ZcpyOwners
      <4> QED
        BY <1>8, <2>8, <4>1
    <3> QED
      BY <1>2, <2>8, <3>1 DEF ZcpyHeard
  <2> QED
    BY <2>7, <2>8
<1> QED
  BY <1>2, <1>5, <1>9, <1>10, <1>11, <1>12, <1>13, <1>14, ZcpyWokenIs DEF ZcpyRingInv

\* A step that takes a buffer that the handler or the task of its id has got.
LEMMA ZcpyBufferTaken ==
  ASSUME ZcpyHeld, ZcpyRingOK, ZcpyPending, NEW id \in ZcpyIds, zcpyOwed[id] # <<>>, CbTaken(id),
         zcpySend' = zcpySend
  PROVE  /\ ZcpyHeld' /\ ZcpyPending' /\ zcpyOwed'[0] = zcpyOwed[0] /\ zcpyOwed'[id] = Tail(zcpyOwed[id])
         /\ Len(zcpyOwed'[id]) = Len(zcpyOwed[id]) - 1
         /\ \A i \in ZcpyIds : i # id => zcpyOwed'[i] = zcpyOwed[i]
<1>1. /\ 0 \in ZcpyRings /\ id \in ZcpyRings /\ id # 0 /\ zcpyOwed[id] \in Seq(ZcpyBufs)
      /\ \A i \in ZcpyIds : i \in ZcpyRings
  BY ZcpyOwedIs
<1>2. /\ ZcpyHeld' /\ zcpyOwed'[id] = Tail(zcpyOwed[id])
      /\ zcpyRing'[id].wb = zcpyRing[id].wb /\ zcpyRing'[id].elems = zcpyRing[id].elems
      /\ \A i \in ZcpyRings : i # id => zcpyRing'[i] = zcpyRing[i] /\ zcpyOwed'[i] = zcpyOwed[i]
  BY <1>1, ZcpyTakenKeeps
<1>3. /\ Len(zcpyOwed[id]) \in Nat /\ Len(Tail(zcpyOwed[id])) = Len(zcpyOwed[id]) - 1
      /\ Len(Tail(zcpyOwed[id])) \in Nat /\ ZcpySize[id] \in Nat
  BY <1>1, ZcpySizes
<1>4. \A r \in ZcpyRings : \A e : ZcpyReady(r, e) => ZcpyReady(r, e)'
  <2> SUFFICES ASSUME NEW r \in ZcpyRings, NEW e, ZcpyReady(r, e) PROVE ZcpyReady(r, e)'
    OBVIOUS
  <2>1. CASE r = id
    <3>1. Len(zcpyOwed[id]) < ZcpySize[id] /\ zcpyRing[id].elems[ZcpyPlace(zcpyRing[id].wb, id)] = e
      BY <2>1 DEF ZcpyReady
    <3>2. Len(zcpyOwed'[id]) < ZcpySize[id]
      BY <1>2, <1>3, <3>1
    <3> QED
      BY <1>2, <2>1, <3>1, <3>2 DEF ZcpyReady
  <2>2. CASE r # id
    BY <1>2, <2>2 DEF ZcpyReady
  <2> QED
    BY <2>1, <2>2
<1>5. zcpySend.step = "put buffer" => ZcpyReady(zcpySend.id, zcpySend.buf)'
  BY <1>1, <1>4 DEF ZcpyPending, ZcpyRingOK
<1>6. zcpySend.step = "put id" => ZcpyReady(0, zcpySend.id)'
  BY <1>1, <1>4 DEF ZcpyPending
<1>7. ZcpyPending'
  BY <1>5, <1>6 DEF ZcpyPending
<1> QED
  BY <1>1, <1>2, <1>3, <1>7

LEMMA ZcpyHandlerGetsKeeps ==
  ASSUME ZcpyRingInv, ZcpyHandlerGets
  PROVE  ZcpyRingInv'
<1> DEFINE id == zcpyIsr.id
<1>1. ZcpyHeld /\ ZcpyRingOK /\ ZcpyPending /\ ZcpyHands /\ ZcpyOwners /\ ZcpyWoken
  BY DEF ZcpyRingInv
<1>2. UNCHANGED <<zcpySend, zcpyHalf, zcpyHandler, zcpyTasks, zcpyTask>> /\ zcpyIsr.step \in {"get", "got"}
  BY DEF ZcpyHandlerGets, zcpyPutVars
<1>3. id \in ZcpyIds /\ id \in zcpyHandler /\ id \in ZcpyHandled
  BY <1>1, <1>2 DEF ZcpyRingOK, ZcpyOwners
<1>4. id \in ZcpyRings /\ ZcpyThings(id) = ZcpyBufs /\ (CbEmpty(id) <=> zcpyOwed[id] = <<>>)
  <2>1. id \in ZcpyRings /\ ZcpyThings(id) = ZcpyBufs
    BY <1>1, <1>3, ZcpyOwedIs
  <2> QED
    BY <1>1, <2>1, ZcpyFullIs DEF ZcpyHeld
<1>5. CASE zcpyIsr.step = "get"
  <2>1. /\ zcpyIsr' = IF CbEmpty(id) THEN [zcpyIsr EXCEPT !.step = "read"]
                      ELSE [zcpyIsr EXCEPT !.step = "got", !.buf = CbTop(id)]
        /\ zcpyRing' = zcpyRing /\ zcpyOwed' = zcpyOwed
    BY <1>5 DEF ZcpyHandlerGets
  <2>2. CASE CbEmpty(id)
    <3>1. zcpyIsr' = [zcpyIsr EXCEPT !.step = "read"]
      BY <2>1, <2>2
    <3>2. zcpyIsr' \in [step : {"idle", "read", "take", "get", "got"},
                        id : ZcpyRings, buf : ZcpyBufs \cup {ZcpyNull}] /\ zcpyIsr'.step = "read"
      BY <1>1, <3>1 DEF ZcpyRingOK
    <3>3. ZcpyRaised' /\ \A i \in ZcpyIds : i # id => ZcpyInHand(i)' = ZcpyInHand(i)
      BY <1>5, <3>2 DEF ZcpyRaised, ZcpyInHand
    <3> QED
      BY <1>2, <1>3, <1>4, <2>1, <2>2, <3>2, <3>3, ZcpyIsrKeeps
  <2>3. CASE ~CbEmpty(id)
    <3>1. zcpyIsr' = [zcpyIsr EXCEPT !.step = "got", !.buf = CbTop(id)]
      BY <2>1, <2>3
    <3>2. zcpyOwed[id] # <<>> /\ CbTop(id) = Head(zcpyOwed[id]) /\ CbTop(id) \in ZcpyBufs
      BY <1>1, <1>4, <2>3, ZcpyTopIs
    <3>3. zcpyIsr' \in [step : {"idle", "read", "take", "get", "got"},
                        id : ZcpyRings, buf : ZcpyBufs \cup {ZcpyNull}]
          /\ zcpyIsr'.step = "got" /\ zcpyIsr'.id = id /\ zcpyIsr'.buf = CbTop(id)
      BY <1>1, <3>1, <3>2 DEF ZcpyRingOK
    <3>4. ZcpyRaised' /\ \A i \in ZcpyIds : ZcpyInHand(i)' = ZcpyInHand(i)
      BY <1>5, <3>3 DEF ZcpyRaised, ZcpyInHand
    <3>5. ZcpyFirst(zcpyIsr.id, zcpyIsr.buf)'
      BY <2>1, <3>2, <3>3 DEF ZcpyFirst
    <3> QED
      BY <1>2, <1>3, <2>1, <3>3, <3>4, <3>5, ZcpyIsrKeeps
  <2> QED
    BY <2>2, <2>3
<1>6. CASE zcpyIsr.step = "got"
  <2>1. /\ zcpyIsr' = [zcpyIsr EXCEPT !.step = "read", !.buf = ZcpyNull] /\ CbTaken(id)
    BY <1>6 DEF ZcpyHandlerGets
  <2>2. zcpyOwed[id] # <<>>
    BY <1>1, <1>6 DEF ZcpyHands, ZcpyFirst
  <2>3. /\ ZcpyHeld' /\ ZcpyPending' /\ zcpyOwed'[0] = zcpyOwed[0]
        /\ Len(zcpyOwed'[id]) = Len(zcpyOwed[id]) - 1
        /\ \A i \in ZcpyIds : i # id => zcpyOwed'[i] = zcpyOwed[i]
    BY <1>1, <1>2, <1>3, <2>1, <2>2, ZcpyBufferTaken
  <2>4. /\ zcpyIsr' \in [step : {"idle", "read", "take", "get", "got"},
                         id : ZcpyRings, buf : ZcpyBufs \cup {ZcpyNull}]
        /\ zcpyIsr'.step = "read"
    BY <1>1, <2>1 DEF ZcpyRingOK
  <2>5. ZcpyRingOK'
    BY <1>1, <1>2, <2>4 DEF ZcpyRingOK
  <2> HIDE DEF id
  <2>6. \A i \in ZcpyIds : zcpyTask[i].step # "run" => i # id
    BY <1>1, <1>3 DEF ZcpyOwners
  <2>7. ZcpyHands'
    <3>1. \A i \in ZcpyIds : \A e : i # id /\ ZcpyFirst(i, e) => ZcpyFirst(i, e)'
      BY <2>3 DEF ZcpyFirst
    <3>2. \A i \in ZcpyIds : zcpyTask[i].step = "got" => ZcpyFirst(i, zcpyTask[i].buf)'
      BY <1>1, <1>2, <2>6, <3>1 DEF ZcpyHands
    <3> QED
      BY <1>2, <2>4, <3>2 DEF ZcpyHands
  <2>8. ZcpyOwners'
    <3>1. \A i \in ZcpyHandled \ zcpyHandler : zcpyOwed'[i] = zcpyOwed[i]
      BY <1>3, <2>3, ZcpyAssumption
    <3> QED
      BY <1>1, <1>2, <2>4, <3>1 DEF ZcpyOwners
  <2>9. ZcpyRaised'
    BY <2>4 DEF ZcpyRaised
  <2>10. ASSUME NEW i \in ZcpyIds \ zcpyHalf PROVE ZcpyHeard(i)'
    <3>1. ZcpyHeard(i) /\ ZcpyAnnounced(i) \in Nat /\ Len(zcpyOwed[i]) \in Nat
      BY <1>1, ZcpyWokenIs, ZcpyOwedIs
    <3>2. ZcpyOnWay(i)' = ZcpyOnWay(i) /\ ZcpyInHand(i) = ZcpyOne(id, i) /\ ZcpyInHand(i)' = 0
      BY <1>2, <1>6, <2>4 DEF ZcpyOnWay, ZcpyInHand, ZcpyOne, id
    <3>3. ZcpyTimes(zcpyOwed[0], i) \in Nat /\ ZcpyOnWay(i) \in Nat /\ ZcpyOne(id, i) \in {0, 1}
      BY <1>1, ZcpyOwedIs, ZcpyAnnouncedIs DEF ZcpyOne
    <3>4. ZcpyAnnounced(i) = ZcpyAnnounced(i)' + ZcpyOne(id, i) /\ ZcpyAnnounced(i)' \in Nat
      BY <2>3, <3>2, <3>3, ZcpyAnnouncedIs
    <3>5. CASE i = id
      <4>1. ZcpyAnnounced(i) = ZcpyAnnounced(i)' + 1
        BY <3>4, <3>5 DEF ZcpyOne
      <4>2. zcpyTask'[i].step # "asleep"
        BY <1>2, <2>6, <3>5
      <4>3. Len(zcpyOwed[i]) <= ZcpyAnnounced(i)
        BY <1>3, <3>1, <3>5 DEF ZcpyHeard
      <4>4. Len(zcpyOwed'[i]) <= ZcpyAnnounced(i)'
        BY <2>3, <3>1, <3>4, <3>5, <4>1, <4>3
      <4> QED
        BY <4>2, <4>4 DEF ZcpyHeard
    <3>6. CASE i # id
      <4>1. ZcpyAnnounced(i)' = ZcpyAnnounced(i)
        BY <3>4, <3>6 DEF ZcpyOne
      <4> QED
        BY <1>2, <2>3, <3>1, <3>6, <4>1, ZcpyHeardKeeps
    <3> QED
      BY <3>5, <3>6
  <2> QED
    BY <1>2, <2>3, <2>5, <2>7, <2>8, <2>9, <2>10, ZcpyWokenIs DEF ZcpyRingInv
<1> QED
  BY <1>2, <1>5, <1>6

\* A step of a task or of a registration that changes no ring.
LEMMA ZcpyTasksKeep ==
  ASSUME ZcpyRingInv, UNCHANGED <<zcpyRing, zcpyOwed, zcpyReg, zcpySend, zcpyHalf, zcpyIsr>>,
         zcpyTask' \in [ZcpyIds -> [step : {"run", "asleep", "get", "got"}, buf : ZcpyBufs \cup {ZcpyNull}]],
         zcpyHandler \subseteq zcpyHandler', zcpyHandler' \subseteq ZcpyHandled,
         \A id \in ZcpyIds :
            /\ zcpyTask'[id].step = "got" => ZcpyFirst(id, zcpyTask'[id].buf)
            /\ zcpyTask'[id].step # "run" => id \notin ZcpyHandled
            /\ zcpyTask'[id].step = "asleep" => id \in zcpyTasks'
            /\ zcpyTask'[id].step = "asleep" => zcpyTask[id].step = "asleep" \/ zcpyOwed[id] = <<>>
  PROVE  ZcpyRingInv'
<1>1. ZcpyHeld /\ ZcpyRingOK /\ ZcpyPending /\ ZcpyHands /\ ZcpyOwners /\ ZcpyWoken
  BY DEF ZcpyRingInv
<1>2. ZcpyHeld'
  BY <1>1 DEF ZcpyHeld
<1>3. ZcpyRingOK'
  BY <1>1 DEF ZcpyRingOK
<1>4. ZcpyPending'
  BY <1>1 DEF ZcpyPending, ZcpyReady
<1>5. ZcpyHands'
  BY <1>1 DEF ZcpyHands, ZcpyFirst
<1>6. ZcpyOwners'
  BY <1>1 DEF ZcpyOwners
<1>7. ZcpyRaised'
  BY <1>1, ZcpyWokenIs DEF ZcpyRaised
<1>8. ASSUME NEW i \in ZcpyIds \ zcpyHalf PROVE ZcpyHeard(i)'
  <2>1. ZcpyOnWay(i)' = ZcpyOnWay(i) /\ ZcpyInHand(i)' = ZcpyInHand(i)
    BY DEF ZcpyOnWay, ZcpyInHand
  <2>2. ZcpyAnnounced(i)' = ZcpyAnnounced(i) /\ ZcpyHeard(i) /\ ZcpyAnnounced(i) \in Nat
    BY <1>1, <2>1, ZcpyAnnouncedIs, ZcpyWokenIs, ZcpyOwedIs
  <2>3. CASE i \in zcpyHandler \/ i \notin zcpyHandler'
    BY <2>2, <2>3, ZcpyHeardKeeps
  \* Nothing has been sent to an id that has its handler from now on.
  <2>4. CASE i \in zcpyHandler' \ zcpyHandler
    <3>1. zcpyOwed[i] = <<>>
      BY <1>1, <2>4 DEF ZcpyOwners
    <3>2. zcpyOwed'[i] = <<>> /\ Len(zcpyOwed'[i]) = 0
      BY <3>1
    <3> QED
      BY <2>2, <3>2 DEF ZcpyHeard
  <2> QED
    BY <2>3, <2>4
<1> QED
  BY <1>2, <1>3, <1>4, <1>5, <1>6, <1>7, <1>8, ZcpyWokenIs DEF ZcpyRingInv

LEMMA ZcpyRegisterKeeps ==
  ASSUME ZcpyRingInv, NEW id \in ZcpyIds, ZcpyRegister(id)
  PROVE  ZcpyRingInv'
<1>1. ZcpyRingOK /\ ZcpyHands /\ ZcpyOwners
  BY DEF ZcpyRingInv
<1>2. /\ UNCHANGED <<zcpyRing, zcpyOwed, zcpyReg, zcpySend, zcpyHalf, zcpyIsr>>
      /\ zcpyTasks' = zcpyTasks /\ zcpyTask' = zcpyTask
      /\ zcpyHandler' = zcpyHandler \cup {id} /\ id \in ZcpyHandled
  BY DEF ZcpyRegister, zcpyPutVars
<1>3. zcpyHandler' \subseteq ZcpyHandled /\ zcpyHandler \subseteq zcpyHandler'
  BY <1>1, <1>2 DEF ZcpyRingOK
<1>4. zcpyTask' \in [ZcpyIds -> [step : {"run", "asleep", "get", "got"}, buf : ZcpyBufs \cup {ZcpyNull}]]
  BY <1>1, <1>2 DEF ZcpyRingOK
<1>5. \A i \in ZcpyIds :
         /\ zcpyTask'[i].step = "got" => ZcpyFirst(i, zcpyTask'[i].buf)
         /\ zcpyTask'[i].step # "run" => i \notin ZcpyHandled
         /\ zcpyTask'[i].step = "asleep" => i \in zcpyTasks'
  BY <1>1, <1>2 DEF ZcpyHands, ZcpyOwners
<1> QED
  BY <1>2, <1>3, <1>4, <1>5, ZcpyTasksKeep

LEMMA ZcpyReceiveKeeps ==
  ASSUME ZcpyRingInv, NEW id \in ZcpyIds, ZcpyReceive(id)
  PROVE  ZcpyRingInv'
<1> DEFINE next == IF CbEmpty(id) THEN "asleep" ELSE "get"
<1>1. ZcpyHeld /\ ZcpyRingOK /\ ZcpyHands /\ ZcpyOwners
  BY DEF ZcpyRingInv
<1>2. /\ UNCHANGED <<zcpyRing, zcpyOwed, zcpyReg, zcpySend, zcpyHalf, zcpyIsr, zcpyHandler>>
      /\ zcpyTasks' = zcpyTasks \cup {id} /\ zcpyTask' = [zcpyTask EXCEPT ![id].step = next]
      /\ id \notin ZcpyHandled
  BY DEF ZcpyReceive, zcpyPutVars
<1>3. id \in ZcpyRings
  BY <1>1, ZcpyOwedIs
<1>4. next \in {"asleep", "get"} /\ (next = "asleep" => zcpyOwed[id] = <<>>)
  BY <1>1, <1>3, ZcpyFullIs DEF ZcpyHeld
<1> HIDE DEF next
<1>5. /\ zcpyTask' \in [ZcpyIds -> [step : {"run", "asleep", "get", "got"}, buf : ZcpyBufs \cup {ZcpyNull}]]
      /\ zcpyTask'[id].step = next /\ \A i \in ZcpyIds : i # id => zcpyTask'[i] = zcpyTask[i]
  BY <1>1, <1>2, <1>4 DEF ZcpyRingOK
<1>6. ASSUME NEW i \in ZcpyIds
      PROVE  /\ zcpyTask'[i].step = "got" => ZcpyFirst(i, zcpyTask'[i].buf)
             /\ zcpyTask'[i].step # "run" => i \notin ZcpyHandled
             /\ zcpyTask'[i].step = "asleep" => i \in zcpyTasks'
             /\ zcpyTask'[i].step = "asleep" => zcpyTask[i].step = "asleep" \/ zcpyOwed[i] = <<>>
  <2>1. CASE i = id
    BY <1>2, <1>4, <1>5, <2>1
  <2>2. CASE i # id
    BY <1>1, <1>2, <1>5, <2>2 DEF ZcpyHands, ZcpyOwners
  <2> QED
    BY <2>1, <2>2
<1>7. zcpyHandler' \subseteq ZcpyHandled
  BY <1>1, <1>2 DEF ZcpyRingOK
<1> QED
  BY <1>2, <1>5, <1>6, <1>7, ZcpyTasksKeep

LEMMA ZcpyTaskGetsKeeps ==
  ASSUME ZcpyRingInv, NEW id \in ZcpyIds, ZcpyTaskGets(id)
  PROVE  ZcpyRingInv'
<1>1. ZcpyHeld /\ ZcpyRingOK /\ ZcpyPending /\ ZcpyHands /\ ZcpyOwners /\ ZcpyWoken
  BY DEF ZcpyRingInv
<1>2. /\ UNCHANGED <<zcpyReg, zcpySend, zcpyHalf, zcpyIsr, zcpyHandler, zcpyTasks>>
      /\ zcpyIsr.step = "idle" /\ zcpyTask[id].step \in {"get", "got"}
  BY DEF ZcpyTaskGets, zcpyPutVars
<1>3. id \in ZcpyRings /\ ZcpyThings(id) = ZcpyBufs
  BY <1>1, ZcpyOwedIs
<1>4. CbEmpty(id) <=> zcpyOwed[id] = <<>>
  BY <1>1, <1>3, ZcpyFullIs DEF ZcpyHeld
<1>5. id \notin ZcpyHandled /\ id \notin zcpyHandler
  BY <1>1, <1>2 DEF ZcpyOwners, ZcpyRingOK
<1>6. CASE zcpyTask[id].step = "get"
  <2> DEFINE next == IF CbEmpty(id) THEN [step |-> "run", buf |-> ZcpyNull]
                     ELSE [step |-> "got", buf |-> CbTop(id)]
  <2>1. zcpyTask' = [zcpyTask EXCEPT ![id] = next] /\ UNCHANGED <<zcpyRing, zcpyOwed>>
    BY <1>6 DEF ZcpyTaskGets
  <2>2. /\ next \in [step : {"run", "asleep", "get", "got"}, buf : ZcpyBufs \cup {ZcpyNull}]
        /\ next.step \in {"run", "got"} /\ (next.step = "got" => ZcpyFirst(id, next.buf))
    <3>1. CASE CbEmpty(id)
      BY <3>1
    <3>2. CASE ~CbEmpty(id)
      <4>1. zcpyOwed[id] # <<>> /\ CbTop(id) = Head(zcpyOwed[id]) /\ CbTop(id) \in ZcpyBufs
        BY <1>1, <1>3, <1>4, <3>2, ZcpyTopIs
      <4>2. next = [step |-> "got", buf |-> CbTop(id)]
        BY <3>2
      <4> QED
        BY <4>1, <4>2 DEF ZcpyFirst
    <3> QED
      BY <3>1, <3>2
  <2> HIDE DEF next
  <2>3. /\ zcpyTask' \in [ZcpyIds -> [step : {"run", "asleep", "get", "got"}, buf : ZcpyBufs \cup {ZcpyNull}]]
        /\ zcpyTask'[id] = next /\ \A i \in ZcpyIds : i # id => zcpyTask'[i] = zcpyTask[i]
    BY <1>1, <2>1, <2>2 DEF ZcpyRingOK
  <2>4. ASSUME NEW i \in ZcpyIds
        PROVE  /\ zcpyTask'[i].step = "got" => ZcpyFirst(i, zcpyTask'[i].buf)
               /\ zcpyTask'[i].step # "run" => i \notin ZcpyHandled
               /\ zcpyTask'[i].step = "asleep" => i \in zcpyTasks'
               /\ zcpyTask'[i].step = "asleep" => zcpyTask[i].step = "asleep" \/ zcpyOwed[i] = <<>>
    <3>1. CASE i = id
      BY <1>5, <2>2, <2>3, <3>1
    <3>2. CASE i # id
      BY <1>1, <1>2, <2>3, <3>2 DEF ZcpyHands, ZcpyOwners
    <3> QED
      BY <3>1, <3>2
  <2>5. zcpyHandler' \subseteq ZcpyHandled
    BY <1>1, <1>2 DEF ZcpyRingOK
  <2> QED
    BY <1>2, <2>1, <2>3, <2>4, <2>5, ZcpyTasksKeep
<1>7. CASE zcpyTask[id].step = "got"
  <2>1. zcpyTask' = [zcpyTask EXCEPT ![id] = [step |-> "run", buf |-> ZcpyNull]] /\ CbTaken(id)
    BY <1>7 DEF ZcpyTaskGets
  <2>2. zcpyOwed[id] # <<>>
    BY <1>1, <1>7 DEF ZcpyHands, ZcpyFirst
  <2>3. /\ ZcpyHeld' /\ ZcpyPending' /\ zcpyOwed'[0] = zcpyOwed[0]
        /\ \A i \in ZcpyIds : i # id => zcpyOwed'[i] = zcpyOwed[i]
    BY <1>1, <1>2, <2>1, <2>2, ZcpyBufferTaken
  <2>4. /\ zcpyTask' \in [ZcpyIds -> [step : {"run", "asleep", "get", "got"}, buf : ZcpyBufs \cup {ZcpyNull}]]
        /\ zcpyTask'[id].step = "run" /\ \A i \in ZcpyIds : i # id => zcpyTask'[i] = zcpyTask[i]
    BY <1>1, <2>1 DEF ZcpyRingOK
  <2>5. ZcpyRingOK'
    BY <1>1, <1>2, <2>4 DEF ZcpyRingOK
  <2>6. ZcpyHands'
    <3>1. ASSUME NEW i \in ZcpyIds, zcpyTask'[i].step = "got" PROVE ZcpyFirst(i, zcpyTask[i].buf)'
      BY <1>1, <2>3, <2>4, <3>1 DEF ZcpyHands, ZcpyFirst
    <3> QED
      BY <1>2, <3>1 DEF ZcpyHands
  <2>7. ZcpyOwners'
    <3>1. \A i \in ZcpyHandled : zcpyOwed'[i] = zcpyOwed[i]
      BY <1>5, <2>3, ZcpyAssumption
    <3>2. \A i \in ZcpyIds : zcpyTask'[i].step # "run" => i # id
      BY <2>4
    <3> QED
      BY <1>1, <1>2, <2>4, <3>1, <3>2 DEF ZcpyOwners
  <2>8. ZcpyRaised'
    BY <1>1, <1>2, <2>3, ZcpyWokenIs DEF ZcpyRaised
  <2>9. ASSUME NEW i \in ZcpyIds \ zcpyHalf PROVE ZcpyHeard(i)'
    <3>1. ZcpyOnWay(i)' = ZcpyOnWay(i) /\ ZcpyInHand(i)' = ZcpyInHand(i)
      BY <1>2 DEF ZcpyOnWay, ZcpyInHand
    <3>2. ZcpyAnnounced(i)' = ZcpyAnnounced(i) /\ ZcpyHeard(i)
      BY <1>1, <2>3, <3>1, ZcpyAnnouncedIs, ZcpyWokenIs
    <3>3. CASE i = id
      BY <1>2, <1>5, <2>4, <3>3 DEF ZcpyHeard
    <3>4. CASE i # id
      BY <1>2, <2>3, <2>4, <3>2, <3>4, ZcpyHeardKeeps
    <3> QED
      BY <3>3, <3>4
  <2> QED
    BY <1>2, <2>3, <2>5, <2>6, <2>7, <2>8, <2>9, ZcpyWokenIs DEF ZcpyRingInv
<1> QED
  BY <1>2, <1>6, <1>7

LEMMA ZcpyRingStarts == ASSUME ZcpyInit PROVE ZcpyRingInv
<1>1. /\ zcpyRing = [r \in ZcpyRings |-> [wb |-> 0, rd |-> 0,
                                          elems |-> [n \in 0..(ZcpySize[r] - 1) |-> 0]]]
      /\ zcpyOwed = [r \in ZcpyRings |-> <<>>]
      /\ zcpySend = [step |-> "idle", id |-> 0, buf |-> ZcpyNull]
      /\ zcpyIsr = [step |-> "idle", id |-> 0, buf |-> ZcpyNull]
      /\ zcpyHandler = {} /\ zcpyTasks = {}
      /\ zcpyTask = [id \in ZcpyIds |-> [step |-> "run", buf |-> ZcpyNull]]
  BY DEF ZcpyInit, ZcpyNoSend, ZcpyRings
<1>2. 0 \in ZcpyRings /\ \A id \in ZcpyIds : id \in ZcpyRings
  BY DEF ZcpyRings
<1>3. ASSUME NEW r \in ZcpyRings PROVE ZcpyHolds(zcpyRing[r], zcpyOwed[r], r)
  <2>1. ZcpySize[r] \in Nat \ {0}
    BY ZcpySizes
  <2>2. zcpyRing[r] = [wb |-> 0, rd |-> 0, elems |-> [n \in 0..(ZcpySize[r] - 1) |-> 0]]
        /\ zcpyOwed[r] = <<>>
    BY <1>1
  <2>3. /\ zcpyRing[r] \in ZcpyRingOf(r) /\ zcpyRing[r].wb = 0 /\ zcpyRing[r].rd = 0
    BY <2>1, <2>2 DEF ZcpyRingOf
  <2>4. Len(zcpyOwed[r]) = 0 /\ zcpyOwed[r] \in Seq(ZcpyThings(r)) /\ ZcpyDist(0, 0, r) = 0
    BY <2>1, <2>2 DEF ZcpyDist
  <2> QED
    BY <2>1, <2>3, <2>4 DEF ZcpyHolds
<1>4. ZcpyHeld
  <2>1. \A r \in ZcpyRings : zcpyRing[r] \in ZcpyRingOf(r) /\ zcpyOwed[r] \in Seq(ZcpyThings(r))
    BY <1>3 DEF ZcpyHolds
  <2>2. /\ zcpyRing \in [ZcpyRings -> UNION {ZcpyRingOf(r) : r \in ZcpyRings}]
        /\ zcpyOwed \in [ZcpyRings -> UNION {Seq(ZcpyThings(r)) : r \in ZcpyRings}]
    BY <1>1, <2>1
  <2> QED
    BY <1>3, <2>2 DEF ZcpyHeld
<1>5. zcpySend.step = "idle" /\ zcpyIsr.step = "idle" /\ \A id \in ZcpyIds : zcpyTask[id].step = "run"
  BY <1>1
<1>6. ZcpyRingOK
  BY <1>1, <1>2, <1>5 DEF ZcpyRingOK
<1>7. ZcpyPending /\ ZcpyHands
  BY <1>5 DEF ZcpyPending, ZcpyHands
<1>8. \A r \in ZcpyRings : zcpyOwed[r] = <<>> /\ Len(zcpyOwed[r]) = 0
  BY <1>1
<1>9. ZcpyOwners
  BY <1>2, <1>5, <1>8, ZcpyAssumption DEF ZcpyOwners
<1>10. ZcpyWoken
  BY <1>1, <1>2, <1>8, ZcpyWokenIs DEF ZcpyRaised, ZcpyHeard
<1> QED
  BY <1>4, <1>6, <1>7, <1>9, <1>10 DEF ZcpyRingInv

LEMMA ZcpyRingKeeps ==
  ASSUME ZcpyRingInv, ZcpyRingNext \/ UNCHANGED zcpyRingVars
  PROVE  ZcpyRingInv'
<1>1. CASE ZcpyRingNext
  BY <1>1, ZcpyBufferPutKeeps, ZcpySendIdKeeps, ZcpyIdPutKeeps, ZcpyRaiseKeeps, ZcpyIsrMovesKeep,
     ZcpyIsrTakesKeeps, ZcpyHandlerGetsKeeps, ZcpyRegisterKeeps, ZcpyReceiveKeeps, ZcpyTaskGetsKeeps,
     ZcpySendBufferKeeps DEF ZcpyRingNext
<1>2. CASE UNCHANGED zcpyRingVars
  <2>1. UNCHANGED <<zcpyRing, zcpyOwed, zcpyReg, zcpySend, zcpyHalf, zcpyIsr, zcpyHandler, zcpyTasks, zcpyTask>>
    BY <1>2 DEF zcpyRingVars, zcpyPutVars, zcpyGetVars
  <2>2. ZcpyHeld' /\ ZcpyRingOK' /\ ZcpyPending' /\ ZcpyHands' /\ ZcpyOwners'
    BY <2>1 DEF ZcpyRingInv, ZcpyHeld, ZcpyRingOK, ZcpyPending, ZcpyReady, ZcpyHands, ZcpyFirst, ZcpyOwners
  <2>3. ZcpyWoken'
    BY <2>1 DEF ZcpyRingInv, ZcpyWoken, ZcpyAnnounced
  <2> QED
    BY <2>2, <2>3 DEF ZcpyRingInv
<1> QED
  BY <1>1, <1>2

LEMMA ZcpyRingServes == ASSUME ZcpyRingInv PROVE ZcpyInOrder /\ ZcpyWoken
<1>1. ZcpyHeld /\ ZcpyHands /\ ZcpyWoken
  BY DEF ZcpyRingInv
<1>2. ASSUME NEW r \in ZcpyRings
      PROVE  zcpyOwed[r] = [n \in 1..((zcpyRing[r].wb - zcpyRing[r].rd) % (2 * ZcpySize[r]))
                               |-> zcpyRing[r].elems[(zcpyRing[r].rd + n - 1) % ZcpySize[r]]]
  <2> DEFINE ring == zcpyRing[r]
             q == zcpyOwed[r]
             s == [n \in 1..((ring.wb - ring.rd) % (2 * ZcpySize[r]))
                      |-> ring.elems[(ring.rd + n - 1) % ZcpySize[r]]]
  <2>1. /\ ring \in ZcpyRingOf(r) /\ q \in Seq(ZcpyThings(r))
        /\ Len(q) = ZcpyDist(ring.rd, ring.wb, r) /\ Len(q) <= ZcpySize[r]
        /\ \A n \in 1..Len(q) : q[n] = ring.elems[ZcpyPlace(ring.rd + n - 1, r)]
    BY <1>1 DEF ZcpyHeld, ZcpyHolds
  <2>2. ring.rd \in 0..(2 * ZcpySize[r] - 1) /\ ring.wb \in 0..(2 * ZcpySize[r] - 1)
    BY <2>1 DEF ZcpyRingOf
  <2>3. (ring.wb - ring.rd) % (2 * ZcpySize[r]) = Len(q)
    BY <2>1, <2>2, ZcpyDistIs
  <2>4. \A n \in 1..Len(q) : ring.rd + n - 1 \in 0..(3 * ZcpySize[r] - 1)
    BY <2>1, <2>2, ZcpyPlaces
  <2>5. \A n \in 1..Len(q) : (ring.rd + n - 1) % ZcpySize[r] = ZcpyPlace(ring.rd + n - 1, r)
    BY <2>4, ZcpyPlaceIs
  <2>6. \A n \in 1..Len(q) : q[n] = s[n]
    BY <2>1, <2>3, <2>5
  <2>7. DOMAIN q = 1..Len(q) /\ DOMAIN s = 1..Len(q) /\ q = [n \in DOMAIN q |-> q[n]]
    BY <2>1, <2>3
  <2>8. s = [n \in DOMAIN s |-> s[n]]
    OBVIOUS
  <2> HIDE DEF q, s
  <2>9. q = s
    BY <2>6, <2>7, <2>8
  <2> QED
    BY <2>9 DEF q, s
<1>3. ZcpyInOrder
  BY <1>1, <1>2 DEF ZcpyInOrder, ZcpyHands, ZcpyFirst, ZcpyRings
<1> QED
  BY <1>1, <1>3


ZcpyInv == ZcpyTableInv /\ ZcpyRingInv

\* Buffers change hands as they should, wherever the two cores are in their calls:
\* what the rings hold and who takes from them has is what was sent and not taken, in
\* its order; a buffer that waits for a handler, or for a task that sleeps, is
\* announced unless a send of its id has failed half way; and the table has each
\* buffer in use once, and is asked truthfully.
THEOREM ZcpyServesHolds == ZcpySpec => []ZcpyServes
<1>1. ZcpyInit => ZcpyInv
  BY ZcpyTableStarts, ZcpyRingStarts DEF ZcpyInv
<1>2. ZcpyInv /\ [ZcpyNext]_zcpyVars => ZcpyInv'
  <2> SUFFICES ASSUME ZcpyInv, [ZcpyNext]_zcpyVars PROVE ZcpyInv'
    OBVIOUS
  <2>1. /\ ZcpyTableNext \/ UNCHANGED zcpyTableVars
        /\ ZcpyRingNext \/ UNCHANGED zcpyRingVars
    BY DEF ZcpyNext, zcpyVars
  <2> QED
    BY <2>1, ZcpyTableKeeps, ZcpyRingKeeps DEF ZcpyInv
<1>3. ZcpyInv => ZcpyServes
  BY ZcpyTableServes, ZcpyRingServes DEF ZcpyInv, ZcpyServes
<1> QED
  BY <1>1, <1>2, <1>3, PTL DEF ZcpySpec
=============================================================================
