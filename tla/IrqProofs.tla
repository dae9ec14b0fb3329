------------------------------ MODULE IrqProofs ------------------------------
(***************************************************************************)
(* Proofs about Irq, for any interrupts of a word, any groups and any      *)
(* callers: what keeps an interrupt in one place, and what does not.  And  *)
(* about Eint, for any pins and registrations: the pins are as their       *)
(* drivers have asked for, whatever the interrupt does in the middle of    *)
(* the calls.                                                              *)
(***************************************************************************)
EXTENDS Irq, Eint, WellFoundedInduction, SequenceTheorems, TLAPS

CallSteps == {"idle", "mask", "group", "unmask", "map", "disable"}
DispatchSteps == {"idle", "check", "leave", "handler", "enter"}
IrqRecords == [step : CallSteps \cup DispatchSteps, irq : Nat, group : IrqGroups,
               moves : BOOLEAN, to : Harts, critical : BOOLEAN]

IrqTypes ==
  /\ irqWord \in [IrqWords -> SUBSET Irqs]
  /\ irqAt \in [IrqRunners -> IrqRecords]
  /\ irqSeen \in [IrqRunners -> SUBSET Irqs]

Of(r, i) == irqAt[r].step # "idle" /\ irqAt[r].irq = i

(* What a runner is about: an enable goes to the group of the request, a   *)
(* dispatch comes from a group of its hart.                                *)
Sane(r) ==
  LET a == irqAt[r] IN
  /\ r \in IrqCallers => a.step \in CallSteps
  /\ r \in Dispatches => a.step \in DispatchSteps
  /\ r \in irqHas => a.step \in IrqAccesses
  /\ a.step # "idle" => a.irq \in Irqs
  /\ a.step \in {"mask", "group"} => a.group = IrqGroup[a.irq]
  /\ a.step \in DispatchSteps \ {"idle"} =>
        a.group \in Places(a.irq) /\ r = Dispatch(HartOf(a.group))
  /\ a.step \in {"leave", "enter"} => a.moves

(* No group has an interrupt that is not its own, and none was read.       *)
InPlaces == \A g \in IrqGroups : \A i \in irqWord[g] : g \in Places(i)
SeenPlaces ==
  \A r \in irqHas : WordOf(irqAt[r]) \in IrqGroups =>
    \A i \in irqSeen[r] : WordOf(irqAt[r]) \in Places(i)

InGroup(i) == {g \in IrqGroups : i \in irqWord[g]}
Kept(i) == i \in irqPut \ irqTorn => InGroup(i) # {} \/ IrqInTransit(i)

(* An interrupt that no word tore and that was not enabled elsewhere is in *)
(* the group it is dispatched from, until it is on its way.                *)
Alone(i) ==
  i \notin irqTorn \cup irqTwice =>
    /\ \A f, g \in InGroup(i) : f = g
    /\ \A d \in Dispatches : Of(d, i) =>
          IF InTransit(d, i) THEN InGroup(i) = {} ELSE irqAt[d].group \in InGroup(i)
    /\ \A c, d \in Dispatches : Of(c, i) /\ Of(d, i) => c = d

IrqInv ==
  /\ IrqTypes /\ (\A r \in IrqRunners : Sane(r)) /\ InPlaces /\ SeenPlaces
  /\ \A i \in Irqs : Kept(i) /\ Alone(i)

(* A group and its counterpart on the other hart.                          *)
LEMMA Groups ==
  ASSUME NEW g \in IrqGroups
  PROVE  /\ Target(g) \in IrqGroups /\ Target(Target(g)) = g
         /\ HartOf(g) \in Harts /\ HartOf(g) # HartOf(Target(g))
         /\ g \in IrqWords /\ g # EnWord /\ g # MapWord
  BY DEF IrqGroups, Target, HartOf, IrqOffset, Harts, IrqWords, EnWord, MapWord

(* The groups an interrupt may be in come in a pair.                       *)
LEMMA PlacesPaired ==
  ASSUME NEW i \in Irqs, NEW g \in Places(i)
  PROVE  g \in IrqGroups /\ Target(g) \in Places(i)
  BY IrqAssumption, Groups DEF Places

(* The runners are those that call and one dispatch for each hart.         *)
LEMMA Runners ==
  /\ \A h \in Harts : Dispatch(h) \in Dispatches
  /\ \A h, k \in Harts : Dispatch(h) = Dispatch(k) => h = k
  /\ IrqCallers \subseteq IrqRunners /\ Dispatches \subseteq IrqRunners
  /\ \A r \in IrqRunners : r \in IrqCallers <=> r \notin Dispatches
<1>1. \A r \in IrqCallers : r[2] \in {"task", "isr"}
  BY IrqAssumption
<1>2. \A r \in Dispatches : r[2] = "dispatch"
  BY DEF Dispatches, Dispatch
<1>3. \A h, k \in Harts : Dispatch(h) = Dispatch(k) => h = k
  BY DEF Dispatch
<1> QED BY <1>1, <1>2, <1>3 DEF IrqRunners, Dispatches

(* What no runner is doing is as it was.                                   *)
LEMMA Undisturbed ==
  ASSUME NEW i \in Irqs, Kept(i), Alone(i),
         InGroup(i)' = InGroup(i),
         \A d \in Dispatches : /\ InTransit(d, i)' = InTransit(d, i)
                               /\ Of(d, i)' => Of(d, i) /\ irqAt'[d].group = irqAt[d].group,
         i \in irqPut' => i \in irqPut,
         irqTorn \subseteq irqTorn', irqTwice \subseteq irqTwice'
  PROVE  Kept(i)' /\ Alone(i)'
<1>1. IrqInTransit(i)' = IrqInTransit(i)
  BY DEF IrqInTransit
<1>2. Kept(i)'
  BY <1>1 DEF Kept
<1>3. Alone(i)'
  BY DEF Alone
<1> QED BY <1>2, <1>3

(* The types and what the runners are about, after a step of one of them   *)
(* that changes no word.                                                   *)
LEMMA OneRunner ==
  ASSUME IrqInv, NEW r \in IrqRunners, r \notin irqHas, NEW a \in IrqRecords,
         irqAt' = [irqAt EXCEPT ![r] = a],
         UNCHANGED <<irqWord, irqHas, irqSeen, irqPut, irqTwice, irqTorn>>,
         Sane(r)'
  PROVE  /\ IrqTypes' /\ (\A q \in IrqRunners : Sane(q)') /\ InPlaces' /\ SeenPlaces'
         /\ \A i \in Irqs : InGroup(i)' = InGroup(i)
         /\ \A q \in IrqRunners : irqAt'[q] = IF q = r THEN a ELSE irqAt[q]
<1>1. IrqTypes' /\ \A q \in IrqRunners : irqAt'[q] = IF q = r THEN a ELSE irqAt[q]
  BY DEF IrqInv, IrqTypes
<1>2. ASSUME NEW q \in IrqRunners
      PROVE  Sane(q)'
  <2>1. CASE q = r
    BY <2>1
  <2>2. CASE q # r
    BY <1>1, <2>2 DEF IrqInv, Sane
  <2> QED BY <2>1, <2>2
<1>3. SeenPlaces'
  <2> SUFFICES ASSUME NEW q \in irqHas, q # r
               PROVE  WordOf(irqAt'[q]) \in IrqGroups =>
                        \A i \in irqSeen[q] : WordOf(irqAt'[q]) \in Places(i)
    BY DEF SeenPlaces
  <2>1. irqAt'[q] = irqAt[q]
    BY DEF IrqInv, IrqTypes
  <2> QED BY <2>1 DEF IrqInv, SeenPlaces
<1> QED BY <1>1, <1>2, <1>3 DEF IrqInv, InPlaces, InGroup

(* The calls.                                                              *)
LEMMA CallKeeps ==
  ASSUME IrqInv, NEW r \in IrqCallers, NEW i \in Irqs,
         IrqRequest(r, i) \/ IrqEnable(r, i) \/ IrqDisable(r, i)
           \/ \E h \in Harts : IrqMigrate(r, i, h)
  PROVE  IrqInv'
<1>1. PICK a : /\ irqAt[r] = IrqIdle /\ irqAt' = [irqAt EXCEPT ![r] = a]
               /\ UNCHANGED <<irqWord, irqHas, irqSeen, irqPut, irqTwice, irqTorn>>
               /\ a \in IrqRecords /\ a.irq \in Irqs /\ a.step \in {"mask", "disable", "map"}
               /\ a.step = "mask" => a.group = IrqGroup[a.irq]
  <2>1. /\ IrqGroup[i] \in IrqGroups /\ HartOf(IrqGroup[i]) \in Harts
        /\ i \in Nat /\ 0 \in Harts /\ 1 \in IrqGroups
    BY IrqAssumption, Groups DEF Harts, IrqGroups
  <2>2. \A x : IrqCall(r, x) => /\ irqAt[r] = IrqIdle /\ irqAt' = [irqAt EXCEPT ![r] = x]
                                /\ UNCHANGED <<irqWord, irqHas, irqSeen, irqPut, irqTwice, irqTorn>>
    BY DEF IrqCall
  <2>3. CASE IrqRequest(r, i) \/ IrqEnable(r, i)
    <3> DEFINE a == IrqEnabling(i)
    <3>1. /\ a \in IrqRecords /\ a.irq = i /\ a.step = "mask" /\ a.group = IrqGroup[i]
      BY <2>1 DEF IrqEnabling, IrqRecords, CallSteps
    <3>2. IrqCall(r, a)
      BY <2>3 DEF IrqRequest, IrqEnable
    <3> HIDE DEF a
    <3> QED BY <2>2, <3>1, <3>2
  <2>4. CASE IrqDisable(r, i)
    <3> DEFINE a == [IrqIdle EXCEPT !.step = "disable", !.irq = i, !.critical = TRUE]
    <3>1. /\ a \in IrqRecords /\ a.irq = i /\ a.step = "disable"
      BY <2>1 DEF IrqIdle, IrqRecords, CallSteps
    <3>2. IrqCall(r, a)
      BY <2>4 DEF IrqDisable
    <3> HIDE DEF a
    <3> QED BY <2>2, <3>1, <3>2
  <2>5. ASSUME NEW h \in Harts, IrqMigrate(r, i, h)
        PROVE  \E a : /\ irqAt[r] = IrqIdle /\ irqAt' = [irqAt EXCEPT ![r] = a]
                      /\ UNCHANGED <<irqWord, irqHas, irqSeen, irqPut, irqTwice, irqTorn>>
                      /\ a \in IrqRecords /\ a.irq \in Irqs /\ a.step \in {"mask", "disable", "map"}
                      /\ a.step = "mask" => a.group = IrqGroup[a.irq]
    <3> DEFINE a == [IrqIdle EXCEPT !.step = "map", !.irq = i, !.to = h]
    <3>1. /\ a \in IrqRecords /\ a.irq = i /\ a.step = "map"
      BY <2>1 DEF IrqIdle, IrqRecords, CallSteps
    <3>2. IrqCall(r, a)
      BY <2>5 DEF IrqMigrate
    <3> HIDE DEF a
    <3> QED BY <2>2, <3>1, <3>2
  <2> QED BY <2>3, <2>4, <2>5
<1>2. r \in IrqRunners /\ r \notin Dispatches /\ irqAt'[r] = a
  BY <1>1, Runners DEF IrqInv, IrqTypes
<1>3. r \notin irqHas
  BY <1>1, <1>2 DEF IrqInv, Sane, IrqIdle, IrqAccesses
<1>4. Sane(r)'
  BY <1>1, <1>2, <1>3 DEF Sane, CallSteps, DispatchSteps
<1>5. /\ IrqTypes' /\ (\A q \in IrqRunners : Sane(q)') /\ InPlaces' /\ SeenPlaces'
      /\ \A j \in Irqs : InGroup(j)' = InGroup(j)
      /\ \A q \in IrqRunners : irqAt'[q] = IF q = r THEN a ELSE irqAt[q]
  BY <1>1, <1>2, <1>3, <1>4, OneRunner
<1>6. ASSUME NEW j \in Irqs
      PROVE  Kept(j)' /\ Alone(j)'
  <2>1. \A d \in Dispatches : irqAt'[d] = irqAt[d]
    BY <1>2, <1>5, Runners
  <2> QED BY <1>1, <1>5, <2>1, Undisturbed DEF IrqInv, InTransit, Of
<1> QED BY <1>5, <1>6 DEF IrqInv

(* A dispatch takes an interrupt of a group of its hart: no other has it.  *)
LEMMA TakeKeeps ==
  ASSUME IrqInv, NEW h \in Harts, NEW g \in IrqGroups, IrqTake(h, g)
  PROVE  IrqInv'
<1> DEFINE d == Dispatch(h)
<1>1. PICK i \in irqWord[g] :
        irqAt' = [irqAt EXCEPT ![d] = [IrqIdle EXCEPT !.step = "check", !.irq = i, !.group = g]]
  BY DEF IrqTake
<1> DEFINE a == [IrqIdle EXCEPT !.step = "check", !.irq = i, !.group = g]
<1>2. /\ i \in Irqs /\ i \in Nat /\ g \in Places(i) /\ HartOf(g) = h /\ d = Dispatch(HartOf(g))
      /\ irqAt[d] = IrqIdle /\ d \in IrqRunners /\ d \in Dispatches /\ d \notin IrqCallers
      /\ UNCHANGED <<irqWord, irqHas, irqSeen, irqPut, irqTwice, irqTorn>>
  BY <1>1, Groups, Runners, IrqAssumption DEF IrqInv, IrqTypes, InPlaces, IrqTake, irqPast
<1>3. /\ a \in IrqRecords /\ a.step = "check" /\ a.irq = i /\ a.group = g /\ a.moves = FALSE
  BY <1>2 DEF IrqIdle, IrqRecords, DispatchSteps, Harts
<1> HIDE DEF d, a
<1>4. d \notin irqHas
  BY <1>2 DEF IrqInv, Sane, IrqIdle, IrqAccesses
<1>5. irqAt' = [irqAt EXCEPT ![d] = a] /\ irqAt'[d] = a
  BY <1>1, <1>2 DEF a, IrqInv, IrqTypes
<1>6. Sane(d)'
  BY <1>2, <1>3, <1>4, <1>5 DEF Sane, CallSteps, DispatchSteps
<1>7. /\ IrqTypes' /\ (\A q \in IrqRunners : Sane(q)') /\ InPlaces' /\ SeenPlaces'
      /\ \A j \in Irqs : InGroup(j)' = InGroup(j)
      /\ \A q \in IrqRunners : irqAt'[q] = IF q = d THEN a ELSE irqAt[q]
  BY <1>2, <1>3, <1>4, <1>5, <1>6, OneRunner
<1>8. ASSUME NEW j \in Irqs, NEW c \in Dispatches
      PROVE  InTransit(c, j)' = InTransit(c, j) /\ (j # i => Of(c, j)' = Of(c, j))
             /\ (c # d => irqAt'[c] = irqAt[c])
  BY <1>2, <1>3, <1>7, Runners DEF InTransit, Of, IrqIdle
<1>9. ASSUME NEW j \in Irqs, j # i
      PROVE  Kept(j)' /\ Alone(j)'
  <2>1. \A c \in Dispatches : Of(c, j)' => Of(c, j) /\ irqAt'[c].group = irqAt[c].group
    BY <1>2, <1>3, <1>5, <1>8, <1>9 DEF Of
  <2> QED BY <1>2, <1>7, <1>8, <2>1, Undisturbed DEF IrqInv
<1>10. Kept(i)'
  <2>1. IrqInTransit(i)' = IrqInTransit(i)
    BY <1>2, <1>8 DEF IrqInTransit
  <2> QED BY <1>2, <1>7, <2>1 DEF IrqInv, Kept
<1>11. Alone(i)'
  <2> SUFFICES ASSUME i \notin irqTorn \cup irqTwice
               PROVE  /\ \A f, k \in InGroup(i)' : f = k
                      /\ \A c \in Dispatches : Of(c, i)' =>
                            IF InTransit(c, i)' THEN InGroup(i)' = {} ELSE irqAt'[c].group \in InGroup(i)'
                      /\ \A c, e \in Dispatches : Of(c, i)' /\ Of(e, i)' => c = e
    BY <1>2 DEF Alone
  <2>1. /\ \A f, k \in InGroup(i) : f = k
        /\ g \in InGroup(i)
        /\ \A c \in Dispatches : Of(c, i) =>
              IF InTransit(c, i) THEN InGroup(i) = {} ELSE irqAt[c].group \in InGroup(i)
    BY <1>2 DEF IrqInv, Alone, InGroup
  <2>2. \A c \in Dispatches : Of(c, i) => c = d
    <3> SUFFICES ASSUME NEW c \in Dispatches, Of(c, i)
                 PROVE  c = d
      OBVIOUS
    <3>1. irqAt[c].group = g
      BY <2>1
    <3>2. c = Dispatch(HartOf(irqAt[c].group))
      BY Runners DEF IrqInv, Sane, Of
    <3> QED BY <1>2, <3>1, <3>2
  <2>3. ASSUME NEW c \in Dispatches, Of(c, i)'
        PROVE  c = d
    <3> SUFFICES ASSUME c # d
                 PROVE  FALSE
      OBVIOUS
    <3>1. irqAt'[c] = irqAt[c]
      BY <1>2, <1>8
    <3>2. Of(c, i)
      BY <2>3, <3>1 DEF Of
    <3> QED BY <2>2, <3>2
  <2>4. ~InTransit(d, i)' /\ irqAt'[d].group = g
    BY <1>2, <1>3, <1>5 DEF InTransit
  <2> QED BY <1>2, <1>7, <2>1, <2>3, <2>4
<1> QED BY <1>2, <1>7, <1>9, <1>10, <1>11 DEF IrqInv

(* The dispatch looks at the bitmap, or its handler returns: the interrupt *)
(* stays where it is.                                                      *)
LEMMA DispatchKeeps ==
  ASSUME IrqInv, NEW h \in Harts, IrqCheck(h) \/ IrqHandled(h)
  PROVE  IrqInv'
<1> DEFINE d == Dispatch(h)  b == irqAt[d]
<1>1. /\ d \in IrqRunners /\ d \in Dispatches /\ d \notin IrqCallers /\ b \in IrqRecords /\ Sane(d)
      /\ IrqIdle \in IrqRecords
      /\ UNCHANGED <<irqWord, irqHas, irqSeen, irqPut, irqTwice, irqTorn>>
  BY Runners DEF IrqInv, IrqTypes, IrqCheck, IrqHandled, irqPast, IrqIdle, IrqRecords, CallSteps,
     IrqGroups, Harts
<1>2. PICK a \in IrqRecords :
        /\ irqAt' = [irqAt EXCEPT ![d] = a]
        /\ b.step \in {"check", "handler"}
        /\ \/ a = IrqIdle /\ ~b.moves /\ b.step = "handler"
           \/ /\ a.irq = b.irq /\ a.group = b.group
              /\ a.step \in {"leave", "handler", "enter"}
              /\ b.step = "check" => (a.step = "leave" /\ a.moves) \/ (a.step = "handler" /\ ~a.moves)
              /\ b.step = "handler" => a.step = "enter" /\ a.moves /\ b.moves
  <2>1. CASE IrqCheck(h)
    <3> DEFINE move == Mapped(b.irq) # h
               a == [b EXCEPT !.step = IF move THEN "leave" ELSE "handler", !.moves = move]
    <3>1. irqAt' = [irqAt EXCEPT ![d] = a] /\ b.step = "check"
      BY <2>1 DEF IrqCheck
    <3>2. move \in BOOLEAN
      OBVIOUS
    <3> HIDE DEF move, b
    <3>3. /\ a \in IrqRecords /\ a.irq = b.irq /\ a.group = b.group
          /\ (a.step = "leave" /\ a.moves) \/ (a.step = "handler" /\ ~a.moves)
      BY <1>1, <3>2 DEF IrqRecords, DispatchSteps
    <3> QED BY <3>1, <3>3
  <2>2. CASE IrqHandled(h) /\ ~b.moves
    BY <1>1, <2>2 DEF IrqHandled, Moves
  <2>3. CASE IrqHandled(h) /\ b.moves
    <3> DEFINE a == [b EXCEPT !.step = "enter"]
    <3>1. irqAt' = [irqAt EXCEPT ![d] = a] /\ b.step = "handler"
      BY <2>3 DEF IrqHandled, Moves
    <3> HIDE DEF b
    <3>2. /\ a \in IrqRecords /\ a.irq = b.irq /\ a.group = b.group /\ a.step = "enter"
          /\ a.moves = b.moves
      BY <1>1 DEF IrqRecords, DispatchSteps
    <3> QED BY <2>3, <3>1, <3>2
  <2> QED BY <2>1, <2>2, <2>3
<1>3. /\ b.irq \in Irqs /\ b.group \in Places(b.irq) /\ d = Dispatch(HartOf(b.group)) /\ d \notin irqHas
      /\ irqAt'[d] = a
  BY <1>1, <1>2 DEF Sane, IrqAccesses, DispatchSteps, IrqInv, IrqTypes
<1> HIDE DEF d, b
<1>4. Sane(d)'
  BY <1>1, <1>2, <1>3 DEF Sane, CallSteps, DispatchSteps, IrqIdle
<1>5. /\ IrqTypes' /\ (\A q \in IrqRunners : Sane(q)') /\ InPlaces' /\ SeenPlaces'
      /\ \A j \in Irqs : InGroup(j)' = InGroup(j)
      /\ \A q \in IrqRunners : irqAt'[q] = IF q = d THEN a ELSE irqAt[q]
  BY <1>1, <1>2, <1>3, <1>4, OneRunner
<1>6. ASSUME NEW j \in Irqs
      PROVE  Kept(j)' /\ Alone(j)'
  <2>1. ASSUME NEW c \in Dispatches
        PROVE  /\ InTransit(c, j)' = InTransit(c, j)
               /\ Of(c, j)' => Of(c, j) /\ irqAt'[c].group = irqAt[c].group
    <3>1. CASE c # d
      BY <1>5, <2>1, <3>1, Runners DEF InTransit, Of
    <3>2. CASE c = d
      <4>1. InTransit(d, j)' = (a.irq = j /\ a.moves /\ a.step \in {"handler", "enter"})
        BY <1>3 DEF InTransit
      <4>2. InTransit(d, j) = (b.irq = j /\ b.moves /\ b.step \in {"handler", "enter"})
        BY DEF InTransit, b
      <4>3. InTransit(d, j)' = InTransit(d, j)
        BY <1>2, <4>1, <4>2 DEF IrqIdle
      <4>4. Of(d, j)' => Of(d, j) /\ irqAt'[d].group = irqAt[d].group
        BY <1>2, <1>3 DEF Of, IrqIdle, b
      <4> QED BY <3>2, <4>3, <4>4
    <3> QED BY <3>1, <3>2
  <2> QED BY <1>1, <1>5, <2>1, Undisturbed DEF IrqInv
<1> QED BY <1>5, <1>6 DEF IrqInv

(* A runner reads a word.                                                  *)
LEMMA ReadKeeps ==
  ASSUME IrqInv, NEW r \in IrqRunners, IrqRead(r)
  PROVE  IrqInv'
<1>1. /\ UNCHANGED <<irqWord, irqAt, irqPut, irqTwice, irqTorn>>
      /\ irqHas' = irqHas \cup {r} /\ irqAt[r].step \in IrqAccesses
      /\ irqSeen' = [irqSeen EXCEPT ![r] = irqWord[WordOf(irqAt[r])]]
  BY DEF IrqRead, irqPast
<1>2. ASSUME NEW q \in IrqRunners
      PROVE  Sane(q)'
  BY <1>1 DEF IrqInv, Sane
<1>3. WordOf(irqAt[r]) \in IrqWords
  <2>1. irqAt[r].group \in IrqGroups /\ irqAt[r] \in IrqRecords
    BY DEF IrqInv, IrqTypes, IrqRecords
  <2> QED BY <2>1, Groups DEF WordOf, IrqWords
<1>4. IrqTypes'
  BY <1>1, <1>3 DEF IrqInv, IrqTypes
<1>5. SeenPlaces'
  <2> SUFFICES ASSUME NEW q \in irqHas', WordOf(irqAt[q]) \in IrqGroups, NEW i \in irqSeen'[q]
               PROVE  WordOf(irqAt[q]) \in Places(i)
    BY <1>1 DEF SeenPlaces
  <2>1. CASE q = r
    BY <1>1, <2>1 DEF IrqInv, IrqTypes, InPlaces
  <2>2. CASE q # r
    BY <1>1, <2>2 DEF IrqInv, IrqTypes, SeenPlaces
  <2> QED BY <2>1, <2>2
<1>6. InPlaces'
  BY <1>1 DEF IrqInv, InPlaces
<1>7. ASSUME NEW i \in Irqs
      PROVE  Kept(i)' /\ Alone(i)'
  BY <1>1, Undisturbed DEF IrqInv, InGroup, InTransit, Of
<1> QED BY <1>2, <1>4, <1>5, <1>6, <1>7 DEF IrqInv

(* What a runner is at when it has changed a word.                         *)
LEMMA Afterwards ==
  ASSUME NEW a \in IrqRecords, a.step \in IrqAccesses
  PROVE  /\ AfterAccess(a) \in IrqRecords
         /\ \/ a.step \in {"disable", "map", "enter"} /\ AfterAccess(a) = IrqIdle
            \/ /\ AfterAccess(a).irq = a.irq /\ AfterAccess(a).group = a.group
               /\ AfterAccess(a).moves = a.moves
               /\ \/ a.step = "mask" /\ AfterAccess(a).step = "group"
                  \/ a.step = "group" /\ AfterAccess(a).step = "unmask"
                  \/ a.step = "unmask" /\ AfterAccess(a).step = "map"
                  \/ a.step = "leave" /\ AfterAccess(a).step = "handler"
<1>1. CASE a.step = "mask"
  BY <1>1 DEF AfterAccess, IrqRecords, CallSteps
<1>2. CASE a.step = "group"
  BY <1>2 DEF AfterAccess, IrqRecords, CallSteps
<1>3. CASE a.step = "unmask"
  BY <1>3 DEF AfterAccess, IrqRecords, CallSteps
<1>4. CASE a.step = "leave"
  BY <1>4 DEF AfterAccess, IrqRecords, DispatchSteps
<1>5. CASE a.step \in {"disable", "map", "enter"}
  <2>1. AfterAccess(a) = IrqIdle
    BY <1>5 DEF AfterAccess
  <2>2. IrqIdle \in IrqRecords
    BY DEF IrqIdle, IrqRecords, CallSteps, IrqGroups, Harts
  <2> QED BY <1>5, <2>1, <2>2
<1> QED BY <1>1, <1>2, <1>3, <1>4, <1>5 DEF IrqAccesses

(* A runner writes a word back.                                            *)
LEMMA WriteKeeps ==
  ASSUME IrqInv, NEW r \in IrqRunners, IrqWrite(r)
  PROVE  IrqInv'
<1> DEFINE a == irqAt[r]  b == AfterAccess(a)  w == WordOf(a)
<1>0. PICK k \in Irqs : k = a.irq
  BY DEF IrqWrite, IrqInv, Sane, IrqAccesses
<1>1. /\ r \in irqHas /\ irqHas' = irqHas \ {r}
      /\ irqWord' = [irqWord EXCEPT ![w] = IF Sets(a) THEN irqSeen[r] \cup {k} ELSE irqSeen[r] \ {k}]
      /\ irqAt' = [irqAt EXCEPT ![r] = b]
      /\ irqPut' = irqPut \cup (IF a.step = "group" THEN {k} ELSE {})
      /\ irqTwice' = irqTwice \cup (IF a.step = "group" /\ Elsewhere(k) THEN {k} ELSE {})
      /\ irqTorn' = irqTorn \cup (IF w \in IrqGroups THEN Stale(r) ELSE {})
      /\ irqSeen' = [irqSeen EXCEPT ![r] = {}]
  BY <1>0 DEF IrqWrite
<1>2. /\ a \in IrqRecords /\ a.step \in IrqAccesses /\ k \in Irqs /\ a.group \in IrqGroups
      /\ r \in IrqCallers => a.step \in CallSteps
      /\ r \in Dispatches => /\ a.step \in {"leave", "enter"} /\ a.moves
                             /\ a.group \in Places(k) /\ r = Dispatch(HartOf(a.group))
      /\ a.step \in {"mask", "group"} => a.group = IrqGroup[k]
  <2>1. a \in IrqRecords /\ Sane(r)
    BY DEF IrqInv, IrqTypes
  <2> QED BY <1>0, <1>1, <2>1 DEF Sane, IrqAccesses, IrqRecords, DispatchSteps
<1>3. /\ w \in IrqWords
      /\ a.step \in {"mask", "unmask", "disable", "map"} => w \notin IrqGroups
      /\ a.step = "group" => w = IrqGroup[k]
      /\ a.step = "leave" => w = a.group
      /\ a.step = "enter" => w = Target(a.group)
      /\ w \in IrqGroups => a.step \in {"group", "leave", "enter"}
  BY <1>2, Groups DEF WordOf, IrqWords, IrqAccesses, EnWord, MapWord, IrqGroups
<1>4. /\ b \in IrqRecords
      /\ \/ a.step \in {"disable", "map", "enter"} /\ b = IrqIdle
         \/ /\ b.irq = k /\ b.group = a.group /\ b.moves = a.moves
            /\ \/ a.step = "mask" /\ b.step = "group"
               \/ a.step = "group" /\ b.step = "unmask"
               \/ a.step = "unmask" /\ b.step = "map"
               \/ a.step = "leave" /\ b.step = "handler"
  BY <1>0, <1>2, Afterwards
<1>5. Sets(a) <=> a.step \in {"group", "unmask", "enter"} \/ (a.step = "map" /\ a.to = 1)
  BY DEF Sets
<1> HIDE DEF b, w
<1>6. /\ irqAt'[r] = b /\ irqHas' \subseteq irqHas /\ irqTorn \subseteq irqTorn'
      /\ irqTwice \subseteq irqTwice'
      /\ \A q \in IrqRunners : q # r => irqAt'[q] = irqAt[q] /\ irqSeen'[q] = irqSeen[q]
      /\ irqWord'[w] = IF Sets(a) THEN irqSeen[r] \cup {k} ELSE irqSeen[r] \ {k}
      /\ \A v \in IrqWords : v # w => irqWord'[v] = irqWord[v]
  BY <1>1, <1>3 DEF IrqInv, IrqTypes
<1>7. IrqTypes'
  <2>1. irqSeen[r] \subseteq Irqs
    BY DEF IrqInv, IrqTypes
  <2> QED BY <1>1, <1>2, <1>3, <1>4, <2>1 DEF IrqInv, IrqTypes
<1>8. ASSUME NEW q \in IrqRunners
      PROVE  Sane(q)'
  <2>1. CASE q # r
    BY <1>1, <1>6, <2>1 DEF IrqInv, Sane
  <2>2. CASE r \in IrqCallers /\ q = r
    BY <1>1, <1>2, <1>4, <1>6, <2>2, Runners DEF Sane, CallSteps, DispatchSteps, IrqIdle
  <2>3. CASE r \in Dispatches /\ q = r
    BY <1>1, <1>2, <1>4, <1>6, <2>3, Runners DEF Sane, CallSteps, DispatchSteps, IrqIdle
  <2> QED BY <2>1, <2>2, <2>3, Runners
<1>9. InPlaces'
  <2> SUFFICES ASSUME NEW g \in IrqGroups, NEW i \in irqWord'[g]
               PROVE  g \in Places(i)
    BY DEF InPlaces
  <2>1. CASE g # w
    BY <1>6, <2>1, Groups DEF IrqInv, InPlaces
  <2>2. CASE g = w /\ i \in irqSeen[r]
    BY <1>1, <2>2 DEF IrqInv, SeenPlaces, w
  <2>3. CASE g = w /\ i = k /\ Sets(a)
    <3>1. CASE a.step = "group"
      BY <1>3, <2>3, <3>1 DEF Places
    <3>2. CASE a.step = "enter"
      <4>1. r \in Dispatches
        BY <1>2, <3>2, Runners DEF CallSteps
      <4> QED BY <1>2, <1>3, <2>3, <3>2, <4>1, PlacesPaired
    <3> QED BY <1>3, <1>5, <2>3, <3>1, <3>2
  <2> QED BY <1>6, <2>1, <2>2, <2>3
<1>10. SeenPlaces'
  <2> SUFFICES ASSUME NEW q \in irqHas', WordOf(irqAt'[q]) \in IrqGroups, NEW i \in irqSeen'[q]
               PROVE  WordOf(irqAt'[q]) \in Places(i)
    BY DEF SeenPlaces
  <2>1. q # r /\ q \in irqHas
    BY <1>1
  <2>2. irqAt'[q] = irqAt[q] /\ irqSeen'[q] = irqSeen[q]
    BY <1>1, <2>1 DEF IrqInv, IrqTypes
  <2> QED BY <2>1, <2>2 DEF IrqInv, SeenPlaces
<1>11. ASSUME NEW i \in Irqs, i \notin irqTorn', i # k \/ w \notin IrqGroups
       PROVE  Kept(i)' /\ Alone(i)'
  <2>1. InGroup(i)' = InGroup(i)
    <3> SUFFICES ASSUME NEW g \in IrqGroups
                 PROVE  i \in irqWord'[g] <=> i \in irqWord[g]
      BY DEF InGroup
    <3>1. CASE g # w
      BY <1>6, <3>1, Groups
    <3>2. CASE g = w
      <4>1. i \notin Stale(r) /\ i # k
        BY <1>1, <1>11, <3>2
      <4>2. i \in irqSeen[r] <=> i \in irqWord[w]
        BY <1>0, <4>1 DEF Stale, w
      <4> QED BY <1>6, <3>2, <4>1, <4>2
    <3> QED BY <3>1, <3>2
  <2>2. ASSUME NEW d \in Dispatches
        PROVE  /\ InTransit(d, i)' = InTransit(d, i)
               /\ Of(d, i)' => Of(d, i) /\ irqAt'[d].group = irqAt[d].group
    <3>1. CASE d # r
      BY <1>6, <3>1, Runners DEF InTransit, Of
    <3>2. CASE d = r
      <4>1. a.step \in {"leave", "enter"} /\ i # k
        BY <1>2, <1>3, <1>11, <3>2, Groups, PlacesPaired
      <4>2. b = IrqIdle \/ b.irq = k
        BY <1>4
      <4>3. ~InTransit(d, i) /\ ~InTransit(d, i)' /\ ~Of(d, i)'
        BY <1>6, <3>2, <4>1, <4>2, <1>0 DEF InTransit, Of, IrqIdle
      <4> QED BY <4>3 DEF InTransit
    <3> QED BY <3>1, <3>2
  <2>3. i \in irqPut' => i \in irqPut
    BY <1>1, <1>3, <1>11, IrqAssumption
  <2> QED BY <1>6, <2>1, <2>2, <2>3, Undisturbed DEF IrqInv
<1>12. ASSUME w \in IrqGroups, k \notin irqTorn'
       PROVE  Kept(k)' /\ Alone(k)'
  <2>1. /\ Kept(k) /\ Alone(k) /\ k \notin irqTorn
        /\ InGroup(k)' = IF Sets(a) THEN InGroup(k) \cup {w} ELSE InGroup(k) \ {w}
    <3>1. k \in irqWord'[w] <=> Sets(a)
      BY <1>6
    <3>2. \A g \in IrqGroups : g # w => (k \in irqWord'[g] <=> k \in irqWord[g])
      BY <1>6, Groups
    <3>3. InGroup(k)' = IF Sets(a) THEN InGroup(k) \cup {w} ELSE InGroup(k) \ {w}
      BY <1>12, <3>1, <3>2 DEF InGroup
    <3> QED BY <1>2, <1>6, <1>12, <3>3 DEF IrqInv
  <2>2. CASE a.step = "group"
    <3>1. \A d \in Dispatches : irqAt'[d] = irqAt[d]
      BY <1>2, <1>6, <2>2, Runners
    <3>2. w \in InGroup(k)'
      BY <1>5, <2>1, <2>2
    <3>3. Kept(k)'
      BY <3>2 DEF Kept
    <3>4. ASSUME k \notin irqTwice'
          PROVE  InGroup(k)' = {w} /\ \A d \in Dispatches : ~InTransit(d, k)
      <4>1. ~Elsewhere(k)
        BY <1>1, <2>2, <3>4
      <4>2. InGroup(k) \subseteq {w} /\ \A d \in Dispatches : ~InTransit(d, k)
        BY <1>3, <2>2, <4>1 DEF Elsewhere, InGroup, IrqInTransit
      <4> QED BY <1>5, <2>1, <2>2, <4>2
    <3>5. Alone(k)'
      <4> SUFFICES ASSUME k \notin irqTwice'
                   PROVE  /\ \A f, g \in InGroup(k)' : f = g
                          /\ \A d \in Dispatches : Of(d, k)' =>
                                IF InTransit(d, k)' THEN InGroup(k)' = {}
                                ELSE irqAt'[d].group \in InGroup(k)'
                          /\ \A c, d \in Dispatches : Of(c, k)' /\ Of(d, k)' => c = d
        BY DEF Alone
      <4>1. /\ \A d \in Dispatches : Of(d, k) /\ ~InTransit(d, k) => irqAt[d].group \in InGroup(k)
            /\ \A c, d \in Dispatches : Of(c, k) /\ Of(d, k) => c = d
        BY <1>6, <2>1 DEF Alone
      <4>2. \A d \in Dispatches : (Of(d, k)' <=> Of(d, k)) /\ (InTransit(d, k)' <=> InTransit(d, k))
        BY <3>1 DEF Of, InTransit
      <4>3. InGroup(k) \subseteq InGroup(k)'
        BY <1>5, <2>1, <2>2
      <4> QED BY <3>1, <3>4, <4>1, <4>2, <4>3
    <3> QED BY <3>3, <3>5
  <2>3. CASE a.step = "leave"
    <3>1. r \in Dispatches /\ a.moves /\ w = a.group
      BY <1>2, <1>3, <2>3, Runners DEF CallSteps
    <3>2. InTransit(r, k)' /\ Of(r, k) /\ ~InTransit(r, k)
      BY <1>0, <1>4, <1>6, <2>3, <3>1 DEF InTransit, Of
    <3>3. Kept(k)'
      BY <3>1, <3>2 DEF Kept, IrqInTransit
    <3>4. Alone(k)'
      <4> SUFFICES ASSUME k \notin irqTwice'
                   PROVE  InGroup(k)' = {} /\ \A d \in Dispatches : Of(d, k)' => d = r
        BY <3>2 DEF Alone
      <4>1. /\ \A f, g \in InGroup(k) : f = g
            /\ w \in InGroup(k)
            /\ \A d \in Dispatches : Of(d, k) => d = r
        BY <1>6, <2>1, <3>1, <3>2 DEF Alone
      <4>2. InGroup(k)' = {}
        BY <1>5, <2>1, <2>3, <4>1
      <4>3. \A d \in Dispatches : Of(d, k)' => d = r
        BY <1>6, <4>1, Runners DEF Of
      <4> QED BY <4>2, <4>3
    <3> QED BY <3>3, <3>4
  <2>4. CASE a.step = "enter"
    <3>1. r \in Dispatches /\ a.moves
      BY <1>2, <2>4, Runners DEF CallSteps
    <3>2. InTransit(r, k) /\ Of(r, k) /\ ~Of(r, k)' /\ InGroup(k)' = InGroup(k) \cup {w}
      BY <1>0, <1>4, <1>5, <1>6, <2>1, <2>4, <3>1 DEF InTransit, Of, IrqIdle
    <3>3. Kept(k)'
      BY <3>2 DEF Kept
    <3>4. Alone(k)'
      <4> SUFFICES ASSUME k \notin irqTwice'
                   PROVE  (\A f, g \in InGroup(k)' : f = g) /\ \A d \in Dispatches : ~Of(d, k)'
        BY DEF Alone
      <4>1. InGroup(k) = {} /\ \A d \in Dispatches : Of(d, k) => d = r
        BY <1>6, <2>1, <3>1, <3>2 DEF Alone
      <4>2. \A d \in Dispatches : ~Of(d, k)'
        BY <1>6, <3>2, <4>1, Runners DEF Of
      <4> QED BY <3>2, <4>1, <4>2
    <3> QED BY <3>3, <3>4
  <2> QED BY <1>3, <1>12, <2>2, <2>3, <2>4
<1>13. ASSUME NEW i \in Irqs
       PROVE  Kept(i)' /\ Alone(i)'
  <2>1. CASE i \in irqTorn'
    BY <2>1 DEF Kept, Alone
  <2> QED BY <1>11, <1>12, <2>1
<1> QED BY <1>7, <1>8, <1>9, <1>10, <1>13 DEF IrqInv

(* No interrupt is in a group when the controller has been started.        *)
LEMMA IrqInitial == IrqInit => IrqInv
<1> SUFFICES ASSUME IrqInit
             PROVE  IrqInv
  OBVIOUS
<1>1. IrqIdle \in IrqRecords
  BY DEF IrqIdle, IrqRecords, CallSteps, IrqGroups, Harts
<1>2. IrqTypes
  BY <1>1 DEF IrqInit, IrqTypes
<1>3. \A r \in IrqRunners : Sane(r)
  BY DEF IrqInit, Sane, IrqIdle, CallSteps, DispatchSteps
<1>4. InPlaces /\ SeenPlaces
  BY DEF IrqInit, InPlaces, SeenPlaces, IrqWords
<1>5. ASSUME NEW i \in Irqs
      PROVE  Kept(i) /\ Alone(i)
  <2>1. \A d \in Dispatches : ~Of(d, i)
    BY Runners DEF IrqInit, Of, IrqIdle
  <2>2. InGroup(i) = {}
    BY DEF IrqInit, InGroup, IrqWords
  <2> QED BY <2>1, <2>2 DEF IrqInit, Kept, Alone
<1> QED BY <1>2, <1>3, <1>4, <1>5 DEF IrqInv

(* Every step keeps the invariant.                                         *)
LEMMA IrqStep == IrqInv /\ [IrqNext]_irqVars => IrqInv'
<1> SUFFICES ASSUME IrqInv, [IrqNext]_irqVars
             PROVE  IrqInv'
  OBVIOUS
<1>1. ASSUME NEW r \in IrqRunners, IrqRead(r) \/ IrqWrite(r)
      PROVE  IrqInv'
  BY <1>1, ReadKeeps, WriteKeeps
<1>2. ASSUME NEW r \in IrqCallers, NEW i \in Irqs,
             IrqRequest(r, i) \/ IrqEnable(r, i) \/ IrqDisable(r, i)
               \/ \E h \in Harts : IrqMigrate(r, i, h)
      PROVE  IrqInv'
  BY <1>2, CallKeeps
<1>3. ASSUME NEW h \in Harts, IrqCheck(h) \/ IrqHandled(h) \/ \E g \in IrqGroups : IrqTake(h, g)
      PROVE  IrqInv'
  BY <1>3, DispatchKeeps, TakeKeeps
<1>4. CASE UNCHANGED irqVars
  BY <1>4 DEF irqVars, IrqInv, IrqTypes, Sane, InPlaces, SeenPlaces, Kept, Alone, InGroup,
     IrqInTransit, InTransit, Of
<1> QED BY <1>1, <1>2, <1>3, <1>4 DEF IrqNext

(* However the harts' changes of the shared words overlap and wherever     *)
(* interrupts are sent: none is in a group of another interrupt; one that  *)
(* was enabled is lost only by a write of a word read too early; and it is *)
(* in two places, or on two harts, only after such a write or after it was *)
(* enabled again while it was elsewhere.                                   *)
THEOREM IrqOnePlaceHolds == IrqSpec => []IrqOnePlace
<1>1. IrqInv => IrqOnePlace
  <2> SUFFICES ASSUME IrqInv, NEW i \in Irqs
               PROVE  /\ InGroup(i) \subseteq Places(i)
                      /\ i \in irqPut \ irqTorn => InGroup(i) # {} \/ IrqInTransit(i)
                      /\ i \notin irqTorn \cup irqTwice =>
                            /\ \A f, g \in InGroup(i) : f = g
                            /\ IrqInTransit(i) => InGroup(i) = {}
                            /\ \A c, d \in Dispatches :
                                  (\A e \in {c, d} : irqAt[e].step # "idle" /\ irqAt[e].irq = i)
                                    => c = d
    BY DEF IrqOnePlace, InGroup
  <2>1. InGroup(i) \subseteq Places(i)
    BY DEF IrqInv, InPlaces, InGroup
  <2>2. IrqInTransit(i) => \E d \in Dispatches : Of(d, i) /\ InTransit(d, i)
    BY DEF IrqInTransit, InTransit, Of
  <2> QED BY <2>1, <2>2 DEF IrqInv, Kept, Alone, Of
<1>2. IrqSpec => []IrqInv
  BY IrqInitial, IrqStep, PTL DEF IrqSpec
<1> QED BY <1>1, <1>2, PTL
---------------------------------------------------------------------------
(* External interrupts                                                     *)

(* What is left of a call from its k-th access on.                         *)
Rest(R, k) == SubSeq(R, k, Len(R))

EintTypes ==
  /\ eintMask \subseteq Pins /\ eintDomain \subseteq Pins /\ eintIsr \subseteq Pins
  /\ eintEnabled \subseteq Pins /\ DOMAIN eintWants \subseteq Pins
  /\ eintLevel \subseteq Pins /\ eintHigh \subseteq Pins
  /\ eintFunc \subseteq Pins /\ eintAuto \subseteq Pins /\ eintDeb \subseteq Pins
  /\ eintStore \in [mask : SUBSET Pins, domain : SUBSET Pins, func : SUBSET Pins,
                    auto : SUBSET Pins, deb : SUBSET Pins,
                    level : SUBSET Pins, high : SUBSET Pins]
  /\ \A p \in DOMAIN eintWants : eintWants[p] \in EintDrivers[p]
  /\ eintAsleep \in BOOLEAN

(* The table and the registers are as the driver of the pin has asked.     *)
EintKnown(p) ==
  /\ p \in eintFunc <=> p \in DOMAIN eintWants
  /\ p \in DOMAIN eintWants =>
        /\ p \in eintAuto <=> eintWants[p].auto
        /\ p \in eintLevel <=> eintWants[p].level
        /\ p \in eintHigh <=> eintWants[p].high
(* ... and nobody works on it.                                             *)
EintPlain(p) ==
  /\ p \in eintMask <=> p \notin eintEnabled
  /\ p \in eintDomain <=> p \in DOMAIN eintWants
  /\ p \in eintEnabled => p \in DOMAIN eintWants
  /\ EintKnown(p)
(* The call is about one pin.                                              *)
EintOthers(p) == ~eintAsleep /\ \A q \in Pins : q # p => EintPlain(q)

(* No call is being made.                                                  *)
EintIdle == ~eintAsleep /\ eintWork = <<>> /\ \A p \in Pins : EintPlain(p)

(* A pin that is being registered is masked until it is unmasked.          *)
RegAt(p, how, k) ==
  /\ p \in eintFunc <=> k > 1
  /\ k > 2 => (p \in eintAuto <=> how.auto)
  /\ p \in eintDomain <=> k > 3
  /\ k > 4 => (p \in eintLevel <=> how.level)
  /\ k > 7 => (p \in eintHigh <=> how.high)
  /\ k \in 6..8 => "inner" \in eintSaved
  /\ p \in eintMask /\ p \notin eintEnabled
EintRegistering(p, k) ==
  /\ p \in DOMAIN eintWants /\ EintOthers(p)
  /\ LET how == eintWants[p] IN
     /\ k \in 1..(IF how.unmask THEN 10 ELSE 9) /\ eintWork = Rest(Registration(p, how), k)
     /\ RegAt(p, how, k)

UnregAt(p, k) ==
  /\ p \in eintFunc <=> k = 1
  /\ p \in eintDomain <=> k <= 4
  /\ p \in eintMask <=> p \notin eintEnabled
EintUnregistering(p, k) ==
  /\ k \in 1..6 /\ eintWork = Rest(Unregistration(p), k)
  /\ p \notin DOMAIN eintWants /\ EintOthers(p) /\ UnregAt(p, k)

EintMasking(p, on) ==
  /\ p \in DOMAIN eintWants /\ EintOthers(p) /\ EintPlain(p)
  /\ eintWork = <<Do("mask", p, on)>>

(* What has been saved is what it is to be again; the handler comes at     *)
(* most in the middle of mask_save, for a pin that it unmasks itself.      *)
PauseAt(p, k) ==
  /\ EintKnown(p) /\ p \in eintDomain
  /\ p \in eintEnabled => p \in eintAuto
  /\ k >= 2 => ("inner" \in eintSaved <=> p \notin eintEnabled)
  /\ IF k <= 2 THEN p \in eintMask <=> p \notin eintEnabled ELSE p \in eintMask
EintPausing(p, k) ==
  /\ k \in 1..5
  /\ eintWork = Rest(SendPulse(p), k) \/ eintWork = Rest(SetDebounce(p), k)
  /\ p \in DOMAIN eintWants /\ EintOthers(p) /\ PauseAt(p, k)

(* While its polarity is tried out, a pin interrupts nobody.               *)
ProbeAt(p, level, high, k) ==
  /\ p \in eintEnabled => p \in DOMAIN eintWants
  /\ p \in eintFunc <=> p \in DOMAIN eintWants
  /\ p \in DOMAIN eintWants =>
        /\ p \in eintAuto <=> eintWants[p].auto
        /\ level <=> eintWants[p].level
        /\ high <=> eintWants[p].high
  /\ IF k = 1 THEN p \in eintDomain <=> p \in DOMAIN eintWants
     ELSE p \notin eintDomain /\ ("domain" \in eintSaved <=> p \in DOMAIN eintWants)
  /\ IF k \in 3..16 THEN "outer" \in eintSaved <=> p \notin eintEnabled
     ELSE p \in eintMask <=> p \notin eintEnabled
  /\ k > 13 => (p \in eintHigh <=> high)
  /\ k > 15 => (p \in eintLevel <=> level)
EintProbing(p, level, high, k) ==
  /\ k \in 1..18 /\ eintWork = Rest(GetDefPol(p, level, high), k)
  /\ EintOthers(p) /\ ProbeAt(p, level, high, k)

(* What is stored is what the drivers have asked for.                      *)
EintKept ==
  /\ eintStore.mask = Pins \ eintEnabled /\ eintStore.domain = DOMAIN eintWants
  /\ eintStore.func = DOMAIN eintWants /\ eintEnabled \subseteq DOMAIN eintWants
  /\ \A p \in DOMAIN eintWants : 
        /\ p \in eintStore.auto <=> eintWants[p].auto
        /\ p \in eintStore.level <=> eintWants[p].level
        /\ p \in eintStore.high <=> eintWants[p].high
EintSaving(k) ==
  /\ eintAsleep
  /\ k \in 1..5 /\ eintWork = Rest(SaveAll, k)
  /\ IF k = 1 THEN \A p \in Pins : EintPlain(p)
     ELSE /\ eintDomain = {} /\ eintStore.domain = DOMAIN eintWants
          /\ eintEnabled \subseteq DOMAIN eintWants
  /\ k \in {2, 3} => eintMask = Pins \ eintEnabled
  /\ k >= 3 => eintStore.mask = Pins \ eintEnabled
  /\ k >= 4 => eintMask = Pins
  /\ IF k = 5 THEN EintKept ELSE \A p \in Pins : EintKnown(p)

(* Pins that are not left are known again; nothing interrupts.             *)
EintLooping(pins) ==
  /\ ~eintAsleep /\ EintKept /\ eintDomain = {} /\ pins \subseteq Pins
  /\ eintWork = StoreLeft(pins)
  /\ \A q \in Pins \ pins : EintKnown(q)
StoreAt(p, k) ==
  /\ k > 1 => (p \in eintFunc <=> p \in DOMAIN eintWants)
  /\ p \in DOMAIN eintWants =>
        /\ k > 2 => (p \in eintAuto <=> eintWants[p].auto)
        /\ k > 4 => (p \in eintLevel <=> eintWants[p].level)
        /\ k > 7 => (p \in eintHigh <=> eintWants[p].high)
EintStoring(p, pins, k) ==
  /\ k \in 1..9 /\ eintWork = Rest(StorePin(p) \o StoreLeft(pins), k)
  /\ ~eintAsleep /\ EintKept /\ eintDomain = {} /\ pins \subseteq Pins /\ p \in Pins \ pins
  /\ \A q \in Pins \ pins : q # p => EintKnown(q)
  /\ StoreAt(p, k)
EintFinishing(k) ==
  /\ ~eintAsleep /\ EintKept /\ eintDomain = {} /\ \A p \in Pins : EintKnown(p)
  /\ k \in 1..3 /\ eintWork = Rest(StoreMasks, k)
  /\ k = 2 => eintMask = {}
  /\ k = 3 => eintMask = eintStore.mask

EintWhere ==
  \/ EintIdle
  \/ \E p \in Pins : 
        \/ \E k \in 1..18 : 
              \/ EintRegistering(p, k) \/ EintUnregistering(p, k) \/ EintPausing(p, k)
              \/ \E level, high \in BOOLEAN : EintProbing(p, level, high, k)
              \/ \E pins \in SUBSET Pins : EintStoring(p, pins, k)
        \/ \E on \in BOOLEAN : EintMasking(p, on)
  \/ \E k \in 1..5 : EintSaving(k) \/ EintFinishing(k)
  \/ \E pins \in SUBSET Pins : EintLooping(pins)

(* What is still to be served may interrupt: no call has masked it since.  *)
EintInv ==
  /\ EintTypes
  /\ \A p \in eintIsr : p \in eintDomain /\ p \notin eintMask
  /\ EintWhere
---------------------------------------------------------------------------
(* The smallest of some pins is one of them. *)
LEMMA MinIsIn ==
  ASSUME NEW S \in SUBSET Pins, S # {}
  PROVE  Min(S) \in S
<1>1. S \subseteq Nat
  BY EintAssumption DEF EintAssumption
<1>2. PICK x \in S : \A y \in S : ~(<<y, x>> \in OpToRel(<, Nat))
  BY <1>1, WFMin, NatLessThanWellFounded, Zenon
<1>3. \A y \in S : ~(y < x)
  BY <1>1, <1>2 DEF OpToRel
<1>4. \A y \in S : x =< y
  BY <1>1, <1>3
<1> QED
  BY <1>4, Zenon DEF Min

(* One list after another, as a function. *)
LEMMA JoinedFn ==
  ASSUME NEW S, NEW s \in Seq(S), NEW t \in Seq(S)
  PROVE  s \o t = [i \in 1..(Len(s)+Len(t)) |-> IF i =< Len(s) THEN s[i] ELSE t[i - Len(s)]]
<1> DEFINE u == [i \in 1..(Len(s)+Len(t)) |-> IF i =< Len(s) THEN s[i] ELSE t[i - Len(s)]]
<1>1. s \o t \in Seq(S) /\ Len(s \o t) = Len(s) + Len(t) /\ Len(s) \in Nat /\ Len(t) \in Nat
  BY ConcatProperties
<1>2. \A i \in 1..(Len(s)+Len(t)) : (s \o t)[i] = u[i]
  BY ConcatProperties
<1>3. DOMAIN (s \o t) = 1..(Len(s)+Len(t))
  BY <1>1
<1>4. s \o t \in [1..(Len(s)+Len(t)) -> S]
  BY <1>1, <1>3, LenProperties
<1>5. u = [i \in DOMAIN u |-> u[i]] /\ DOMAIN u = 1..(Len(s)+Len(t))
  OBVIOUS
<1> HIDE DEF u
<1>6. s \o t = u
  BY <1>2, <1>4, <1>5
<1> QED BY <1>6 DEF u

(* The tuples of the calls, joined. *)
LEMMA Join1And2 ==
  ASSUME NEW a1, NEW a2, NEW a3
  PROVE  <<a1>> \o <<a2, a3>>
         = <<a1, a2, a3>>
<1> DEFINE s == <<a1>>
           t == <<a2, a3>>
           S == {a1, a2, a3}
<1>1. s \in Seq(S) /\ t \in Seq(S)
  OBVIOUS
<1>2. s \o t = [i \in 1..(Len(s) + Len(t)) |-> IF i =< Len(s) THEN s[i] ELSE t[i - Len(s)]]
  BY <1>1, JoinedFn
<1>3. @ = <<a1, a2, a3>>
  OBVIOUS
<1> QED BY <1>2, <1>3

LEMMA Join2And2 ==
  ASSUME NEW a1, NEW a2, NEW a3, NEW a4
  PROVE  <<a1, a2>> \o <<a3, a4>>
         = <<a1, a2, a3, a4>>
<1> DEFINE s == <<a1, a2>>
           t == <<a3, a4>>
           S == {a1, a2, a3, a4}
<1>1. s \in Seq(S) /\ t \in Seq(S)
  OBVIOUS
<1>2. s \o t = [i \in 1..(Len(s) + Len(t)) |-> IF i =< Len(s) THEN s[i] ELSE t[i - Len(s)]]
  BY <1>1, JoinedFn
<1>3. @ = <<a1, a2, a3, a4>>
  OBVIOUS
<1> QED BY <1>2, <1>3

LEMMA Join2And3 ==
  ASSUME NEW a1, NEW a2, NEW a3, NEW a4, NEW a5
  PROVE  <<a1, a2>> \o <<a3, a4, a5>>
         = <<a1, a2, a3, a4, a5>>
<1> DEFINE s == <<a1, a2>>
           t == <<a3, a4, a5>>
           S == {a1, a2, a3, a4, a5}
<1>1. s \in Seq(S) /\ t \in Seq(S)
  OBVIOUS
<1>2. s \o t = [i \in 1..(Len(s) + Len(t)) |-> IF i =< Len(s) THEN s[i] ELSE t[i - Len(s)]]
  BY <1>1, JoinedFn
<1>3. @ = <<a1, a2, a3, a4, a5>>
  OBVIOUS
<1> QED BY <1>2, <1>3

LEMMA Join3And1 ==
  ASSUME NEW a1, NEW a2, NEW a3, NEW a4
  PROVE  <<a1, a2, a3>> \o <<a4>>
         = <<a1, a2, a3, a4>>
<1> DEFINE s == <<a1, a2, a3>>
           t == <<a4>>
           S == {a1, a2, a3, a4}
<1>1. s \in Seq(S) /\ t \in Seq(S)
  OBVIOUS
<1>2. s \o t = [i \in 1..(Len(s) + Len(t)) |-> IF i =< Len(s) THEN s[i] ELSE t[i - Len(s)]]
  BY <1>1, JoinedFn
<1>3. @ = <<a1, a2, a3, a4>>
  OBVIOUS
<1> QED BY <1>2, <1>3

LEMMA Join4And4 ==
  ASSUME NEW a1, NEW a2, NEW a3, NEW a4, NEW a5, NEW a6, NEW a7, NEW a8
  PROVE  <<a1, a2, a3, a4>> \o <<a5, a6, a7, a8>>
         = <<a1, a2, a3, a4, a5, a6, a7, a8>>
<1> DEFINE s == <<a1, a2, a3, a4>>
           t == <<a5, a6, a7, a8>>
           S == {a1, a2, a3, a4, a5, a6, a7, a8}
<1>1. s \in Seq(S) /\ t \in Seq(S)
  OBVIOUS
<1>2. s \o t = [i \in 1..(Len(s) + Len(t)) |-> IF i =< Len(s) THEN s[i] ELSE t[i - Len(s)]]
  BY <1>1, JoinedFn
<1>3. @ = <<a1, a2, a3, a4, a5, a6, a7, a8>>
  OBVIOUS
<1> QED BY <1>2, <1>3

LEMMA Join8And1 ==
  ASSUME NEW a1, NEW a2, NEW a3, NEW a4, NEW a5, NEW a6, NEW a7, NEW a8, NEW a9
  PROVE  <<a1, a2, a3, a4, a5, a6, a7, a8>> \o <<a9>>
         = <<a1, a2, a3, a4, a5, a6, a7, a8, a9>>
<1> DEFINE s == <<a1, a2, a3, a4, a5, a6, a7, a8>>
           t == <<a9>>
           S == {a1, a2, a3, a4, a5, a6, a7, a8, a9}
<1>1. s \in Seq(S) /\ t \in Seq(S)
  OBVIOUS
<1>2. s \o t = [i \in 1..(Len(s) + Len(t)) |-> IF i =< Len(s) THEN s[i] ELSE t[i - Len(s)]]
  BY <1>1, JoinedFn
<1>3. @ = <<a1, a2, a3, a4, a5, a6, a7, a8, a9>>
  OBVIOUS
<1> QED BY <1>2, <1>3

LEMMA Join8And2 ==
  ASSUME NEW a1, NEW a2, NEW a3, NEW a4, NEW a5, NEW a6, NEW a7, NEW a8, NEW a9, NEW a10
  PROVE  <<a1, a2, a3, a4, a5, a6, a7, a8>> \o <<a9, a10>>
         = <<a1, a2, a3, a4, a5, a6, a7, a8, a9, a10>>
<1> DEFINE s == <<a1, a2, a3, a4, a5, a6, a7, a8>>
           t == <<a9, a10>>
           S == {a1, a2, a3, a4, a5, a6, a7, a8, a9, a10}
<1>1. s \in Seq(S) /\ t \in Seq(S)
  OBVIOUS
<1>2. s \o t = [i \in 1..(Len(s) + Len(t)) |-> IF i =< Len(s) THEN s[i] ELSE t[i - Len(s)]]
  BY <1>1, JoinedFn
<1>3. @ = <<a1, a2, a3, a4, a5, a6, a7, a8, a9, a10>>
  OBVIOUS
<1> QED BY <1>2, <1>3

LEMMA Join9And0 ==
  ASSUME NEW a1, NEW a2, NEW a3, NEW a4, NEW a5, NEW a6, NEW a7, NEW a8, NEW a9
  PROVE  <<a1, a2, a3, a4, a5, a6, a7, a8, a9>> \o <<>>
         = <<a1, a2, a3, a4, a5, a6, a7, a8, a9>>
<1> DEFINE s == <<a1, a2, a3, a4, a5, a6, a7, a8, a9>>
           t == <<>>
           S == {a1, a2, a3, a4, a5, a6, a7, a8, a9}
<1>1. s \in Seq(S) /\ t \in Seq(S)
  OBVIOUS
<1>2. s \o t = [i \in 1..(Len(s) + Len(t)) |-> IF i =< Len(s) THEN s[i] ELSE t[i - Len(s)]]
  BY <1>1, JoinedFn
<1>3. @ = <<a1, a2, a3, a4, a5, a6, a7, a8, a9>>
  OBVIOUS
<1> QED BY <1>2, <1>3

LEMMA Join9And1 ==
  ASSUME NEW a1, NEW a2, NEW a3, NEW a4, NEW a5, NEW a6, NEW a7, NEW a8, NEW a9, NEW a10
  PROVE  <<a1, a2, a3, a4, a5, a6, a7, a8, a9>> \o <<a10>>
         = <<a1, a2, a3, a4, a5, a6, a7, a8, a9, a10>>
<1> DEFINE s == <<a1, a2, a3, a4, a5, a6, a7, a8, a9>>
           t == <<a10>>
           S == {a1, a2, a3, a4, a5, a6, a7, a8, a9, a10}
<1>1. s \in Seq(S) /\ t \in Seq(S)
  OBVIOUS
<1>2. s \o t = [i \in 1..(Len(s) + Len(t)) |-> IF i =< Len(s) THEN s[i] ELSE t[i - Len(s)]]
  BY <1>1, JoinedFn
<1>3. @ = <<a1, a2, a3, a4, a5, a6, a7, a8, a9, a10>>
  OBVIOUS
<1> QED BY <1>2, <1>3

LEMMA Join10And4 ==
  ASSUME NEW a1, NEW a2, NEW a3, NEW a4, NEW a5, NEW a6, NEW a7, NEW a8, NEW a9, NEW a10, NEW
         a11, NEW a12, NEW a13, NEW a14
  PROVE  <<a1, a2, a3, a4, a5, a6, a7, a8, a9, a10>> \o <<a11, a12, a13, a14>>
         = <<a1, a2, a3, a4, a5, a6, a7, a8, a9, a10, a11, a12, a13, a14>>
<1> DEFINE s == <<a1, a2, a3, a4, a5, a6, a7, a8, a9, a10>>
           t == <<a11, a12, a13, a14>>
           S == {a1, a2, a3, a4, a5, a6, a7, a8, a9, a10, a11, a12, a13, a14}
<1>1. s \in Seq(S) /\ t \in Seq(S)
  OBVIOUS
<1>2. s \o t = [i \in 1..(Len(s) + Len(t)) |-> IF i =< Len(s) THEN s[i] ELSE t[i - Len(s)]]
  BY <1>1, JoinedFn
<1>3. @ = <<a1, a2, a3, a4, a5, a6, a7, a8, a9, a10, a11, a12, a13, a14>>
  OBVIOUS
<1> QED BY <1>2, <1>3

LEMMA Join14And4 ==
  ASSUME NEW a1, NEW a2, NEW a3, NEW a4, NEW a5, NEW a6, NEW a7, NEW a8, NEW a9, NEW a10, NEW
         a11, NEW a12, NEW a13, NEW a14, NEW a15, NEW a16, NEW a17, NEW a18
  PROVE  <<a1, a2, a3, a4, a5, a6, a7, a8, a9, a10, a11, a12, a13, a14>> \o <<a15, a16, a17, a18>>
         = <<a1, a2, a3, a4, a5, a6, a7, a8, a9, a10, a11, a12, a13, a14, a15, a16, a17, a18>>
<1> DEFINE s == <<a1, a2, a3, a4, a5, a6, a7, a8, a9, a10, a11, a12, a13, a14>>
           t == <<a15, a16, a17, a18>>
           S == {a1, a2, a3, a4, a5, a6, a7, a8, a9, a10, a11, a12, a13, a14, a15, a16, a17, a18}
<1>1. s \in Seq(S) /\ t \in Seq(S)
  OBVIOUS
<1>2. s \o t = [i \in 1..(Len(s) + Len(t)) |-> IF i =< Len(s) THEN s[i] ELSE t[i - Len(s)]]
  BY <1>1, JoinedFn
<1>3. @ = <<a1, a2, a3, a4, a5, a6, a7, a8, a9, a10, a11, a12, a13, a14, a15, a16, a17, a18>>
  OBVIOUS
<1> QED BY <1>2, <1>3

(* The accesses of the calls, one by one. *)
LEMMA PolarityIs ==
  ASSUME NEW p, NEW high
  PROVE  SetPolarity(p, high) = <<Do("read", p, "inner"), Do("hold", p, TRUE), Do("pol", p, high),
                                  Do("restore", p, "inner")>>
BY Join2And2 DEF SetPolarity, MaskSave, MaskRestore

LEMMA RegistrationIs ==
  ASSUME NEW p, NEW how
  PROVE  /\ Registration(p, how) =
             IF how.unmask
           THEN <<Do("func", p, TRUE), Do("auto", p, how.auto), Do("domain", p, TRUE),
                  Do("sens", p, how.level), Do("read", p, "inner"), Do("hold", p, TRUE),
                  Do("pol", p, how.high), Do("restore", p, "inner"), Do("ack", p, FALSE),
                  Do("mask", p, FALSE)>>
           ELSE <<Do("func", p, TRUE), Do("auto", p, how.auto), Do("domain", p, TRUE),
                  Do("sens", p, how.level), Do("read", p, "inner"), Do("hold", p, TRUE),
                  Do("pol", p, how.high), Do("restore", p, "inner"), Do("ack", p, FALSE)>>
         /\ Len(Registration(p, how)) = IF how.unmask THEN 10 ELSE 9
         /\ \E S : Registration(p, how) \in Seq(S)
<1> DEFINE a == Do("func", p, TRUE)
           b == Do("auto", p, how.auto)
           c == Do("domain", p, TRUE)
           d == Do("sens", p, how.level)
           e == Do("read", p, "inner")
           f == Do("hold", p, TRUE)
           g == Do("pol", p, how.high)
           h == Do("restore", p, "inner")
           i == Do("ack", p, FALSE)
           j == Do("mask", p, FALSE)
<1>1. Registration(p, how) = <<a, b, c, d>> \o <<e, f, g, h>> \o <<i>>
                             \o (IF how.unmask THEN <<j>> ELSE <<>>)
  BY PolarityIs DEF Registration, SetSens
<1> HIDE DEF a, b, c, d, e, f, g, h, i, j
<1>2. <<a, b, c, d>> \o <<e, f, g, h>> = <<a, b, c, d, e, f, g, h>>
  BY Join4And4
<1>3. <<a, b, c, d, e, f, g, h>> \o <<i>> = <<a, b, c, d, e, f, g, h, i>>
  BY Join8And1
<1>4. <<a, b, c, d, e, f, g, h, i>> \o (IF how.unmask THEN <<j>> ELSE <<>>)
      = IF how.unmask THEN <<a, b, c, d, e, f, g, h, i, j>> ELSE <<a, b, c, d, e, f, g, h, i>>
  <2>1. CASE how.unmask
    BY <2>1, Join9And1
  <2>2. CASE ~how.unmask
    BY <2>2, Join9And0
  <2> QED BY <2>1, <2>2
<1>5. Registration(p, how) = IF how.unmask THEN <<a, b, c, d, e, f, g, h, i, j>>
                             ELSE <<a, b, c, d, e, f, g, h, i>>
  BY <1>1, <1>2, <1>3, <1>4
<1>6. /\ <<a, b, c, d, e, f, g, h, i, j>> \in Seq({a, b, c, d, e, f, g, h, i, j})
      /\ <<a, b, c, d, e, f, g, h, i>> \in Seq({a, b, c, d, e, f, g, h, i})
  OBVIOUS
<1>7. Len(Registration(p, how)) = IF how.unmask THEN 10 ELSE 9
  BY <1>5
<1>8. \E S : Registration(p, how) \in Seq(S)
  BY <1>5, <1>6
<1> QED BY <1>5, <1>7, <1>8 DEF a, b, c, d, e, f, g, h, i, j

LEMMA UnregistrationIs ==
  ASSUME NEW p, NEW R, R = Unregistration(p)
  PROVE
         /\ R[1] = Do("func", p, FALSE) /\ R[2] = Do("auto", p, FALSE)
         /\ R[3] = Do("deb", p, FALSE) /\ R[4] = Do("domain", p, FALSE)
         /\ R[5] = Do("ack", p, FALSE) /\ R[6] = Do("mask", p, TRUE)
         /\ Len(R) = 6 /\ \E S : R \in Seq(S)
<1> DEFINE a == Do("func", p, FALSE)
           b == Do("auto", p, FALSE)
           c == Do("deb", p, FALSE)
           d == Do("domain", p, FALSE)
           e == Do("ack", p, FALSE)
           f == Do("mask", p, TRUE)
<1>1. R = <<a, b, c, d, e, f>>
  BY DEF Unregistration
<1> HIDE DEF a, b, c, d, e, f
<1>2. R[1] = a /\ R[2] = b /\ R[3] = c /\ R[4] = d /\ R[5] = e /\ R[6] = f
  BY <1>1
<1>3. Len(R) = 6 /\ R \in Seq({a, b, c, d, e, f})
  BY <1>1
<1> QED BY <1>2, <1>3, Zenon DEF a, b, c, d, e, f

LEMMA PausesAre ==
  ASSUME NEW p, NEW R \in {SendPulse(p), SetDebounce(p)}
  PROVE  /\ \E a, b : R = <<Do("read", p, "inner"), Do("hold", p, TRUE), a, b,
                             Do("restore", p, "inner")>>
                      /\ {a, b} \subseteq {Do("soft", p, TRUE), Do("soft", p, FALSE),
                                           Do("deb", p, TRUE), Do("deb", p, FALSE)}
         /\ Len(R) = 5 /\ \E S : R \in Seq(S)
<1>1. PICK a, b : R = <<Do("read", p, "inner"), Do("hold", p, TRUE)>>
                      \o <<a, b, Do("restore", p, "inner")>>
                  /\ {a, b} \subseteq {Do("soft", p, TRUE), Do("soft", p, FALSE),
                                       Do("deb", p, TRUE), Do("deb", p, FALSE)}
  BY DEF SendPulse, SetDebounce, MaskSave, MaskRestore
<1>2. R = <<Do("read", p, "inner"), Do("hold", p, TRUE), a, b, Do("restore", p, "inner")>>
  BY <1>1, Join2And3
<1>3. /\ R \in Seq({Do("read", p, "inner"), Do("hold", p, TRUE), a, b,
                      Do("restore", p, "inner")})
      /\ Len(R) = 5
  BY <1>2
<1> QED BY <1>1, <1>2, <1>3

GetDefPolDoes(R, p, level, high) ==
  /\ R[1] = Do("save", p, "domain") /\ R[2] = Do("read", p, "outer")
  /\ R[3] = Do("hold", p, TRUE) /\ R[4] = Do("sens", p, TRUE)
  /\ R[5] = Do("read", p, "inner") /\ R[6] = Do("hold", p, TRUE)
  /\ R[7] = Do("pol", p, FALSE) /\ R[8] = Do("restore", p, "inner")
  /\ R[9] = Do("ack", p, FALSE) /\ R[10] = Do("hold", p, FALSE)
  /\ R[11] = Do("read", p, "inner") /\ R[12] = Do("hold", p, TRUE)
  /\ R[13] = Do("pol", p, high) /\ R[14] = Do("restore", p, "inner")
  /\ R[15] = Do("sens", p, level) /\ R[16] = Do("restore", p, "outer")
  /\ R[17] = Do("ack", p, FALSE) /\ R[18] = Do("unsave", p, "domain")
  /\ Len(R) = 18 /\ \E S : R \in Seq(S)
LEMMA GetDefPolIs ==
  ASSUME NEW p, NEW level, NEW high
  PROVE  GetDefPolDoes(GetDefPol(p, level, high), p, level, high)
<1> DEFINE R == GetDefPol(p, level, high)
<1> DEFINE a == Do("save", p, "domain")
           b == Do("read", p, "outer")
           c == Do("hold", p, TRUE)
           d == Do("sens", p, TRUE)
           e == Do("read", p, "inner")
           f == Do("pol", p, FALSE)
           g == Do("restore", p, "inner")
           h == Do("ack", p, FALSE)
           i == Do("hold", p, FALSE)
           j == Do("pol", p, high)
           k == Do("sens", p, level)
           l == Do("restore", p, "outer")
           m == Do("unsave", p, "domain")
<1>1. GetDefPol(p, level, high) = <<a>> \o <<b, c>> \o <<d>> \o <<e, c, f, g>> \o <<h, i>>
                                  \o <<e, c, j, g>> \o <<k, l, h, m>>
  BY PolarityIs DEF GetDefPol, SetSens, MaskSave, MaskRestore
<1> HIDE DEF a, b, c, d, e, f, g, h, i, j, k, l, m
<1>2. <<a>> \o <<b, c>> = <<a, b, c>>
  BY Join1And2
<1>3. <<a, b, c>> \o <<d>> = <<a, b, c, d>>
  BY Join3And1
<1>4. <<a, b, c, d>> \o <<e, c, f, g>> = <<a, b, c, d, e, c, f, g>>
  BY Join4And4
<1>5. <<a, b, c, d, e, c, f, g>> \o <<h, i>> = <<a, b, c, d, e, c, f, g, h, i>>
  BY Join8And2
<1>6. <<a, b, c, d, e, c, f, g, h, i>> \o <<e, c, j, g>>
      = <<a, b, c, d, e, c, f, g, h, i, e, c, j, g>>
  BY Join10And4
<1>7. <<a, b, c, d, e, c, f, g, h, i, e, c, j, g>> \o <<k, l, h, m>>
      = <<a, b, c, d, e, c, f, g, h, i, e, c, j, g, k, l, h, m>>
  BY Join14And4
<1>8. GetDefPol(p, level, high) = <<a, b, c, d, e, c, f, g, h, i, e, c, j, g, k, l, h, m>>
  BY <1>1, <1>2, <1>3, <1>4, <1>5, <1>6, <1>7, Zenon
<1> HIDE DEF R
<1>9. R = <<a, b, c, d, e, c, f, g, h, i, e, c, j, g, k, l, h, m>>
  BY <1>8 DEF R
<1>10. Len(R) = 18 /\ R \in Seq({a, b, c, d, e, f, g, h, i, j, k, l, m})
  BY <1>9
<1>11. /\ R[1] = a /\ R[2] = b
       /\ R[3] = c /\ R[4] = d
       /\ R[5] = e /\ R[6] = c
       /\ R[7] = f /\ R[8] = g
       /\ R[9] = h /\ R[10] = i
       /\ R[11] = e /\ R[12] = c
       /\ R[13] = j /\ R[14] = g
       /\ R[15] = k /\ R[16] = l
       /\ R[17] = h /\ R[18] = m
  BY <1>9
<1> QED BY <1>10, <1>11, Zenon DEF GetDefPolDoes, R, a, b, c, d, e, f, g, h, i, j, k, l, m

StorePinDoes(R, p, pins) ==
  /\ R[1] = Do("func", p, p \in eintStore.func) /\ R[2] = Do("auto", p, p \in eintStore.auto)
  /\ R[3] = Do("deb", p, p \in eintStore.deb) /\ R[4] = Do("sens", p, p \in eintStore.level)
  /\ R[5] = Do("read", p, "inner") /\ R[6] = Do("hold", p, TRUE)
  /\ R[7] = Do("pol", p, p \in eintStore.high) /\ R[8] = Do("restore", p, "inner")
  /\ R[9] = Do("ack", p, FALSE) /\ R[10] = Do("next", pins, FALSE)
  /\ Len(R) = 10 /\ \E S : R \in Seq(S)
LEMMA StorePinIs ==
  ASSUME NEW p, NEW pins
  PROVE  StorePinDoes(StorePin(p) \o StoreLeft(pins), p, pins)
<1> DEFINE R == StorePin(p) \o StoreLeft(pins)
<1> DEFINE a == Do("func", p, p \in eintStore.func)
           b == Do("auto", p, p \in eintStore.auto)
           c == Do("deb", p, p \in eintStore.deb)
           d == Do("sens", p, p \in eintStore.level)
           e == Do("read", p, "inner")
           f == Do("hold", p, TRUE)
           g == Do("pol", p, p \in eintStore.high)
           h == Do("restore", p, "inner")
           i == Do("ack", p, FALSE)
           j == Do("next", pins, FALSE)
<1>1. StorePin(p) \o StoreLeft(pins) = <<a, b, c, d>> \o <<e, f, g, h>> \o <<i>> \o <<j>>
  BY PolarityIs DEF StorePin, StoreLeft, SetSens
<1> HIDE DEF a, b, c, d, e, f, g, h, i, j
<1>2. <<a, b, c, d>> \o <<e, f, g, h>> = <<a, b, c, d, e, f, g, h>>
  BY Join4And4
<1>3. <<a, b, c, d, e, f, g, h>> \o <<i>> = <<a, b, c, d, e, f, g, h, i>>
  BY Join8And1
<1>4. <<a, b, c, d, e, f, g, h, i>> \o <<j>> = <<a, b, c, d, e, f, g, h, i, j>>
  BY Join9And1
<1>5. StorePin(p) \o StoreLeft(pins) = <<a, b, c, d, e, f, g, h, i, j>>
  BY <1>1, <1>2, <1>3, <1>4
<1> HIDE DEF R
<1>6. R = <<a, b, c, d, e, f, g, h, i, j>>
  BY <1>5 DEF R
<1>7. Len(R) = 10 /\ R \in Seq({a, b, c, d, e, f, g, h, i, j})
  BY <1>6
<1>8. /\ R[1] = a /\ R[2] = b
      /\ R[3] = c /\ R[4] = d
      /\ R[5] = e /\ R[6] = f
      /\ R[7] = g /\ R[8] = h
      /\ R[9] = i /\ R[10] = j
  BY <1>6
<1> QED BY <1>7, <1>8, Zenon DEF StorePinDoes, R, a, b, c, d, e, f, g, h, i, j

LEMMA WholesAre ==
  /\ SaveAll[1] = Do("save domains", 0, FALSE) /\ SaveAll[2] = Do("save masks", 0, FALSE)
  /\ SaveAll[3] = Do("mask all", 0, TRUE) /\ SaveAll[4] = Do("save table", 0, FALSE)
  /\ Len(SaveAll) = 4 /\ \E S : SaveAll \in Seq(S)
  /\ StoreMasks[1] = Do("mask all", 0, FALSE) /\ StoreMasks[2] = Do("restore masks", 0, FALSE)
  /\ StoreMasks[3] = Do("restore domains", 0, FALSE)
  /\ Len(StoreMasks) = 3 /\ \E S : StoreMasks \in Seq(S)
<1>1. SaveAll \in Seq({Do("save domains", 0, FALSE), Do("save masks", 0, FALSE),
                       Do("mask all", 0, TRUE), Do("save table", 0, FALSE)})
  BY DEF SaveAll
<1>2. StoreMasks \in Seq({Do("mask all", 0, FALSE), Do("restore masks", 0, FALSE),
                          Do("restore domains", 0, FALSE)})
  BY DEF StoreMasks
<1> QED BY <1>1, <1>2 DEF SaveAll, StoreMasks

---------------------------------------------------------------------------
(* One access of a call, which is a list R.                                *)
LEMMA RestIs ==
  ASSUME NEW S, NEW R \in Seq(S)
  PROVE  /\ Rest(R, 1) = R
         /\ Rest(R, Len(R) + 1) = <<>>
         /\ \A k \in 1..Len(R) : /\ Rest(R, k) # <<>>
                                 /\ Head(Rest(R, k)) = R[k]
                                 /\ Tail(Rest(R, k)) = Rest(R, k + 1)
<1>1. Len(R) \in Nat /\ \A i \in 1..Len(R) : R[i] \in S
  OBVIOUS
<1>2. /\ SubSeq(R, 1, Len(R)) \in Seq(S) /\ Len(SubSeq(R, 1, Len(R))) = Len(R)
      /\ \A i \in 1..Len(R) : SubSeq(R, 1, Len(R))[i] = R[i]
  <2>1. \A i \in 1..Len(R) : 1 + i - 1 = i
    OBVIOUS
  <2>2. Len(R) - 1 + 1 = Len(R) /\ (1 <= Len(R) \/ Len(R) = 0)
    BY <1>1
  <2> QED BY <1>1, <2>1, <2>2, SubSeqProperties
<1>3. Rest(R, 1) = R
  BY <1>2, SeqEqual DEF Rest
<1>4. Rest(R, Len(R) + 1) = <<>>
  <2>1. SubSeq(R, Len(R) + 1, Len(R)) \in Seq(S) /\ Len(SubSeq(R, Len(R) + 1, Len(R))) = 0
    BY <1>1, SubSeqProperties
  <2> QED BY <2>1, EmptySeq DEF Rest
<1>5. ASSUME NEW k \in 1..Len(R)
      PROVE  /\ Rest(R, k) # <<>>
             /\ Head(Rest(R, k)) = R[k]
             /\ Tail(Rest(R, k)) = Rest(R, k + 1)
  <2>1. SubSeq(R, k, Len(R)) \in Seq(S) /\ Len(SubSeq(R, k, Len(R))) = Len(R) - k + 1
    BY <1>1, SubSeqProperties
  <2>2. Len(R) \in k..Len(R)
    BY <1>1
  <2>3. Head(SubSeq(R, k, Len(R))) = R[k] /\ Tail(SubSeq(R, k, Len(R))) = SubSeq(R, k + 1, Len(R))
    BY <2>2, HeadTailOfSubSeq
  <2>4. SubSeq(R, k, Len(R)) # <<>>
    <3>1. Len(R) - k + 1 # 0 /\ Len(<<>>) = 0
      BY <1>1
    <3> QED BY <2>1, <3>1, Zenon
  <2> QED BY <2>3, <2>4 DEF Rest
<1> QED BY <1>3, <1>4, <1>5

(* A step of a call makes its next access. *)
LEMMA OneAccess ==
  ASSUME EintStep, NEW S, NEW R \in Seq(S), NEW k \in 1..Len(R), eintWork = Rest(R, k),
         R[k].do # "next"
  PROVE  /\ eintIsr = {} /\ eintWork' = Rest(R, k + 1) /\ eintIsr' = {}
         /\ k = Len(R) => eintWork' = <<>>
         /\ EintAccess(R[k].do, R[k].pin, R[k].to)
<1>1. Head(eintWork) = R[k] /\ Tail(eintWork) = Rest(R, k + 1)
  BY RestIs
<1>2. eintIsr = {} /\ eintWork' = Tail(eintWork) /\ EintAccess(R[k].do, R[k].pin, R[k].to)
  BY <1>1 DEF EintStep
<1>3. eintIsr' = {}
  BY <1>2 DEF EintAccess
<1>4. k = Len(R) => eintWork' = <<>>
  BY <1>1, <1>2, RestIs
<1> QED BY <1>1, <1>2, <1>3, <1>4

---------------------------------------------------------------------------
(* An access to one pin leaves the other ones alone.                       *)
PinAccesses == {"mask", "hold", "restore", "read", "save", "unsave", "domain", "sens", "pol",
                "soft", "ack", "func", "auto", "deb"}
LEMMA OthersStay ==
  ASSUME NEW do \in PinAccesses, NEW p \in Pins, NEW to, EintAccess(do, p, to),
         EintTypes, EintOthers(p)
  PROVE  EintOthers(p)' /\ EintTypes'
<1>1. EintTypes'
  BY DEF EintTypes, EintAccess, PinAccesses, With
<1>2. ASSUME NEW q \in Pins, q # p PROVE EintPlain(q)'
  <2>1. EintPlain(q)
    BY <1>2 DEF EintOthers
  <2>2. /\ q \in eintMask' <=> q \in eintMask
        /\ q \in eintEnabled' <=> q \in eintEnabled
        /\ q \in eintDomain' <=> q \in eintDomain
    BY <1>2 DEF EintAccess, PinAccesses, With
  <2>3. /\ q \in eintFunc' <=> q \in eintFunc
        /\ q \in eintAuto' <=> q \in eintAuto
        /\ q \in eintLevel' <=> q \in eintLevel
        /\ q \in eintHigh' <=> q \in eintHigh
        /\ eintWants' = eintWants
    BY <1>2 DEF EintAccess, PinAccesses, With
  <2> QED BY <2>1, <2>2, <2>3 DEF EintPlain, EintKnown
<1> QED BY <1>1, <1>2 DEF EintOthers, EintAccess
(* What it does to its own pin.                                            *)
PinEffect(do, p, to) ==
  /\ p \in eintFunc' <=> IF do = "func" THEN to = TRUE ELSE p \in eintFunc
  /\ p \in eintAuto' <=> IF do = "auto" THEN to = TRUE ELSE p \in eintAuto
  /\ p \in eintLevel' <=> IF do = "sens" THEN to = TRUE ELSE p \in eintLevel
  /\ p \in eintHigh' <=> IF do = "pol" THEN to = TRUE ELSE p \in eintHigh
  /\ p \in eintDomain' <=> IF do = "domain" THEN to = TRUE
                           ELSE IF do = "unsave" THEN to \in eintSaved
                           ELSE p \in eintDomain /\ do # "save"
  /\ p \in eintMask' <=> IF do \in {"mask", "hold"} THEN to = TRUE
                         ELSE IF do = "restore" THEN to \in eintSaved
                         ELSE p \in eintMask
  /\ p \in eintEnabled' <=> IF do = "mask" THEN to # TRUE ELSE p \in eintEnabled
  /\ \A f : f \in eintSaved' <=>
        IF f = to /\ do \in {"read", "save", "restore", "unsave"}
        THEN IF do = "read" THEN p \in eintMask ELSE do = "save" /\ p \in eintDomain
        ELSE f \in eintSaved
  /\ eintWants' = eintWants /\ eintStore' = eintStore /\ eintAsleep' = eintAsleep
LEMMA PinDoes ==
  ASSUME NEW do \in PinAccesses, NEW p \in Pins, NEW to, EintAccess(do, p, to)
  PROVE  PinEffect(do, p, to)
<1>1. /\ p \in eintFunc' <=> IF do = "func" THEN to = TRUE ELSE p \in eintFunc
      /\ p \in eintAuto' <=> IF do = "auto" THEN to = TRUE ELSE p \in eintAuto
      /\ p \in eintLevel' <=> IF do = "sens" THEN to = TRUE ELSE p \in eintLevel
      /\ p \in eintHigh' <=> IF do = "pol" THEN to = TRUE ELSE p \in eintHigh
  BY DEF EintAccess, With, PinAccesses
<1>2. /\ p \in eintDomain' <=> IF do = "domain" THEN to = TRUE
                               ELSE IF do = "unsave" THEN to \in eintSaved
                               ELSE p \in eintDomain /\ do # "save"
      /\ p \in eintMask' <=> IF do \in {"mask", "hold"} THEN to = TRUE
                             ELSE IF do = "restore" THEN to \in eintSaved
                             ELSE p \in eintMask
      /\ p \in eintEnabled' <=> IF do = "mask" THEN to # TRUE ELSE p \in eintEnabled
  BY DEF EintAccess, With, PinAccesses
<1>3. \A f : f \in eintSaved' <=>
               IF f = to /\ do \in {"read", "save", "restore", "unsave"}
               THEN IF do = "read" THEN p \in eintMask ELSE do = "save" /\ p \in eintDomain
               ELSE f \in eintSaved
  BY DEF EintAccess, With, PinAccesses
<1>4. eintWants' = eintWants /\ eintStore' = eintStore /\ eintAsleep' = eintAsleep
  BY DEF EintAccess, PinAccesses
<1> QED BY <1>1, <1>2, <1>3, <1>4 DEF PinEffect

(* The steps of the calls, each of which leads to the next place or to rest. *)
LEMMA RegisteringStep ==
  ASSUME EintTypes, EintStep, NEW p \in Pins, NEW k \in 1..18, EintRegistering(p, k)
  PROVE  EintTypes' /\ eintIsr' = {} /\ (EintRegistering(p, k + 1)' \/ EintIdle')
<1> DEFINE how == eintWants[p]
           R == Registration(p, how)
           n == IF how.unmask THEN 10 ELSE 9
<1>1. PICK S : R \in Seq(S) /\ Len(R) = n
  BY RegistrationIs
<1>2. eintWork = Rest(R, k) /\ k \in 1..n /\ RegAt(p, how, k) /\ p \in DOMAIN eintWants
  BY DEF EintRegistering
<1>3. /\ R[1].do = "func" /\ R[1].pin = p /\ R[1].to = TRUE
      /\ R[2].do = "auto" /\ R[2].pin = p /\ R[2].to = how.auto
      /\ R[3].do = "domain" /\ R[3].pin = p /\ R[3].to = TRUE
      /\ R[4].do = "sens" /\ R[4].pin = p /\ R[4].to = how.level
      /\ R[5].do = "read" /\ R[5].pin = p /\ R[5].to = "inner"
      /\ R[6].do = "hold" /\ R[6].pin = p /\ R[6].to = TRUE
      /\ R[7].do = "pol" /\ R[7].pin = p /\ R[7].to = how.high
      /\ R[8].do = "restore" /\ R[8].pin = p /\ R[8].to = "inner"
      /\ R[9].do = "ack" /\ R[9].pin = p /\ R[9].to = FALSE
      /\ how.unmask => R[10].do = "mask" /\ R[10].pin = p /\ R[10].to = FALSE
  <2>1. CASE how.unmask
    BY <2>1, RegistrationIs DEF Do
  <2>2. CASE ~how.unmask
    BY <2>2, RegistrationIs DEF Do
  <2> QED BY <2>1, <2>2
<1> HIDE DEF R
<1>4. R[k].do \in PinAccesses /\ R[k].pin = p /\ R[k].do # "next"
  BY <1>2, <1>3 DEF PinAccesses
<1>5. /\ EintAccess(R[k].do, p, R[k].to) /\ eintIsr' = {} /\ eintWork' = Rest(R, k + 1)
      /\ k = n => eintWork' = <<>>
  BY <1>1, <1>2, <1>4, OneAccess
<1>6. EintOthers(p)' /\ EintTypes'
  BY <1>4, <1>5, OthersStay DEF EintRegistering
<1>7. PinEffect(R[k].do, p, R[k].to)
  BY <1>4, <1>5, PinDoes
<1>8. eintWants' = eintWants /\ R' = R
  BY <1>7, Zenon DEF PinEffect, R
<1>9. k < n => RegAt(p, how, k + 1)'
  <2>1. CASE k = 1
    <3>1. R[k].do = "func" /\ R[k].to = TRUE
      BY <1>3, <2>1
    <3> QED BY <1>2, <1>7, <1>8, <2>1, <3>1 DEF RegAt, PinEffect
  <2>2. CASE k = 2
    <3>1. R[k].do = "auto" /\ R[k].to = how.auto
      BY <1>3, <2>2
    <3> QED BY <1>2, <1>7, <1>8, <2>2, <3>1 DEF RegAt, PinEffect
  <2>3. CASE k = 3
    <3>1. R[k].do = "domain" /\ R[k].to = TRUE
      BY <1>3, <2>3
    <3> QED BY <1>2, <1>7, <1>8, <2>3, <3>1 DEF RegAt, PinEffect
  <2>4. CASE k = 4
    <3>1. R[k].do = "sens" /\ R[k].to = how.level
      BY <1>3, <2>4
    <3> QED BY <1>2, <1>7, <1>8, <2>4, <3>1 DEF RegAt, PinEffect
  <2>5. CASE k = 5
    <3>1. R[k].do = "read" /\ R[k].to = "inner"
      BY <1>3, <2>5
    <3> QED BY <1>2, <1>7, <1>8, <2>5, <3>1 DEF RegAt, PinEffect
  <2>6. CASE k = 6
    <3>1. R[k].do = "hold" /\ R[k].to = TRUE
      BY <1>3, <2>6
    <3> QED BY <1>2, <1>7, <1>8, <2>6, <3>1 DEF RegAt, PinEffect
  <2>7. CASE k = 7
    <3>1. R[k].do = "pol" /\ R[k].to = how.high
      BY <1>3, <2>7
    <3> QED BY <1>2, <1>7, <1>8, <2>7, <3>1 DEF RegAt, PinEffect
  <2>8. CASE k = 8
    <3>1. R[k].do = "restore" /\ R[k].to = "inner"
      BY <1>3, <2>8
    <3> QED BY <1>2, <1>7, <1>8, <2>8, <3>1 DEF RegAt, PinEffect
  <2>9. CASE k = 9
    <3>1. R[k].do = "ack" /\ R[k].to = FALSE
      BY <1>3, <2>9
    <3> QED BY <1>2, <1>7, <1>8, <2>9, <3>1 DEF RegAt, PinEffect
  <2> QED BY <1>2, <2>1, <2>2, <2>3, <2>4, <2>5, <2>6, <2>7, <2>8, <2>9
<1>10. k = n => EintPlain(p)'
  <2>1. CASE k = 9
    <3>1. R[k].do = "ack"
      BY <1>3, <2>1
    <3> QED BY <1>2, <1>7, <1>8, <2>1, <3>1 DEF RegAt, PinEffect, EintPlain, EintKnown
  <2>2. CASE k = 10 /\ n = 10
    <3>1. R[k].do = "mask" /\ R[k].to = FALSE
      BY <1>3, <2>2
    <3>2. p \notin eintMask' /\ p \in eintEnabled'
      BY <1>7, <3>1 DEF PinEffect
    <3>3. /\ p \in eintDomain' /\ p \in eintFunc'
          /\ p \in eintAuto' <=> how.auto
          /\ p \in eintLevel' <=> how.level
          /\ p \in eintHigh' <=> how.high
      BY <1>2, <1>7, <2>2, <3>1 DEF PinEffect, RegAt
    <3> QED BY <1>2, <1>8, <3>2, <3>3 DEF EintPlain, EintKnown
  <2> QED BY <1>2, <2>1, <2>2
<1>11. CASE k < n
  <2>1. k + 1 \in 1..n
    BY <1>2, <1>11
  <2> QED BY <1>5, <1>6, <1>8, <1>9, <1>11, <2>1 DEF EintRegistering, R
<1>12. CASE k = n
  BY <1>5, <1>6, <1>8, <1>10, <1>12 DEF EintIdle, EintOthers
<1> QED BY <1>2, <1>11, <1>12

LEMMA UnregisteringStep ==
  ASSUME EintTypes, EintStep, NEW p \in Pins, NEW k \in 1..18, EintUnregistering(p, k)
  PROVE  EintTypes' /\ eintIsr' = {} /\ (EintUnregistering(p, k + 1)' \/ EintIdle')
<1> DEFINE R == Unregistration(p)
<1> HIDE DEF R
<1>0. R = Unregistration(p)
  BY DEF R
<1>1. PICK S : R \in Seq(S) /\ Len(R) = 6
  BY <1>0, UnregistrationIs
<1>2. eintWork = Rest(R, k) /\ k \in 1..6 /\ UnregAt(p, k) /\ p \notin DOMAIN eintWants
  BY DEF EintUnregistering, R
<1>3. /\ R[1].do = "func" /\ R[1].pin = p /\ R[1].to = FALSE
      /\ R[2].do = "auto" /\ R[2].pin = p /\ R[2].to = FALSE
      /\ R[3].do = "deb" /\ R[3].pin = p /\ R[3].to = FALSE
      /\ R[4].do = "domain" /\ R[4].pin = p /\ R[4].to = FALSE
      /\ R[5].do = "ack" /\ R[5].pin = p /\ R[5].to = FALSE
      /\ R[6].do = "mask" /\ R[6].pin = p /\ R[6].to = TRUE
  <2>1. /\ R[1] = Do("func", p, FALSE)
        /\ R[2] = Do("auto", p, FALSE)
        /\ R[3] = Do("deb", p, FALSE)
        /\ R[4] = Do("domain", p, FALSE)
        /\ R[5] = Do("ack", p, FALSE)
        /\ R[6] = Do("mask", p, TRUE)
    BY <1>0, UnregistrationIs
  <2> QED BY <2>1 DEF Do
<1>4. R[k].do \in PinAccesses /\ R[k].pin = p /\ R[k].do # "next"
  BY <1>2, <1>3 DEF PinAccesses
<1>5. /\ EintAccess(R[k].do, p, R[k].to) /\ eintIsr' = {} /\ eintWork' = Rest(R, k + 1)
      /\ k = 6 => eintWork' = <<>>
  BY <1>1, <1>2, <1>4, OneAccess
<1>6. EintOthers(p)' /\ EintTypes'
  BY <1>4, <1>5, OthersStay DEF EintUnregistering
<1>7. PinEffect(R[k].do, p, R[k].to)
  BY <1>4, <1>5, PinDoes
<1>8. eintWants' = eintWants /\ R' = R
  BY <1>7, Zenon DEF PinEffect, R
<1>9. k < 6 => UnregAt(p, k + 1)'
  <2>1. CASE k = 1
    <3>1. R[k].do = "func" /\ R[k].to = FALSE
      BY <1>3, <2>1
    <3> QED BY <1>2, <1>7, <1>8, <2>1, <3>1 DEF UnregAt, PinEffect
  <2>2. CASE k = 2
    <3>1. R[k].do = "auto" /\ R[k].to = FALSE
      BY <1>3, <2>2
    <3> QED BY <1>2, <1>7, <1>8, <2>2, <3>1 DEF UnregAt, PinEffect
  <2>3. CASE k = 3
    <3>1. R[k].do = "deb" /\ R[k].to = FALSE
      BY <1>3, <2>3
    <3> QED BY <1>2, <1>7, <1>8, <2>3, <3>1 DEF UnregAt, PinEffect
  <2>4. CASE k = 4
    <3>1. R[k].do = "domain" /\ R[k].to = FALSE
      BY <1>3, <2>4
    <3> QED BY <1>2, <1>7, <1>8, <2>4, <3>1 DEF UnregAt, PinEffect
  <2>5. CASE k = 5
    <3>1. R[k].do = "ack" /\ R[k].to = FALSE
      BY <1>3, <2>5
    <3> QED BY <1>2, <1>7, <1>8, <2>5, <3>1 DEF UnregAt, PinEffect
  <2> QED BY <1>2, <2>1, <2>2, <2>3, <2>4, <2>5
<1>10. k = 6 => EintPlain(p)'
  <2>1. SUFFICES ASSUME k = 6 PROVE EintPlain(p)'
    OBVIOUS
  <2>2. R[k].do = "mask" /\ R[k].to = TRUE
    BY <1>3, <2>1
  <2>3. /\ R[k].do = "mask" => p \in eintMask' /\ p \notin eintEnabled'
        /\ R[k].do # "mask" => (p \in eintEnabled' <=> p \in eintEnabled)
    BY <1>7, <2>2 DEF PinEffect
  <2> QED BY <1>2, <1>7, <1>8, <2>1, <2>2, <2>3 DEF UnregAt, PinEffect, EintPlain, EintKnown
<1>11. CASE k < 6
  <2>1. k + 1 \in 1..6
    BY <1>2, <1>11
  <2> QED BY <1>2, <1>5, <1>6, <1>8, <1>9, <1>11, <2>1 DEF EintUnregistering, R
<1>12. CASE k = 6
  BY <1>5, <1>6, <1>8, <1>10, <1>12 DEF EintIdle, EintOthers
<1> QED BY <1>2, <1>11, <1>12

LEMMA ProbingStep ==
  ASSUME EintTypes, EintStep, NEW p \in Pins, NEW k \in 1..18, NEW level, NEW high,
         EintProbing(p, level, high, k)
  PROVE  EintTypes' /\ eintIsr' = {} /\ (EintProbing(p, level, high, k + 1)' \/ EintIdle')
<1> DEFINE R == GetDefPol(p, level, high)
<1> HIDE DEF R
<1>0. R = GetDefPol(p, level, high)
  BY DEF R
<1>01. GetDefPolDoes(R, p, level, high)
  BY <1>0, GetDefPolIs
<1>1. PICK S : R \in Seq(S) /\ Len(R) = 18
  BY <1>01 DEF GetDefPolDoes
<1>2. eintWork = Rest(R, k) /\ k \in 1..18 /\ ProbeAt(p, level, high, k)
  BY DEF EintProbing, R
<1>3. /\ R[1].do = "save" /\ R[1].pin = p /\ R[1].to = "domain"
      /\ R[2].do = "read" /\ R[2].pin = p /\ R[2].to = "outer"
      /\ R[3].do = "hold" /\ R[3].pin = p /\ R[3].to = TRUE
      /\ R[4].do = "sens" /\ R[4].pin = p /\ R[4].to = TRUE
      /\ R[5].do = "read" /\ R[5].pin = p /\ R[5].to = "inner"
      /\ R[6].do = "hold" /\ R[6].pin = p /\ R[6].to = TRUE
      /\ R[7].do = "pol" /\ R[7].pin = p /\ R[7].to = FALSE
      /\ R[8].do = "restore" /\ R[8].pin = p /\ R[8].to = "inner"
      /\ R[9].do = "ack" /\ R[9].pin = p /\ R[9].to = FALSE
      /\ R[10].do = "hold" /\ R[10].pin = p /\ R[10].to = FALSE
      /\ R[11].do = "read" /\ R[11].pin = p /\ R[11].to = "inner"
      /\ R[12].do = "hold" /\ R[12].pin = p /\ R[12].to = TRUE
      /\ R[13].do = "pol" /\ R[13].pin = p /\ R[13].to = high
      /\ R[14].do = "restore" /\ R[14].pin = p /\ R[14].to = "inner"
      /\ R[15].do = "sens" /\ R[15].pin = p /\ R[15].to = level
      /\ R[16].do = "restore" /\ R[16].pin = p /\ R[16].to = "outer"
      /\ R[17].do = "ack" /\ R[17].pin = p /\ R[17].to = FALSE
      /\ R[18].do = "unsave" /\ R[18].pin = p /\ R[18].to = "domain"
  <2>1. /\ R[1] = Do("save", p, "domain")
        /\ R[2] = Do("read", p, "outer")
        /\ R[3] = Do("hold", p, TRUE)
        /\ R[4] = Do("sens", p, TRUE)
        /\ R[5] = Do("read", p, "inner")
        /\ R[6] = Do("hold", p, TRUE)
        /\ R[7] = Do("pol", p, FALSE)
        /\ R[8] = Do("restore", p, "inner")
        /\ R[9] = Do("ack", p, FALSE)
        /\ R[10] = Do("hold", p, FALSE)
        /\ R[11] = Do("read", p, "inner")
        /\ R[12] = Do("hold", p, TRUE)
        /\ R[13] = Do("pol", p, high)
        /\ R[14] = Do("restore", p, "inner")
        /\ R[15] = Do("sens", p, level)
        /\ R[16] = Do("restore", p, "outer")
        /\ R[17] = Do("ack", p, FALSE)
        /\ R[18] = Do("unsave", p, "domain")
    BY <1>01 DEF GetDefPolDoes
  <2> QED BY <2>1 DEF Do
<1>4. R[k].do \in PinAccesses /\ R[k].pin = p /\ R[k].do # "next"
  BY <1>2, <1>3 DEF PinAccesses
<1>5. /\ EintAccess(R[k].do, p, R[k].to) /\ eintIsr' = {} /\ eintWork' = Rest(R, k + 1)
      /\ k = 18 => eintWork' = <<>>
  BY <1>1, <1>2, <1>4, OneAccess
<1>6. EintOthers(p)' /\ EintTypes'
  BY <1>4, <1>5, OthersStay DEF EintProbing
<1>7. PinEffect(R[k].do, p, R[k].to)
  BY <1>4, <1>5, PinDoes
<1>8. eintWants' = eintWants /\ R' = R
  BY <1>7, Zenon DEF PinEffect, R
<1>9. k < 18 => ProbeAt(p, level, high, k + 1)'
  <2>1. CASE k = 1
    <3>1. R[k].do = "save" /\ R[k].to = "domain"
      BY <1>3, <2>1
    <3> QED BY <1>2, <1>7, <1>8, <2>1, <3>1 DEF ProbeAt, PinEffect
  <2>2. CASE k = 2
    <3>1. R[k].do = "read" /\ R[k].to = "outer"
      BY <1>3, <2>2
    <3> QED BY <1>2, <1>7, <1>8, <2>2, <3>1 DEF ProbeAt, PinEffect
  <2>3. CASE k = 3
    <3>1. R[k].do = "hold" /\ R[k].to = TRUE
      BY <1>3, <2>3
    <3> QED BY <1>2, <1>7, <1>8, <2>3, <3>1 DEF ProbeAt, PinEffect
  <2>4. CASE k = 4
    <3>1. R[k].do = "sens" /\ R[k].to = TRUE
      BY <1>3, <2>4
    <3> QED BY <1>2, <1>7, <1>8, <2>4, <3>1 DEF ProbeAt, PinEffect
  <2>5. CASE k = 5
    <3>1. R[k].do = "read" /\ R[k].to = "inner"
      BY <1>3, <2>5
    <3> QED BY <1>2, <1>7, <1>8, <2>5, <3>1 DEF ProbeAt, PinEffect
  <2>6. CASE k = 6
    <3>1. R[k].do = "hold" /\ R[k].to = TRUE
      BY <1>3, <2>6
    <3> QED BY <1>2, <1>7, <1>8, <2>6, <3>1 DEF ProbeAt, PinEffect
  <2>7. CASE k = 7
    <3>1. R[k].do = "pol" /\ R[k].to = FALSE
      BY <1>3, <2>7
    <3> QED BY <1>2, <1>7, <1>8, <2>7, <3>1 DEF ProbeAt, PinEffect
  <2>8. CASE k = 8
    <3>1. R[k].do = "restore" /\ R[k].to = "inner"
      BY <1>3, <2>8
    <3> QED BY <1>2, <1>7, <1>8, <2>8, <3>1 DEF ProbeAt, PinEffect
  <2>9. CASE k = 9
    <3>1. R[k].do = "ack" /\ R[k].to = FALSE
      BY <1>3, <2>9
    <3> QED BY <1>2, <1>7, <1>8, <2>9, <3>1 DEF ProbeAt, PinEffect
  <2>10. CASE k = 10
    <3>1. R[k].do = "hold" /\ R[k].to = FALSE
      BY <1>3, <2>10
    <3> QED BY <1>2, <1>7, <1>8, <2>10, <3>1 DEF ProbeAt, PinEffect
  <2>11. CASE k = 11
    <3>1. R[k].do = "read" /\ R[k].to = "inner"
      BY <1>3, <2>11
    <3> QED BY <1>2, <1>7, <1>8, <2>11, <3>1 DEF ProbeAt, PinEffect
  <2>12. CASE k = 12
    <3>1. R[k].do = "hold" /\ R[k].to = TRUE
      BY <1>3, <2>12
    <3> QED BY <1>2, <1>7, <1>8, <2>12, <3>1 DEF ProbeAt, PinEffect
  <2>13. CASE k = 13
    <3>1. R[k].do = "pol" /\ R[k].to = high
      BY <1>3, <2>13
    <3> QED BY <1>2, <1>7, <1>8, <2>13, <3>1 DEF ProbeAt, PinEffect
  <2>14. CASE k = 14
    <3>1. R[k].do = "restore" /\ R[k].to = "inner"
      BY <1>3, <2>14
    <3> QED BY <1>2, <1>7, <1>8, <2>14, <3>1 DEF ProbeAt, PinEffect
  <2>15. CASE k = 15
    <3>1. R[k].do = "sens" /\ R[k].to = level
      BY <1>3, <2>15
    <3> QED BY <1>2, <1>7, <1>8, <2>15, <3>1 DEF ProbeAt, PinEffect
  <2>16. CASE k = 16
    <3>1. R[k].do = "restore" /\ R[k].to = "outer"
      BY <1>3, <2>16
    <3> QED BY <1>2, <1>7, <1>8, <2>16, <3>1 DEF ProbeAt, PinEffect
  <2>17. CASE k = 17
    <3>1. R[k].do = "ack" /\ R[k].to = FALSE
      BY <1>3, <2>17
    <3> QED BY <1>2, <1>7, <1>8, <2>17, <3>1 DEF ProbeAt, PinEffect
  <2> QED BY <1>2, <2>1, <2>2, <2>3, <2>4, <2>5, <2>6, <2>7, <2>8, <2>9, <2>10, <2>11,
         <2>12, <2>13, <2>14, <2>15, <2>16, <2>17
<1>10. k = 18 => EintPlain(p)'
  <2>1. SUFFICES ASSUME k = 18 PROVE EintPlain(p)'
    OBVIOUS
  <2>2. R[k].do = "unsave" /\ R[k].to = "domain"
    BY <1>3, <2>1
  <2>3. /\ R[k].do = "mask" => p \in eintMask' /\ p \notin eintEnabled'
        /\ R[k].do # "mask" => (p \in eintEnabled' <=> p \in eintEnabled)
    BY <1>7, <2>2 DEF PinEffect
  <2> QED BY <1>2, <1>7, <1>8, <2>1, <2>2, <2>3 DEF ProbeAt, PinEffect, EintPlain, EintKnown
<1>11. CASE k < 18
  <2>1. k + 1 \in 1..18
    BY <1>2, <1>11
  <2> QED BY <1>2, <1>5, <1>6, <1>8, <1>9, <1>11, <2>1 DEF EintProbing, R
<1>12. CASE k = 18
  BY <1>5, <1>6, <1>8, <1>10, <1>12 DEF EintIdle, EintOthers
<1> QED BY <1>2, <1>11, <1>12

LEMMA MaskingStep ==
  ASSUME EintTypes, EintStep, NEW p \in Pins, NEW on \in BOOLEAN, EintMasking(p, on)
  PROVE  EintTypes' /\ eintIsr' = {} /\ EintIdle'
<1>1. /\ Head(eintWork) = Do("mask", p, on) /\ Tail(eintWork) = <<>>
      /\ EintOthers(p) /\ EintPlain(p) /\ p \in DOMAIN eintWants
  BY DEF EintMasking
<1>2. eintIsr = {} /\ eintWork' = <<>> /\ EintAccess("mask", p, on)
  BY <1>1 DEF EintStep, Do
<1>3. "mask" \in PinAccesses
  BY DEF PinAccesses
<1>4. EintOthers(p)' /\ EintTypes'
  <2>1. \A to : EintAccess("mask", p, to) => EintOthers(p)' /\ EintTypes'
    BY <1>1, <1>3, OthersStay
  <2> QED BY <1>2, <2>1, Zenon
<1>5. eintIsr' = {}
  BY <1>2 DEF EintAccess
<1>6. EintPlain(p)'
  <2>1. /\ p \in eintMask' <=> on
        /\ p \in eintEnabled' <=> ~on
        /\ eintDomain' = eintDomain /\ eintWants' = eintWants
        /\ eintFunc' = eintFunc /\ eintAuto' = eintAuto
        /\ eintLevel' = eintLevel /\ eintHigh' = eintHigh
    BY <1>2 DEF EintAccess, With
  <2> QED BY <1>1, <2>1 DEF EintPlain, EintKnown
<1> QED BY <1>2, <1>4, <1>5, <1>6 DEF EintIdle, EintOthers

LEMMA PausingStep ==
  ASSUME EintTypes, EintStep, NEW p \in Pins, NEW k \in 1..18, EintPausing(p, k)
  PROVE  EintTypes' /\ eintIsr' = {} /\ (EintPausing(p, k + 1)' \/ EintIdle')
<1>1. PICK R \in {SendPulse(p), SetDebounce(p)} : eintWork = Rest(R, k)
  BY DEF EintPausing
<1>2. k \in 1..5 /\ PauseAt(p, k) /\ p \in DOMAIN eintWants
  BY DEF EintPausing
<1>3. PICK a, b : /\ R = <<Do("read", p, "inner"), Do("hold", p, TRUE), a, b,
                             Do("restore", p, "inner")>>
                  /\ {a, b} \subseteq {Do("soft", p, TRUE), Do("soft", p, FALSE),
                                       Do("deb", p, TRUE), Do("deb", p, FALSE)}
  BY PausesAre
<1>4. PICK S : R \in Seq(S) /\ Len(R) = 5
  BY PausesAre
<1>5. /\ R[1].do = "read" /\ R[1].pin = p /\ R[1].to = "inner"
      /\ R[2].do = "hold" /\ R[2].pin = p /\ R[2].to = TRUE
      /\ R[3].do \in {"soft", "deb"} /\ R[3].pin = p
      /\ R[4].do \in {"soft", "deb"} /\ R[4].pin = p
      /\ R[5].do = "restore" /\ R[5].pin = p /\ R[5].to = "inner"
  <2>1. /\ a.do \in {"soft", "deb"} /\ a.pin = p
        /\ b.do \in {"soft", "deb"} /\ b.pin = p
    BY <1>3 DEF Do
  <2>2. R[1] = Do("read", p, "inner") /\ R[2] = Do("hold", p, TRUE) /\ R[3] = a /\ R[4] = b
        /\ R[5] = Do("restore", p, "inner")
    BY <1>3
  <2> QED BY <2>1, <2>2 DEF Do
<1>6. R[k].do \in PinAccesses /\ R[k].pin = p /\ R[k].do # "next"
  BY <1>2, <1>5 DEF PinAccesses
<1>7. /\ EintAccess(R[k].do, p, R[k].to) /\ eintIsr' = {} /\ eintWork' = Rest(R, k + 1)
      /\ k = 5 => eintWork' = <<>>
  BY <1>1, <1>2, <1>4, <1>6, OneAccess
<1>8. EintOthers(p)' /\ EintTypes'
  BY <1>6, <1>7, OthersStay DEF EintPausing
<1>9. PinEffect(R[k].do, p, R[k].to)
  BY <1>6, <1>7, PinDoes
<1>10. eintWants' = eintWants
  BY <1>9 DEF PinEffect
<1>11. R[k].do \in {"read", "hold", "soft", "deb", "restore"}
  BY <1>2, <1>5
<1>12. /\ EintKnown(p)'
       /\ p \in eintEnabled' <=> p \in eintEnabled
       /\ p \in eintAuto' <=> p \in eintAuto
       /\ p \in eintDomain'
  BY <1>2, <1>9, <1>10, <1>11 DEF PauseAt, PinEffect, EintKnown
<1>13. k < 5 => PauseAt(p, k + 1)'
  <2>1. CASE k = 1
    <3>1. R[k].do = "read" /\ R[k].to = "inner"
      BY <1>5, <2>1
    <3> QED BY <1>2, <1>9, <1>12, <2>1, <3>1 DEF PauseAt, PinEffect
  <2>2. CASE k = 2
    <3>1. R[k].do = "hold" /\ R[k].to = TRUE
      BY <1>5, <2>2
    <3> QED BY <1>2, <1>9, <1>12, <2>2, <3>1 DEF PauseAt, PinEffect
  <2>3. CASE k \in {3, 4}
    <3>1. R[k].do \in {"soft", "deb"}
      BY <1>5, <2>3
    <3> QED BY <1>2, <1>9, <1>12, <2>3, <3>1 DEF PauseAt, PinEffect
  <2> QED BY <1>2, <2>1, <2>2, <2>3
<1>14. k = 5 => EintPlain(p)'
  <2>1. SUFFICES ASSUME k = 5 PROVE EintPlain(p)'
    OBVIOUS
  <2>2. R[k].do = "restore" /\ R[k].to = "inner"
    BY <1>5, <2>1
  <2>3. p \in eintMask' <=> p \notin eintEnabled'
    BY <1>2, <1>9, <1>12, <2>1, <2>2 DEF PauseAt, PinEffect
  <2> QED BY <1>2, <1>10, <1>12, <2>3 DEF EintPlain
<1>15. CASE k < 5
  <2>1. k + 1 \in 1..5
    BY <1>2, <1>15
  <2>2. eintWork' = Rest(SendPulse(p), k + 1) \/ eintWork' = Rest(SetDebounce(p), k + 1)
    BY <1>7
  <2>3. p \in DOMAIN eintWants' /\ EintOthers(p)' /\ PauseAt(p, k + 1)'
    BY <1>2, <1>8, <1>10, <1>13, <1>15
  <2> QED BY <1>7, <1>8, <2>1, <2>2, <2>3 DEF EintPausing
<1>16. CASE k = 5
  BY <1>7, <1>8, <1>14, <1>16 DEF EintIdle, EintOthers
<1> QED BY <1>2, <1>7, <1>8, <1>15, <1>16

(* The steps of sleep and of waking up, which are about all pins. *)
LEMMA SavingStep ==
  ASSUME EintTypes, EintStep, NEW k \in 1..5, EintSaving(k)
  PROVE  EintTypes' /\ eintIsr' = {} /\ EintSaving(k + 1)' /\ k + 1 \in 1..5
<1>1. eintWork = Rest(SaveAll, k) /\ eintWork # <<>>
  BY DEF EintSaving, EintStep
<1>2. PICK S : SaveAll \in Seq(S) /\ Len(SaveAll) = 4
  BY WholesAre
<1>3. k \in 1..4 /\ k + 1 \in 2..5
  <2>1. Rest(SaveAll, 4 + 1) = <<>>
    BY <1>2, RestIs
  <2>2. k # 5
    BY <1>1, <2>1
  <2> QED BY <2>2
<1>4. /\ SaveAll[1].do = "save domains" /\ SaveAll[2].do = "save masks"
      /\ SaveAll[3].do = "mask all" /\ SaveAll[3].to = TRUE /\ SaveAll[4].do = "save table"
  <2>1. /\ SaveAll[1] = Do("save domains", 0, FALSE) /\ SaveAll[2] = Do("save masks", 0, FALSE)
        /\ SaveAll[3] = Do("mask all", 0, TRUE) /\ SaveAll[4] = Do("save table", 0, FALSE)
    BY WholesAre, Zenon
  <2>2. /\ Do("save domains", 0, FALSE).do = "save domains"
        /\ Do("save masks", 0, FALSE).do = "save masks"
        /\ Do("mask all", 0, TRUE).do = "mask all" /\ Do("mask all", 0, TRUE).to = TRUE
        /\ Do("save table", 0, FALSE).do = "save table"
    BY DEF Do
  <2> QED BY <2>1, <2>2, Zenon
<1>5. SaveAll[k].do # "next"
  <2>1. k = 1 \/ k = 2 \/ k = 3 \/ k = 4
    BY <1>3
  <2> QED BY <1>4, <2>1
<1>6. /\ EintAccess(SaveAll[k].do, SaveAll[k].pin, SaveAll[k].to)
      /\ eintIsr' = {} /\ eintWork' = Rest(SaveAll, k + 1)
  BY <1>1, <1>2, <1>3, <1>5, OneAccess
<1>7. eintAsleep /\ eintAsleep' = eintAsleep /\ eintWants' = eintWants
  BY <1>6 DEF EintAccess, EintSaving
<1>8. CASE k = 1
  <2>1. SaveAll[k].do = "save domains"
    BY <1>4, <1>8
  <2>2. /\ eintMask' = eintMask /\ eintDomain' = {} /\ eintEnabled' = eintEnabled
        /\ eintStore' = [eintStore EXCEPT !.domain = eintDomain]
        /\ eintFunc' = eintFunc /\ eintAuto' = eintAuto /\ eintDeb' = eintDeb
        /\ eintLevel' = eintLevel /\ eintHigh' = eintHigh
    BY <1>6, <2>1 DEF EintAccess
  <2>3. \A p \in Pins : EintPlain(p)
    BY <1>8 DEF EintSaving
  <2>4. eintDomain = DOMAIN eintWants /\ eintMask = Pins \ eintEnabled
        /\ eintEnabled \subseteq DOMAIN eintWants
    BY <2>3 DEF EintPlain, EintTypes
  <2>5. EintTypes'
    BY <1>6, <1>7, <2>2 DEF EintTypes
  <2>6. eintStore'.domain = DOMAIN eintWants
    BY <2>2, <2>4 DEF EintTypes
  <2>7. \A p \in Pins : EintKnown(p)'
    BY <1>7, <2>2, <2>3 DEF EintPlain, EintKnown
  <2> QED BY <1>3, <1>6, <1>7, <1>8, <2>2, <2>4, <2>5, <2>6, <2>7 DEF EintSaving
<1>9. CASE k = 2
  <2>1. SaveAll[k].do = "save masks"
    BY <1>4, <1>9
  <2>2. /\ eintMask' = eintMask /\ eintDomain' = eintDomain /\ eintEnabled' = eintEnabled
        /\ eintStore' = [eintStore EXCEPT !.mask = eintMask]
        /\ eintFunc' = eintFunc /\ eintAuto' = eintAuto /\ eintDeb' = eintDeb
        /\ eintLevel' = eintLevel /\ eintHigh' = eintHigh
    BY <1>6, <2>1 DEF EintAccess
  <2>3. /\ eintDomain = {} /\ eintStore.domain = DOMAIN eintWants
        /\ eintEnabled \subseteq DOMAIN eintWants /\ eintMask = Pins \ eintEnabled
        /\ \A p \in Pins : EintKnown(p)
    BY <1>9 DEF EintSaving
  <2>4. EintTypes'
    BY <1>6, <1>7, <2>2 DEF EintTypes
  <2>5. eintStore'.domain = DOMAIN eintWants /\ eintStore'.mask = Pins \ eintEnabled
    BY <2>2, <2>3 DEF EintTypes
  <2>6. \A p \in Pins : EintKnown(p)'
    BY <1>7, <2>2, <2>3 DEF EintKnown
  <2> QED BY <1>3, <1>6, <1>7, <1>9, <2>2, <2>3, <2>4, <2>5, <2>6 DEF EintSaving
<1>10. CASE k = 3
  <2>1. SaveAll[k].do = "mask all" /\ SaveAll[k].to = TRUE
    BY <1>4, <1>10
  <2>2. /\ eintMask' = Pins /\ eintDomain' = eintDomain /\ eintEnabled' = eintEnabled
        /\ eintStore' = eintStore
        /\ eintFunc' = eintFunc /\ eintAuto' = eintAuto /\ eintDeb' = eintDeb
        /\ eintLevel' = eintLevel /\ eintHigh' = eintHigh
    BY <1>6, <2>1 DEF EintAccess
  <2>3. /\ eintDomain = {} /\ eintStore.domain = DOMAIN eintWants
        /\ eintEnabled \subseteq DOMAIN eintWants /\ eintStore.mask = Pins \ eintEnabled
        /\ \A p \in Pins : EintKnown(p)
    BY <1>10 DEF EintSaving
  <2>4. EintTypes'
    BY <1>6, <1>7, <2>2 DEF EintTypes
  <2>5. \A p \in Pins : EintKnown(p)'
    BY <1>7, <2>2, <2>3 DEF EintKnown
  <2> QED BY <1>3, <1>6, <1>7, <1>10, <2>2, <2>3, <2>4, <2>5 DEF EintSaving
<1>11. CASE k = 4
  <2>1. SaveAll[k].do = "save table"
    BY <1>4, <1>11
  <2>2. /\ eintMask' = eintMask /\ eintDomain' = eintDomain /\ eintEnabled' = eintEnabled
        /\ eintStore' = [eintStore EXCEPT !.func = eintFunc, !.auto = eintAuto, !.deb = eintDeb,
                                          !.level = eintLevel, !.high = eintHigh]
        /\ eintFunc' = eintFunc /\ eintAuto' = eintAuto /\ eintDeb' = eintDeb
        /\ eintLevel' = eintLevel /\ eintHigh' = eintHigh
    BY <1>6, <2>1 DEF EintAccess
  <2>3. /\ eintDomain = {} /\ eintStore.domain = DOMAIN eintWants /\ eintMask = Pins
        /\ eintEnabled \subseteq DOMAIN eintWants /\ eintStore.mask = Pins \ eintEnabled
        /\ \A p \in Pins : EintKnown(p)
    BY <1>11 DEF EintSaving
  <2>4. /\ eintStore'.mask = eintStore.mask /\ eintStore'.domain = eintStore.domain
        /\ eintStore'.func = eintFunc /\ eintStore'.auto = eintAuto
        /\ eintStore'.level = eintLevel /\ eintStore'.high = eintHigh
        /\ eintStore' \in [mask : SUBSET Pins, domain : SUBSET Pins, func : SUBSET Pins,
                           auto : SUBSET Pins, deb : SUBSET Pins,
                           level : SUBSET Pins, high : SUBSET Pins]
    BY <2>2 DEF EintTypes
  <2>5. EintTypes'
    BY <1>6, <1>7, <2>2, <2>4 DEF EintTypes
  <2>6. eintFunc = DOMAIN eintWants
    BY <2>3 DEF EintKnown, EintTypes
  <2>7. \A p \in DOMAIN eintWants : /\ p \in eintAuto <=> eintWants[p].auto
                                    /\ p \in eintLevel <=> eintWants[p].level
                                    /\ p \in eintHigh <=> eintWants[p].high
    BY <2>3 DEF EintKnown, EintTypes
  <2>8. EintKept'
    BY <1>7, <2>2, <2>3, <2>4, <2>6, <2>7 DEF EintKept
  <2> QED BY <1>3, <1>6, <1>7, <1>11, <2>2, <2>3, <2>4, <2>5, <2>8 DEF EintSaving
<1> QED BY <1>3, <1>8, <1>9, <1>10, <1>11

LEMMA FinishingStep ==
  ASSUME EintTypes, EintStep, NEW k \in 1..5, EintFinishing(k)
  PROVE  EintTypes' /\ eintIsr' = {} /\ (EintFinishing(k + 1)' \/ EintIdle')
<1>1. /\ eintWork = Rest(StoreMasks, k) /\ k \in 1..3
      /\ ~eintAsleep /\ EintKept /\ eintDomain = {} /\ \A p \in Pins : EintKnown(p)
  BY DEF EintFinishing
<1>2. PICK S : StoreMasks \in Seq(S) /\ Len(StoreMasks) = 3
  BY WholesAre
<1>3. /\ StoreMasks[1].do = "mask all" /\ StoreMasks[1].to = FALSE
      /\ StoreMasks[2].do = "restore masks" /\ StoreMasks[3].do = "restore domains"
  <2>1. /\ StoreMasks[1] = Do("mask all", 0, FALSE) /\ StoreMasks[2] = Do("restore masks", 0, FALSE)
        /\ StoreMasks[3] = Do("restore domains", 0, FALSE)
    BY WholesAre, Zenon
  <2>2. /\ Do("mask all", 0, FALSE).do = "mask all" /\ Do("mask all", 0, FALSE).to = FALSE
        /\ Do("restore masks", 0, FALSE).do = "restore masks"
        /\ Do("restore domains", 0, FALSE).do = "restore domains"
    BY DEF Do
  <2> QED BY <2>1, <2>2, Zenon
<1>4. StoreMasks[k].do \in {"mask all", "restore masks", "restore domains"}
  <2>1. k = 1 \/ k = 2 \/ k = 3
    BY <1>1
  <2> QED BY <1>3, <2>1
<1>5. /\ EintAccess(StoreMasks[k].do, StoreMasks[k].pin, StoreMasks[k].to)
      /\ eintIsr' = {} /\ eintWork' = Rest(StoreMasks, k + 1)
      /\ k = 3 => eintWork' = <<>>
  BY <1>1, <1>2, <1>4, OneAccess
<1>6. /\ eintAsleep' = eintAsleep /\ eintWants' = eintWants /\ eintEnabled' = eintEnabled
      /\ eintFunc' = eintFunc /\ eintAuto' = eintAuto /\ eintDeb' = eintDeb
      /\ eintLevel' = eintLevel /\ eintHigh' = eintHigh /\ eintStore' = eintStore
  BY <1>4, <1>5 DEF EintAccess
<1>7. EintKept' /\ \A p \in Pins : EintKnown(p)'
  BY <1>1, <1>6 DEF EintKept, EintKnown
<1>8. CASE k = 1
  <2>1. StoreMasks[k].do = "mask all" /\ StoreMasks[k].to = FALSE
    BY <1>3, <1>8
  <2>2. eintMask' = {} /\ eintDomain' = eintDomain
    BY <1>5, <2>1 DEF EintAccess
  <2>3. EintTypes'
    BY <1>5, <1>6, <2>2 DEF EintTypes
  <2> QED BY <1>1, <1>5, <1>6, <1>7, <1>8, <2>2, <2>3 DEF EintFinishing
<1>9. CASE k = 2
  <2>1. StoreMasks[k].do = "restore masks"
    BY <1>3, <1>9
  <2>2. eintMask' = eintMask \cup eintStore.mask /\ eintDomain' = eintDomain
    BY <1>5, <2>1 DEF EintAccess
  <2>3. eintMask = {}
    BY <1>9 DEF EintFinishing
  <2>4. EintTypes' /\ eintMask' = eintStore'.mask
    BY <1>1, <1>5, <1>6, <2>2, <2>3 DEF EintTypes
  <2> QED BY <1>1, <1>5, <1>6, <1>7, <1>9, <2>2, <2>4 DEF EintFinishing
<1>10. CASE k = 3
  <2>1. StoreMasks[k].do = "restore domains"
    BY <1>3, <1>10
  <2>2. eintMask' = eintMask /\ eintDomain' = eintStore.domain
    BY <1>5, <2>1 DEF EintAccess
  <2>3. eintMask = Pins \ eintEnabled /\ eintStore.domain = DOMAIN eintWants
        /\ eintEnabled \subseteq DOMAIN eintWants
    BY <1>1, <1>10 DEF EintFinishing, EintKept
  <2>4. EintTypes'
    BY <1>5, <1>6, <2>2 DEF EintTypes
  <2>5. \A p \in Pins : EintPlain(p)'
    BY <1>6, <1>7, <2>2, <2>3 DEF EintPlain
  <2> QED BY <1>1, <1>5, <1>6, <1>10, <2>4, <2>5 DEF EintIdle
<1> QED BY <1>1, <1>8, <1>9, <1>10

(* A part of a list that is one access long. *)
LEMMA OneOf ==
  ASSUME NEW T, NEW s, NEW m \in Int, NEW k \in Int, m = k, s[m] \in T
  PROVE  SubSeq(s, m, k) \in Seq(T) /\ Len(SubSeq(s, m, k)) = 1 /\ SubSeq(s, m, k)[1] = s[m]
<1>1. \A i \in m..k : s[i] \in T
  OBVIOUS
<1>2. m <= k /\ k - m + 1 = 1 /\ m + 1 - 1 = m
  OBVIOUS
<1>3. /\ SubSeq(s, m, k) \in Seq(T)
      /\ Len(SubSeq(s, m, k)) = IF m <= k THEN k - m + 1 ELSE 0
      /\ \A i \in 1 .. k - m + 1 : SubSeq(s, m, k)[i] = s[m + i - 1]
  BY <1>1, SubSeqProperties
<1>4. SubSeq(s, m, k)[1] = s[m + 1 - 1]
  BY <1>2, <1>3
<1> QED BY <1>2, <1>3, <1>4

(* The last access of a list. *)
LEMMA RestLast ==
  ASSUME NEW S, NEW R \in Seq(S), Len(R) # 0
  PROVE  Rest(R, Len(R)) = <<R[Len(R)]>>
<1> DEFINE n == Len(R)
<1>1. n \in Nat \ {0} /\ R[n] \in S /\ \A i \in 1..n : R[i] \in S
  OBVIOUS
<1> HIDE DEF n
<1>2. n \in Int
  BY <1>1
<1>3. /\ SubSeq(R, n, n) \in Seq(S) /\ Len(SubSeq(R, n, n)) = 1
      /\ SubSeq(R, n, n)[1] = R[n]
  <2>1. \A k \in Int : n = k => /\ SubSeq(R, n, k) \in Seq(S) /\ Len(SubSeq(R, n, k)) = 1
                                /\ SubSeq(R, n, k)[1] = R[n]
    BY <1>1, <1>2, OneOf
  <2> QED BY <1>2, <2>1
<1>4. <<R[n]>> \in Seq(S) /\ Len(<<R[n]>>) = 1 /\ <<R[n]>>[1] = R[n]
  BY <1>1
<1>5. SubSeq(R, n, n) = <<R[n]>>
  <2>1. \A i \in 1..1 : SubSeq(R, n, n)[i] = <<R[n]>>[i]
    BY <1>3, <1>4
  <2> HIDE DEF n
  <2> DEFINE s == SubSeq(R, n, n)
             t == <<R[n]>>
  <2>2. s \in Seq(S) /\ t \in Seq(S) /\ Len(s) = Len(t) /\ \A i \in 1..Len(s) : s[i] = t[i]
    BY <1>3, <1>4, <2>1
  <2> HIDE DEF s, t
  <2>3. s = t
    BY <2>2, SeqEqual
  <2> QED BY <2>3 DEF s, t
<1> QED BY <1>5 DEF Rest, n

(* ... nor changes what is known of them. *)
LEMMA OthersKnown ==
  ASSUME NEW do \in PinAccesses, NEW p \in Pins, NEW to, EintAccess(do, p, to),
         NEW q \in Pins, q # p, EintKnown(q)
  PROVE  EintKnown(q)'
<1>1. /\ q \in eintFunc' <=> q \in eintFunc
      /\ q \in eintAuto' <=> q \in eintAuto
      /\ q \in eintLevel' <=> q \in eintLevel
      /\ q \in eintHigh' <=> q \in eintHigh
      /\ eintWants' = eintWants
  BY DEF EintAccess, PinAccesses, With
<1> QED BY <1>1 DEF EintKnown

LEMMA StoringStep ==
  ASSUME EintTypes, EintStep, NEW p \in Pins, NEW pins \in SUBSET Pins, NEW k \in 1..18,
         EintStoring(p, pins, k)
  PROVE  EintTypes' /\ eintIsr' = {} /\ (EintStoring(p, pins, k + 1)' \/ EintLooping(pins)')
<1> DEFINE R == StorePin(p) \o StoreLeft(pins)
<1> HIDE DEF R
<1>0. R = StorePin(p) \o StoreLeft(pins)
  BY DEF R
<1>01. StorePinDoes(R, p, pins)
  BY <1>0, StorePinIs
<1>1. PICK S : R \in Seq(S) /\ Len(R) = 10
  BY <1>01 DEF StorePinDoes
<1>2. /\ eintWork = Rest(R, k) /\ k \in 1..9 /\ StoreAt(p, k)
      /\ ~eintAsleep /\ EintKept /\ eintDomain = {} /\ p \in Pins \ pins
      /\ \A q \in Pins \ pins : q # p => EintKnown(q)
  BY DEF EintStoring, R
<1>3. /\ R[1].do = "func" /\ R[1].pin = p /\ R[1].to = (p \in eintStore.func)
      /\ R[2].do = "auto" /\ R[2].pin = p /\ R[2].to = (p \in eintStore.auto)
      /\ R[3].do = "deb" /\ R[3].pin = p /\ R[3].to = (p \in eintStore.deb)
      /\ R[4].do = "sens" /\ R[4].pin = p /\ R[4].to = (p \in eintStore.level)
      /\ R[5].do = "read" /\ R[5].pin = p /\ R[5].to = "inner"
      /\ R[6].do = "hold" /\ R[6].pin = p /\ R[6].to = TRUE
      /\ R[7].do = "pol" /\ R[7].pin = p /\ R[7].to = (p \in eintStore.high)
      /\ R[8].do = "restore" /\ R[8].pin = p /\ R[8].to = "inner"
      /\ R[9].do = "ack" /\ R[9].pin = p /\ R[9].to = FALSE
      /\ R[10] = Do("next", pins, FALSE)
  <2>1. /\ R[1] = Do("func", p, p \in eintStore.func)
        /\ R[2] = Do("auto", p, p \in eintStore.auto)
        /\ R[3] = Do("deb", p, p \in eintStore.deb)
        /\ R[4] = Do("sens", p, p \in eintStore.level)
        /\ R[5] = Do("read", p, "inner")
        /\ R[6] = Do("hold", p, TRUE)
        /\ R[7] = Do("pol", p, p \in eintStore.high)
        /\ R[8] = Do("restore", p, "inner")
        /\ R[9] = Do("ack", p, FALSE)
        /\ R[10] = Do("next", pins, FALSE)
    BY <1>01 DEF StorePinDoes
  <2> QED BY <2>1 DEF Do
<1>4. R[k].do \in PinAccesses \ {"mask", "domain", "save", "unsave"} /\ R[k].pin = p
  BY <1>2, <1>3 DEF PinAccesses
<1>5. EintAccess(R[k].do, p, R[k].to) /\ eintIsr' = {} /\ eintWork' = Rest(R, k + 1)
  BY <1>1, <1>2, <1>4, OneAccess DEF PinAccesses
<1>6. EintTypes' /\ eintDomain' = {} /\ eintEnabled' = eintEnabled /\ eintAsleep' = eintAsleep
  <2>1. EintTypes'
    BY <1>4, <1>5 DEF EintTypes, EintAccess, PinAccesses, With
  <2> QED BY <1>2, <1>4, <1>5, <2>1 DEF EintAccess, PinAccesses
<1>7. PinEffect(R[k].do, p, R[k].to)
  BY <1>4, <1>5, PinDoes
<1>8. eintWants' = eintWants /\ eintStore' = eintStore
  BY <1>7 DEF PinEffect
<1>9. R' = R /\ EintKept'
  <2>1. R' = R
    BY <1>8 DEF R, StorePin
  <2> QED BY <1>2, <1>6, <1>8, <2>1 DEF EintKept
<1>10. \A q \in Pins \ pins : q # p => EintKnown(q)'
  BY <1>2, <1>4, <1>5, OthersKnown
<1>11. StoreAt(p, k + 1)'
  <2>0. /\ p \in eintStore.func <=> p \in DOMAIN eintWants
        /\ p \in DOMAIN eintWants =>
              /\ p \in eintStore.auto <=> eintWants[p].auto
              /\ p \in eintStore.level <=> eintWants[p].level
              /\ p \in eintStore.high <=> eintWants[p].high
    BY <1>2 DEF EintKept
  <2>1. CASE k = 1
    <3>1. R[k].do = "func" /\ (R[k].to = TRUE <=> p \in eintStore.func)
      BY <1>3, <2>1
    <3> QED BY <1>2, <1>7, <1>8, <2>0, <2>1, <3>1 DEF StoreAt, PinEffect
  <2>2. CASE k = 2
    <3>1. R[k].do = "auto" /\ (R[k].to = TRUE <=> p \in eintStore.auto)
      BY <1>3, <2>2
    <3> QED BY <1>2, <1>7, <1>8, <2>0, <2>2, <3>1 DEF StoreAt, PinEffect
  <2>3. CASE k = 3
    <3>1. R[k].do = "deb" /\ (R[k].to = TRUE <=> p \in eintStore.deb)
      BY <1>3, <2>3
    <3> QED BY <1>2, <1>7, <1>8, <2>0, <2>3, <3>1 DEF StoreAt, PinEffect
  <2>4. CASE k = 4
    <3>1. R[k].do = "sens" /\ (R[k].to = TRUE <=> p \in eintStore.level)
      BY <1>3, <2>4
    <3> QED BY <1>2, <1>7, <1>8, <2>0, <2>4, <3>1 DEF StoreAt, PinEffect
  <2>5. CASE k = 5
    <3>1. R[k].do = "read" /\ R[k].to = "inner"
      BY <1>3, <2>5
    <3> QED BY <1>2, <1>7, <1>8, <2>0, <2>5, <3>1 DEF StoreAt, PinEffect
  <2>6. CASE k = 6
    <3>1. R[k].do = "hold" /\ R[k].to = TRUE
      BY <1>3, <2>6
    <3> QED BY <1>2, <1>7, <1>8, <2>0, <2>6, <3>1 DEF StoreAt, PinEffect
  <2>7. CASE k = 7
    <3>1. R[k].do = "pol" /\ (R[k].to = TRUE <=> p \in eintStore.high)
      BY <1>3, <2>7
    <3> QED BY <1>2, <1>7, <1>8, <2>0, <2>7, <3>1 DEF StoreAt, PinEffect
  <2>8. CASE k = 8
    <3>1. R[k].do = "restore" /\ R[k].to = "inner"
      BY <1>3, <2>8
    <3> QED BY <1>2, <1>7, <1>8, <2>0, <2>8, <3>1 DEF StoreAt, PinEffect
  <2>9. CASE k = 9
    <3>1. R[k].do = "ack" /\ R[k].to = FALSE
      BY <1>3, <2>9
    <3> QED BY <1>2, <1>7, <1>8, <2>0, <2>9, <3>1 DEF StoreAt, PinEffect
  <2> QED BY <1>2, <2>1, <2>2, <2>3, <2>4, <2>5, <2>6, <2>7, <2>8, <2>9
<1>12. CASE k < 9
  <2>1. k + 1 \in 1..9
    BY <1>2, <1>12
  <2>2. eintWork' = Rest((StorePin(p) \o StoreLeft(pins))', k + 1)
    BY <1>5, <1>9 DEF R
  <2> QED BY <1>2, <1>5, <1>6, <1>9, <1>10, <1>11, <2>1, <2>2 DEF EintStoring
<1>13. CASE k = 9
  <2>1. eintWork' = StoreLeft(pins)
    <3>1. Len(R) = 10 /\ Len(R) # 0 /\ k + 1 = 10
      BY <1>1, <1>13
    <3>2. Rest(R, Len(R)) = <<R[Len(R)]>>
      BY <1>1, <3>1, RestLast
    <3>3. eintWork' = <<R[10]>>
      BY <1>5, <3>1, <3>2, Zenon
    <3>4. R[10] = Do("next", pins, FALSE)
      BY <1>3
    <3> QED BY <3>3, <3>4, Zenon DEF StoreLeft
  <2>2. EintKnown(p)'
    BY <1>11, <1>13 DEF StoreAt, EintKnown
  <2> QED BY <1>2, <1>5, <1>6, <1>9, <1>10, <2>1, <2>2 DEF EintLooping
<1> QED BY <1>2, <1>12, <1>13

LEMMA LoopingStep ==
  ASSUME EintTypes, EintStep, NEW pins \in SUBSET Pins, EintLooping(pins)
  PROVE  /\ EintTypes' /\ eintIsr' = {}
         /\ \/ EintFinishing(1)'
            \/ \E p \in pins : EintStoring(p, pins \ {p}, 1)'
<1>1. Head(eintWork) = Do("next", pins, FALSE)
  BY DEF EintLooping, StoreLeft
<1>2. PICK to : eintIsr = {} /\ eintWork' = StoreNext(pins) /\ EintAccess("next", pins, to)
  BY <1>1 DEF EintStep, Do
<1>3. /\ eintMask' = eintMask /\ eintDomain' = eintDomain /\ eintEnabled' = eintEnabled
      /\ eintFunc' = eintFunc /\ eintAuto' = eintAuto /\ eintDeb' = eintDeb
      /\ eintLevel' = eintLevel /\ eintHigh' = eintHigh /\ eintStore' = eintStore
      /\ eintIsr' = eintIsr /\ eintWants' = eintWants /\ eintAsleep' = eintAsleep
  BY <1>2 DEF EintAccess
<1>4. /\ ~eintAsleep /\ EintKept /\ eintDomain = {}
      /\ \A q \in Pins \ pins : EintKnown(q)
  BY DEF EintLooping
<1>5. /\ EintTypes' /\ EintKept' /\ \A q \in Pins \ pins : EintKnown(q)'
  BY <1>3, <1>4 DEF EintTypes, EintKept, EintKnown
<1>6. CASE pins = {}
  <2>1. eintWork' = StoreMasks
    BY <1>2, <1>6 DEF StoreNext
  <2>2. Rest(StoreMasks, 1) = StoreMasks
    BY WholesAre, RestIs
  <2>3. EintFinishing(1)'
    BY <1>3, <1>4, <1>5, <1>6, <2>1, <2>2 DEF EintFinishing
  <2> QED BY <1>2, <1>3, <1>5, <2>3
<1>7. CASE pins # {}
  <2> DEFINE p == Min(pins)
             R == StorePin(p) \o StoreLeft(pins \ {p})
  <2>1. p \in pins
    BY <1>7, MinIsIn
  <2>2. eintWork' = R
    BY <1>2, <1>7 DEF StoreNext
  <2> HIDE DEF p
  <2>3. R' = R
    BY <1>3 DEF StorePin
  <2>4. Rest(R, 1) = R
    <3> HIDE DEF R
    <3>1. R = StorePin(p) \o StoreLeft(pins \ {p})
      BY DEF R
    <3>2. StorePinDoes(R, p, pins \ {p})
      BY <3>1, StorePinIs
    <3>3. PICK S : R \in Seq(S)
      BY <3>2 DEF StorePinDoes
    <3> QED BY <3>3, RestIs
  <2>5. eintWork' = Rest((StorePin(p) \o StoreLeft(pins \ {p}))', 1)
    BY <2>2, <2>3, <2>4
  <2>6. StoreAt(p, 1)'
    BY DEF StoreAt
  <2>7. p \in Pins \ (pins \ {p}) /\ pins \ {p} \subseteq Pins
        /\ \A q \in Pins \ (pins \ {p}) : q # p => q \in Pins \ pins
    BY <2>1
  <2>8. EintStoring(p, pins \ {p}, 1)'
    BY <1>3, <1>4, <1>5, <2>5, <2>6, <2>7 DEF EintStoring
  <2> QED BY <1>2, <1>3, <1>5, <2>1, <2>8
<1> QED BY <1>6, <1>7

---------------------------------------------------------------------------
(* Every step keeps the invariant.                                         *)
LEMMA StepKeepsEint ==
  ASSUME EintInv, EintStep
  PROVE  EintInv'
<1> USE DEF EintInv
<1>1. SUFFICES EintTypes' /\ eintIsr' = {} /\ EintWhere'
  OBVIOUS
<1>2. ~EintIdle
  BY DEF EintIdle, EintStep
<1>3. CASE \E p \in Pins, k \in 1..18 : EintRegistering(p, k)
  <2>1. PICK p \in Pins, k \in 1..18 : EintRegistering(p, k)
    BY <1>3
  <2>2. EintTypes' /\ eintIsr' = {} /\ (EintRegistering(p, k + 1)' \/ EintIdle')
    BY <2>1, RegisteringStep
  <2>3. EintRegistering(p, k + 1)' => k + 1 \in 1..18
    BY DEF EintRegistering
  <2> QED BY <2>2, <2>3 DEF EintWhere
<1>4. CASE \E p \in Pins, k \in 1..18 : EintUnregistering(p, k)
  <2>1. PICK p \in Pins, k \in 1..18 : EintUnregistering(p, k)
    BY <1>4
  <2>2. EintTypes' /\ eintIsr' = {} /\ (EintUnregistering(p, k + 1)' \/ EintIdle')
    BY <2>1, UnregisteringStep
  <2>3. EintUnregistering(p, k + 1)' => k + 1 \in 1..18
    BY DEF EintUnregistering
  <2> QED BY <2>2, <2>3 DEF EintWhere
<1>5. CASE \E p \in Pins, k \in 1..18 : EintPausing(p, k)
  <2>1. PICK p \in Pins, k \in 1..18 : EintPausing(p, k)
    BY <1>5
  <2>2. EintTypes' /\ eintIsr' = {} /\ (EintPausing(p, k + 1)' \/ EintIdle')
    BY <2>1, PausingStep
  <2>3. EintPausing(p, k + 1)' => k + 1 \in 1..18
    BY DEF EintPausing
  <2> QED BY <2>2, <2>3 DEF EintWhere
<1>6. CASE \E p \in Pins, k \in 1..18 : \E level, high \in BOOLEAN : EintProbing(p, level, high, k)
  <2>1. PICK p \in Pins, k \in 1..18 : \E level, high \in BOOLEAN : EintProbing(p, level, high, k)
    BY <1>6
  <2>2. PICK level \in BOOLEAN, high \in BOOLEAN : EintProbing(p, level, high, k)
    BY <2>1, Zenon
  <2>3. EintTypes' /\ eintIsr' = {} /\ (EintProbing(p, level, high, k + 1)' \/ EintIdle')
    BY <2>2, ProbingStep, Zenon
  <2>4. CASE EintProbing(p, level, high, k + 1)'
    <3>1. k + 1 \in 1..18
      BY <2>4 DEF EintProbing
    <3> QED BY <2>3, <2>4, <3>1, Zenon DEF EintWhere
  <2>5. CASE EintIdle'
    BY <2>3, <2>5, Zenon DEF EintWhere
  <2> QED BY <2>3, <2>4, <2>5
<1>7. CASE \E p \in Pins, k \in 1..18 : \E pins \in SUBSET Pins : EintStoring(p, pins, k)
  <2>1. PICK p \in Pins, k \in 1..18, pins \in SUBSET Pins : EintStoring(p, pins, k)
    BY <1>7
  <2>2. EintTypes' /\ eintIsr' = {} /\ (EintStoring(p, pins, k + 1)' \/ EintLooping(pins)')
    BY <2>1, StoringStep
  <2>3. EintStoring(p, pins, k + 1)' => k + 1 \in 1..18
    BY DEF EintStoring
  <2> QED BY <2>2, <2>3 DEF EintWhere
<1>8. CASE \E p \in Pins : \E on \in BOOLEAN : EintMasking(p, on)
  <2>1. EintTypes' /\ eintIsr' = {} /\ EintIdle'
    BY <1>8, MaskingStep, Zenon
  <2> QED BY <2>1, Zenon DEF EintWhere
<1>9. CASE \E k \in 1..5 : EintSaving(k)
  <2>1. PICK k \in 1..5 : EintSaving(k)
    BY <1>9
  <2>2. EintTypes' /\ eintIsr' = {} /\ EintSaving(k + 1)' /\ k + 1 \in 1..5
    BY <2>1, SavingStep
  <2> QED BY <2>2 DEF EintWhere
<1>10. CASE \E k \in 1..5 : EintFinishing(k)
  <2>1. PICK k \in 1..5 : EintFinishing(k)
    BY <1>10
  <2>2. EintTypes' /\ eintIsr' = {} /\ (EintFinishing(k + 1)' \/ EintIdle')
    BY <2>1, FinishingStep
  <2>3. EintFinishing(k + 1)' => k + 1 \in 1..5
    BY DEF EintFinishing
  <2> QED BY <2>2, <2>3 DEF EintWhere
<1>11. CASE \E pins \in SUBSET Pins : EintLooping(pins)
  <2>1. PICK pins \in SUBSET Pins : EintLooping(pins)
    BY <1>11
  <2>2. /\ EintTypes' /\ eintIsr' = {}
        /\ EintFinishing(1)' \/ \E p \in pins : EintStoring(p, pins \ {p}, 1)'
    BY <2>1, LoopingStep
  <2>3. CASE EintFinishing(1)'
    BY <2>2, <2>3 DEF EintWhere
  <2>4. CASE \E p \in pins : EintStoring(p, pins \ {p}, 1)'
    <3>1. PICK p \in pins : EintStoring(p, pins \ {p}, 1)'
      BY <2>4
    <3>2. p \in Pins /\ pins \ {p} \in SUBSET Pins /\ 1 \in 1..18
      OBVIOUS
    <3> QED BY <2>2, <3>1, <3>2 DEF EintWhere
  <2> QED BY <2>2, <2>3, <2>4
<1> QED BY <1>2, <1>3, <1>4, <1>5, <1>6, <1>7, <1>8, <1>9, <1>10, <1>11 DEF EintWhere

(* Only a task that is at rest has nothing to do. *)
LEMMA EintResting ==
  ASSUME EintWhere, eintWork = <<>>
  PROVE  IF eintAsleep THEN EintSaving(5) ELSE EintIdle
<1>1. ASSUME NEW p \in Pins, NEW k \in 1..18, EintRegistering(p, k)
      PROVE  FALSE
  <2> DEFINE R == Registration(p, eintWants[p])
  <2> HIDE DEF R
  <2>1. eintWork = Rest(R, k)
    BY <1>1 DEF EintRegistering, R
  <2>2. PICK S : R \in Seq(S)
    BY RegistrationIs DEF R
  <2>3. k \in 1..Len(R)
    <3>1. Len(R) = IF eintWants[p].unmask THEN 10 ELSE 9
      BY RegistrationIs DEF R
    <3> QED BY <1>1, <3>1 DEF EintRegistering
  <2> QED BY <2>1, <2>2, <2>3, RestIs
<1>2. ASSUME NEW p \in Pins, NEW k \in 1..18, EintUnregistering(p, k)
      PROVE  FALSE
  <2> DEFINE R == Unregistration(p)
  <2> HIDE DEF R
  <2>1. eintWork = Rest(R, k)
    BY <1>2 DEF EintUnregistering, R
  <2>2. R = Unregistration(p)
    BY DEF R
  <2>3. PICK S : R \in Seq(S) /\ Len(R) = 6
    BY <2>2, UnregistrationIs
  <2>4. k \in 1..Len(R)
    BY <1>2, <2>3 DEF EintUnregistering
  <2>5. R \in Seq(S)
    BY <2>3
  <2> QED BY <2>1, <2>4, <2>5, RestIs
<1>3. ASSUME NEW p \in Pins, NEW k \in 1..18, EintPausing(p, k)
      PROVE  FALSE
  <2>1. PICK R \in {SendPulse(p), SetDebounce(p)} : eintWork = Rest(R, k)
    BY <1>3 DEF EintPausing
  <2>2. PICK S : R \in Seq(S) /\ Len(R) = 5
    BY PausesAre
  <2>3. k \in 1..Len(R)
    BY <1>3, <2>2 DEF EintPausing
  <2>4. R \in Seq(S)
    BY <2>2
  <2> QED BY <2>1, <2>3, <2>4, RestIs
<1>4. ASSUME NEW p \in Pins, NEW k \in 1..18, NEW level \in BOOLEAN, NEW high \in BOOLEAN,
             EintProbing(p, level, high, k)
      PROVE  FALSE
  <2> DEFINE R == GetDefPol(p, level, high)
  <2> HIDE DEF R
  <2>1. eintWork = Rest(R, k)
    BY <1>4 DEF EintProbing, R
  <2>2. GetDefPolDoes(R, p, level, high)
    BY GetDefPolIs, Zenon DEF R
  <2>3. PICK S : R \in Seq(S) /\ Len(R) = 18
    BY <2>2, Zenon DEF GetDefPolDoes
  <2>4. k \in 1..Len(R)
    BY <2>3
  <2>5. R \in Seq(S)
    BY <2>3
  <2> QED BY <2>1, <2>4, <2>5, RestIs
<1>5. ASSUME NEW p \in Pins, NEW k \in 1..18, NEW pins \in SUBSET Pins, EintStoring(p, pins, k)
      PROVE  FALSE
  <2> DEFINE R == StorePin(p) \o StoreLeft(pins)
  <2> HIDE DEF R
  <2>1. eintWork = Rest(R, k)
    BY <1>5 DEF EintStoring, R
  <2>2. StorePinDoes(R, p, pins)
    BY StorePinIs DEF R
  <2>3. PICK S : R \in Seq(S) /\ Len(R) = 10
    BY <2>2, Zenon DEF StorePinDoes
  <2>4. k \in 1..Len(R)
    BY <1>5, <2>3 DEF EintStoring
  <2>5. R \in Seq(S)
    BY <2>3
  <2> QED BY <2>1, <2>4, <2>5, RestIs
<1>6. ASSUME NEW p \in Pins, NEW on \in BOOLEAN, EintMasking(p, on)
      PROVE  FALSE
  BY <1>6 DEF EintMasking
<1>7. ASSUME NEW pins \in SUBSET Pins, EintLooping(pins)
      PROVE  FALSE
  BY <1>7 DEF EintLooping, StoreLeft
<1>8. ASSUME NEW k \in 1..5, EintFinishing(k)
      PROVE  FALSE
  <2>1. eintWork = Rest(StoreMasks, k) /\ k \in 1..3
    BY <1>8 DEF EintFinishing
  <2>2. PICK S : StoreMasks \in Seq(S) /\ Len(StoreMasks) = 3
    BY WholesAre
  <2> QED BY <2>1, <2>2, RestIs
<1>9. ASSUME NEW k \in 1..5, EintSaving(k)
      PROVE  eintAsleep /\ EintSaving(5)
  <2>1. eintWork = Rest(SaveAll, k) /\ eintAsleep
    BY <1>9 DEF EintSaving
  <2>2. PICK S : SaveAll \in Seq(S) /\ Len(SaveAll) = 4
    BY WholesAre
  <2>3. k \notin 1..4
    <3>1. SaveAll \in Seq(S)
      BY <2>2
    <3>2. k \notin 1..Len(SaveAll)
      BY <2>1, <3>1, RestIs
    <3> QED BY <2>2, <3>2
  <2>4. k = 5
    BY <2>3
  <2> QED BY <1>9, <2>1, <2>4
<1>10. EintIdle => ~eintAsleep
  BY DEF EintIdle
<1>11. EintIdle \/ \E k \in 1..5 : EintSaving(k)
  BY <1>1, <1>2, <1>3, <1>4, <1>5, <1>6, <1>7, <1>8, Zenon DEF EintWhere
<1> QED BY <1>9, <1>10, <1>11

(* What the position of a call depends on: not the lines, what the         *)
(* hardware remembers of them, nor the interrupt.                          *)
eintPlace == <<eintMask, eintDomain, eintLevel, eintHigh, eintTable, eintStore, eintWork,
               eintSaved, eintOwner>>
LEMMA EintUntouched ==
  ASSUME EintTypes, EintWhere, UNCHANGED eintPlace, eintIsr' \subseteq Pins
  PROVE  EintTypes' /\ EintWhere'
<1>1. /\ eintMask' = eintMask /\ eintDomain' = eintDomain
      /\ eintLevel' = eintLevel /\ eintHigh' = eintHigh
      /\ eintFunc' = eintFunc /\ eintAuto' = eintAuto /\ eintDeb' = eintDeb
      /\ eintStore' = eintStore /\ eintWork' = eintWork /\ eintSaved' = eintSaved
      /\ eintWants' = eintWants /\ eintEnabled' = eintEnabled /\ eintAsleep' = eintAsleep
  BY DEF eintPlace, eintTable, eintOwner
<1>2. EintTypes'
  BY <1>1 DEF EintTypes
<1>3. ASSUME NEW p \in Pins
      PROVE  /\ EintKnown(p) => EintKnown(p)'
             /\ EintPlain(p) => EintPlain(p)'
             /\ EintOthers(p) => EintOthers(p)'
  BY <1>1 DEF EintKnown, EintPlain, EintOthers
<1>4. EintKept => EintKept'
  BY <1>1 DEF EintKept
<1>5. EintIdle => EintIdle'
  BY <1>1, <1>3 DEF EintIdle
<1>6. ASSUME NEW p \in Pins, NEW k \in 1..18
      PROVE  /\ EintRegistering(p, k) => EintRegistering(p, k)'
             /\ EintUnregistering(p, k) => EintUnregistering(p, k)'
             /\ EintPausing(p, k) => EintPausing(p, k)'
  <2>1. EintRegistering(p, k) => EintRegistering(p, k)'
    BY <1>1, <1>3 DEF EintRegistering, RegAt
  <2>2. EintUnregistering(p, k) => EintUnregistering(p, k)'
    BY <1>1, <1>3 DEF EintUnregistering, UnregAt
  <2>3. EintPausing(p, k) => EintPausing(p, k)'
    BY <1>1, <1>3 DEF EintPausing, PauseAt
  <2> QED BY <2>1, <2>2, <2>3
<1>7. ASSUME NEW p \in Pins, NEW k \in 1..18, NEW level \in BOOLEAN, NEW high \in BOOLEAN
      PROVE  EintProbing(p, level, high, k) => EintProbing(p, level, high, k)'
  BY <1>1, <1>3 DEF EintProbing, ProbeAt
<1>8. ASSUME NEW p \in Pins, NEW k \in 1..18, NEW pins \in SUBSET Pins
      PROVE  EintStoring(p, pins, k) => EintStoring(p, pins, k)'
  <2>1. StorePin(p) = StorePin(p)'
    BY <1>1 DEF StorePin
  <2>2. StoreAt(p, k) => StoreAt(p, k)'
    BY <1>1 DEF StoreAt
  <2> QED BY <1>1, <1>3, <1>4, <2>1, <2>2 DEF EintStoring
<1>9. ASSUME NEW p \in Pins, NEW on \in BOOLEAN
      PROVE  EintMasking(p, on) => EintMasking(p, on)'
  BY <1>1, <1>3 DEF EintMasking
<1>10. ASSUME NEW k \in 1..5
       PROVE  /\ EintSaving(k) => EintSaving(k)'
              /\ EintFinishing(k) => EintFinishing(k)'
  BY <1>1, <1>3, <1>4 DEF EintSaving, EintFinishing
<1>11. ASSUME NEW pins \in SUBSET Pins
       PROVE  EintLooping(pins) => EintLooping(pins)'
  BY <1>1, <1>3, <1>4 DEF EintLooping
<1>12. EintWhere'
  BY <1>5, <1>6, <1>7, <1>8, <1>9, <1>10, <1>11, Zenon DEF EintWhere
<1> QED BY <1>2, <1>12

(* The interrupt finds only pins that no call has masked. *)
LEMMA LisrKeepsEint ==
  ASSUME EintInv, EintLisr
  PROVE  EintInv'
<1>1. UNCHANGED eintPlace /\ eintMask' = eintMask /\ eintDomain' = eintDomain
  BY DEF EintLisr, eintPlace, eintRegs, eintTable, eintOwner
<1>2. eintIsr' = EintStatus \cap eintDomain
  BY DEF EintLisr
<1>3. eintIsr' \subseteq Pins /\ \A p \in eintIsr' : p \in eintDomain' /\ p \notin eintMask'
  BY <1>1, <1>2 DEF EintStatus
<1> QED BY <1>1, <1>3, EintUntouched DEF EintInv

(* A line that changes leaves all of it alone. *)
LEMMA LineKeepsEint ==
  ASSUME EintInv, NEW p \in Pins, EintLineChanges(p)
  PROVE  EintInv'
<1>1. /\ UNCHANGED eintPlace
      /\ eintMask' = eintMask /\ eintDomain' = eintDomain /\ eintIsr' = eintIsr
  BY DEF EintLineChanges, eintPlace, eintTable, eintOwner
<1>2. eintIsr' \subseteq Pins
  BY <1>1 DEF EintInv, EintTypes
<1> QED BY <1>1, <1>2, EintUntouched DEF EintInv

LEMMA ForgettingKeepsEint ==
  ASSUME EintInv, EintForgets
  PROVE  EintInv'
<1>1. EintSaving(5)
  BY EintResting DEF EintInv, EintForgets
<1>2. /\ eintMask' = eintMask /\ eintDomain' = eintDomain /\ eintIsr' = eintIsr
      /\ eintLevel' = {} /\ eintHigh' = {}
      /\ eintFunc' = eintFunc /\ eintAuto' = eintAuto /\ eintDeb' = eintDeb
      /\ eintStore' = eintStore /\ eintWork' = eintWork
      /\ eintWants' = eintWants /\ eintEnabled' = eintEnabled /\ eintAsleep' = eintAsleep
  BY DEF EintForgets, eintTable, eintOwner
<1>3. EintTypes'
  BY <1>2 DEF EintInv, EintTypes
<1>4. EintSaving(5)'
  BY <1>1, <1>2 DEF EintSaving, EintKept
<1>5. EintWhere'
  BY <1>4 DEF EintWhere
<1> QED BY <1>2, <1>3, <1>5 DEF EintInv

(* The pin that is served is one whose call has not masked it: it is plain *)
(* or its driver's call is at a place where that does no harm.             *)
EintServed(s) ==
  /\ s \in Pins /\ s \in eintDomain /\ s \notin eintMask
  /\ \A q : /\ q # s \/ s \in eintAuto => (q \in eintMask' <=> q \in eintMask)
            /\ q # s \/ s \in eintAuto => (q \in eintEnabled' <=> q \in eintEnabled)
  /\ s \notin eintAuto => s \in eintMask' /\ s \notin eintEnabled'
  /\ eintDomain' = eintDomain /\ eintLevel' = eintLevel /\ eintHigh' = eintHigh
  /\ eintFunc' = eintFunc /\ eintAuto' = eintAuto /\ eintDeb' = eintDeb
  /\ eintStore' = eintStore /\ eintWork' = eintWork /\ eintSaved' = eintSaved
  /\ eintWants' = eintWants /\ eintAsleep' = eintAsleep

(* A plain pin stays plain: it is masked if its driver is to unmask it. *)
LEMMA ServedPlain ==
  ASSUME NEW s, EintServed(s), NEW p \in Pins, EintPlain(p)
  PROVE  EintPlain(p)'
<1>1. EintKnown(p)'
  BY DEF EintServed, EintPlain, EintKnown
<1>2. CASE p # s \/ s \in eintAuto
  BY <1>1, <1>2 DEF EintServed, EintPlain
<1>3. CASE p = s /\ s \notin eintAuto
  BY <1>1, <1>3 DEF EintServed, EintPlain
<1> QED BY <1>2, <1>3

LEMMA ServedOthers ==
  ASSUME NEW s, EintServed(s), NEW p \in Pins, EintOthers(p)
  PROVE  EintOthers(p)'
<1>1. ASSUME NEW q \in Pins, q # p PROVE EintPlain(q)'
  BY <1>1, ServedPlain DEF EintOthers
<1> QED BY <1>1 DEF EintOthers, EintServed

LEMMA ServeKeepsEint ==
  ASSUME EintInv, EintServe
  PROVE  EintInv'
<1> DEFINE s == Min(eintIsr)
<1>1. s \in eintIsr
  BY MinIsIn DEF EintServe, EintInv, EintTypes
<1>2. /\ eintIsr' = eintIsr \ {s}
      /\ eintMask' = With(eintMask, s, s \notin eintAuto)
      /\ eintEnabled' = With(eintEnabled, s, s \in eintEnabled /\ s \in eintAuto)
      /\ UNCHANGED <<eintDomain, eintLevel, eintHigh, eintTable, eintStore, eintWork, eintSaved,
                     eintWants, eintAsleep>>
  BY DEF EintServe
<1> HIDE DEF s
<1>3. s \in Pins /\ s \in eintDomain /\ s \notin eintMask
  BY <1>1 DEF EintInv, EintTypes
<1>4. EintServed(s)
  BY <1>2, <1>3 DEF EintServed, With, eintTable
<1>5. EintTypes'
  BY <1>1, <1>2 DEF EintInv, EintTypes, With, eintTable
<1>6. \A p \in eintIsr' : p \in eintDomain' /\ p \notin eintMask'
  BY <1>2 DEF EintInv, With
<1>7. CASE EintIdle
  <2>1. EintIdle'
    BY <1>4, <1>7, ServedPlain DEF EintIdle, EintServed
  <2> QED BY <1>5, <1>6, <2>1 DEF EintInv, EintWhere
<1>8. CASE \E p \in Pins, k \in 1..18 : EintRegistering(p, k)
  <2>1. PICK p \in Pins, k \in 1..18 : EintRegistering(p, k)
    BY <1>8
  <2>2. p # s
    BY <1>3, <2>1 DEF EintRegistering, RegAt
  <2>3. EintRegistering(p, k)'
    <3>1. EintOthers(p)'
      BY <1>4, <2>1, ServedOthers DEF EintRegistering
    <3>2. RegAt(p, eintWants[p], k)'
      BY <1>4, <2>1, <2>2 DEF EintRegistering, RegAt, EintServed
    <3> QED BY <1>4, <2>1, <3>1, <3>2 DEF EintRegistering, EintServed
  <2> QED BY <1>5, <1>6, <2>3 DEF EintInv, EintWhere
<1>9. CASE \E p \in Pins, k \in 1..18 : EintUnregistering(p, k)
  <2>1. PICK p \in Pins, k \in 1..18 : EintUnregistering(p, k)
    BY <1>9
  <2>2. EintUnregistering(p, k)'
    <3>1. EintOthers(p)'
      BY <1>4, <2>1, ServedOthers DEF EintUnregistering
    <3>2. UnregAt(p, k)'
      BY <1>4, <2>1 DEF EintUnregistering, UnregAt, EintServed
    <3> QED BY <1>4, <2>1, <3>1, <3>2 DEF EintUnregistering, EintServed
  <2> QED BY <1>5, <1>6, <2>2 DEF EintInv, EintWhere
<1>10. CASE \E p \in Pins, k \in 1..18 : EintPausing(p, k)
  <2>1. PICK p \in Pins, k \in 1..18 : EintPausing(p, k)
    BY <1>10
  <2>2. p # s \/ s \in eintAuto
    BY <1>3, <2>1 DEF EintPausing, PauseAt
  <2>3. EintPausing(p, k)'
    <3>1. EintOthers(p)'
      BY <1>4, <2>1, ServedOthers DEF EintPausing
    <3>2. PauseAt(p, k)'
      BY <1>4, <2>1, <2>2 DEF EintPausing, PauseAt, EintKnown, EintServed
    <3> QED BY <1>4, <2>1, <3>1, <3>2 DEF EintPausing, EintServed
  <2> QED BY <1>5, <1>6, <2>3 DEF EintInv, EintWhere
<1>11. CASE \E p \in Pins, k \in 1..18 : \E level, high \in BOOLEAN : EintProbing(p, level, high, k)
  <2>1. PICK p \in Pins, k \in 1..18 : \E level, high \in BOOLEAN : EintProbing(p, level, high, k)
    BY <1>11
  <2>2. PICK level \in BOOLEAN, high \in BOOLEAN : EintProbing(p, level, high, k)
    BY <2>1, Zenon
  <2>3. k = 1 \/ p # s
    BY <1>3, <2>2 DEF EintProbing, ProbeAt
  <2>4. EintProbing(p, level, high, k)'
    <3>1. EintOthers(p)'
      BY <1>4, <2>2, ServedOthers DEF EintProbing
    <3>2. ProbeAt(p, level, high, k)'
      BY <1>4, <2>2, <2>3 DEF EintProbing, ProbeAt, EintServed
    <3> QED BY <1>4, <2>2, <3>1, <3>2 DEF EintProbing, EintServed
  <2> QED BY <1>5, <1>6, <2>4, Zenon DEF EintInv, EintWhere
<1>12. CASE \E p \in Pins : \E on \in BOOLEAN : EintMasking(p, on)
  <2>1. PICK p \in Pins, on \in BOOLEAN : EintMasking(p, on)
    BY <1>12, Zenon
  <2>2. EintMasking(p, on)'
    <3>1. EintOthers(p)' /\ EintPlain(p)'
      BY <1>4, <2>1, ServedOthers, ServedPlain DEF EintMasking
    <3> QED BY <1>4, <2>1, <3>1 DEF EintMasking, EintServed
  <2> QED BY <1>5, <1>6, <2>2, Zenon DEF EintInv, EintWhere
<1>13. CASE \E k \in 1..5 : EintSaving(k)
  <2>1. PICK k \in 1..5 : EintSaving(k)
    BY <1>13
  <2>2. k = 1
    BY <1>3, <2>1 DEF EintSaving
  <2>3. \A p \in Pins : EintPlain(p)'
    BY <1>4, <2>1, <2>2, ServedPlain DEF EintSaving
  <2>4. \A p \in Pins : EintKnown(p)'
    BY <2>3 DEF EintPlain
  <2>5. EintSaving(k)'
    BY <1>4, <2>1, <2>2, <2>3, <2>4 DEF EintSaving, EintServed
  <2> QED BY <1>5, <1>6, <2>5 DEF EintInv, EintWhere
<1>14. eintDomain # {}
  BY <1>3
<1>15. /\ \A pins \in SUBSET Pins : ~EintLooping(pins)
       /\ \A k \in 1..5 : ~EintFinishing(k)
       /\ \A p \in Pins, k \in 1..18, pins \in SUBSET Pins : ~EintStoring(p, pins, k)
  BY <1>14 DEF EintLooping, EintFinishing, EintStoring
<1> QED BY <1>7, <1>8, <1>9, <1>10, <1>11, <1>12, <1>13, <1>15, Zenon DEF EintInv, EintWhere

(* A call begins when the task is at rest. *)
EintAtCall(steps) ==
  /\ eintIsr = {} /\ eintIsr' = {} /\ eintWork = <<>> /\ eintWork' = steps
  /\ eintMask' = eintMask /\ eintDomain' = eintDomain /\ eintLevel' = eintLevel
  /\ eintHigh' = eintHigh /\ eintFunc' = eintFunc /\ eintAuto' = eintAuto /\ eintDeb' = eintDeb
  /\ eintStore' = eintStore /\ eintSaved' = eintSaved /\ eintEnabled' = eintEnabled
LEMMA EintCallIs ==
  ASSUME NEW steps, EintCall(steps)
  PROVE  EintAtCall(steps)
BY DEF EintCall, EintAtCall, eintRegs, eintTable

(* The calls begin with all pins plain. *)
LEMMA RegisterKeepsEint ==
  ASSUME EintInv, NEW p \in Pins, EintRegister(p)
  PROVE  EintInv'
<1>1. PICK how \in EintDrivers[p] :
        /\ EintCall(Registration(p, how))
        /\ eintWants' = [q \in DOMAIN eintWants \cup {p} |-> IF q = p THEN how ELSE eintWants[q]]
  BY DEF EintRegister
<1>2. ~eintAsleep /\ eintAsleep' = eintAsleep /\ p \notin DOMAIN eintWants
  BY DEF EintRegister, EintAwake
<1>3. EintAtCall(Registration(p, how))
  BY <1>1, EintCallIs
<1>4. EintIdle
  BY <1>2, <1>3, EintResting DEF EintInv, EintAtCall
<1>5. /\ DOMAIN eintWants' = DOMAIN eintWants \cup {p} /\ eintWants'[p] = how
      /\ \A q \in DOMAIN eintWants : q # p /\ eintWants'[q] = eintWants[q]
  BY <1>1, <1>2
<1>6. EintTypes'
  BY <1>2, <1>3, <1>5 DEF EintInv, EintTypes, EintAtCall
<1>7. EintOthers(p)'
  <2>1. ASSUME NEW q \in Pins, q # p PROVE EintPlain(q)'
    <3>1. EintPlain(q)
      BY <1>4 DEF EintIdle
    <3>2. /\ q \in DOMAIN eintWants' <=> q \in DOMAIN eintWants
          /\ q \in DOMAIN eintWants => eintWants'[q] = eintWants[q]
      BY <1>5, <2>1
    <3> QED BY <1>3, <3>1, <3>2 DEF EintPlain, EintKnown, EintAtCall
  <2> QED BY <1>2, <2>1 DEF EintOthers
<1>8. EintRegistering(p, 1)'
  <2>1. Rest(Registration(p, how), 1) = Registration(p, how)
    <3>1. PICK S : Registration(p, how) \in Seq(S)
      BY RegistrationIs
    <3> QED BY <3>1, RestIs
  <2>2. eintWork' = Rest(Registration(p, eintWants'[p]), 1)
    BY <1>3, <1>5, <2>1 DEF EintAtCall
  <2>3. p \in eintMask' /\ p \notin eintEnabled' /\ p \notin eintFunc' /\ p \notin eintDomain'
    <3>1. EintPlain(p)
      BY <1>4 DEF EintIdle
    <3> QED BY <1>2, <1>3, <3>1 DEF EintPlain, EintKnown, EintAtCall
  <2> QED BY <1>5, <1>7, <2>2, <2>3 DEF EintRegistering, RegAt
<1> QED BY <1>3, <1>6, <1>8 DEF EintInv, EintWhere, EintAtCall

LEMMA UnregisterKeepsEint ==
  ASSUME EintInv, NEW p \in Pins, EintUnregister(p)
  PROVE  EintInv'
<1>1. /\ EintAtCall(Unregistration(p))
      /\ eintWants' = [q \in DOMAIN eintWants \ {p} |-> eintWants[q]]
      /\ ~eintAsleep /\ eintAsleep' = eintAsleep /\ p \in DOMAIN eintWants
  BY EintCallIs DEF EintUnregister, EintAwake
<1>2. EintIdle
  BY <1>1, EintResting DEF EintInv, EintAtCall
<1>3. /\ DOMAIN eintWants' = DOMAIN eintWants \ {p}
      /\ \A q \in DOMAIN eintWants : q # p => eintWants'[q] = eintWants[q]
  BY <1>1
<1>4. EintTypes'
  BY <1>1, <1>3 DEF EintInv, EintTypes, EintAtCall
<1>5. EintOthers(p)'
  <2>1. ASSUME NEW q \in Pins, q # p PROVE EintPlain(q)'
    <3>1. EintPlain(q)
      BY <1>2 DEF EintIdle
    <3>2. /\ q \in DOMAIN eintWants' <=> q \in DOMAIN eintWants
          /\ q \in DOMAIN eintWants => eintWants'[q] = eintWants[q]
      BY <1>3, <2>1
    <3> QED BY <1>1, <3>1, <3>2 DEF EintPlain, EintKnown, EintAtCall
  <2> QED BY <1>1, <2>1 DEF EintOthers
<1>6. EintUnregistering(p, 1)'
  <2> DEFINE R == Unregistration(p)
  <2> HIDE DEF R
  <2>1. R = Unregistration(p)
    BY DEF R
  <2>2. PICK S : R \in Seq(S)
    BY <2>1, UnregistrationIs
  <2>3. eintWork' = Rest(R, 1)
    BY <1>1, <2>1, <2>2, RestIs DEF EintAtCall
  <2>4. UnregAt(p, 1)'
    <3>1. EintPlain(p)
      BY <1>2 DEF EintIdle
    <3> QED BY <1>1, <3>1 DEF UnregAt, EintPlain, EintKnown, EintAtCall
  <2> QED BY <1>3, <1>5, <2>1, <2>3, <2>4 DEF EintUnregistering
<1> QED BY <1>1, <1>4, <1>6 DEF EintInv, EintWhere, EintAtCall

(* The calls that leave what the drivers have asked for as it is. *)
LEMMA AwakeCall ==
  ASSUME EintInv, NEW steps, EintCall(steps), EintAwake, UNCHANGED eintWants
  PROVE  /\ EintTypes' /\ eintIsr' = {} /\ eintWork' = steps /\ ~eintAsleep'
         /\ \A q \in Pins : EintPlain(q) /\ EintPlain(q)'
         /\ eintWants' = eintWants /\ eintEnabled' = eintEnabled /\ eintAuto' = eintAuto
         /\ eintLevel' = eintLevel /\ eintHigh' = eintHigh
<1>1. EintAtCall(steps) /\ ~eintAsleep /\ eintAsleep' = eintAsleep /\ eintWants' = eintWants
  BY EintCallIs DEF EintAwake
<1>2. EintIdle
  BY <1>1, EintResting DEF EintInv, EintAtCall
<1>3. EintTypes'
  BY <1>1 DEF EintInv, EintTypes, EintAtCall
<1>4. \A q \in Pins : EintPlain(q) /\ EintPlain(q)'
  BY <1>1, <1>2 DEF EintIdle, EintPlain, EintKnown, EintAtCall
<1> QED BY <1>1, <1>3, <1>4 DEF EintAtCall

LEMMA SetMaskKeepsEint ==
  ASSUME EintInv, NEW p \in Pins, NEW on \in BOOLEAN, EintSetMask(p, on)
  PROVE  EintInv'
<1>1. /\ EintTypes' /\ eintIsr' = {} /\ eintWork' = <<Do("mask", p, on)>> /\ ~eintAsleep'
      /\ \A q \in Pins : EintPlain(q)'
      /\ eintWants' = eintWants
  BY AwakeCall, Zenon DEF EintSetMask
<1>2. p \in DOMAIN eintWants
  BY DEF EintSetMask
<1>3. EintMasking(p, on)'
  BY <1>1, <1>2 DEF EintMasking, EintOthers
<1> QED BY <1>1, <1>3, Zenon DEF EintInv, EintWhere

LEMMA PauseKeepsEint ==
  ASSUME EintInv, NEW p \in Pins, EintPause(p)
  PROVE  EintInv'
<1>1. PICK steps \in {SendPulse(p), SetDebounce(p), <<>>} : EintCall(steps)
  BY DEF EintPause, SetHwDebounce
<1>2. EintAwake /\ p \in DOMAIN eintWants /\ (p \in eintEnabled => p \in eintAuto)
      /\ UNCHANGED eintWants
  BY DEF EintPause
<1>3. /\ EintTypes' /\ eintIsr' = {} /\ eintWork' = steps /\ ~eintAsleep'
      /\ \A q \in Pins : EintPlain(q) /\ EintPlain(q)'
      /\ eintWants' = eintWants /\ eintEnabled' = eintEnabled /\ eintAuto' = eintAuto
  BY <1>1, <1>2, AwakeCall
<1>4. CASE steps = <<>>
  <2>1. EintIdle'
    BY <1>3, <1>4 DEF EintIdle
  <2> QED BY <1>3, <2>1 DEF EintInv, EintWhere
<1>5. CASE steps \in {SendPulse(p), SetDebounce(p)}
  <2>1. Rest(steps, 1) = steps
    BY <1>5, PausesAre, RestIs
  <2>2. PauseAt(p, 1)'
    BY <1>2, <1>3 DEF PauseAt, EintPlain
  <2>3. eintWork' = Rest(SendPulse(p), 1) \/ eintWork' = Rest(SetDebounce(p), 1)
    BY <1>3, <1>5, <2>1
  <2>4. EintOthers(p)'
    BY <1>3 DEF EintOthers
  <2>5. EintPausing(p, 1)'
    BY <1>2, <1>3, <2>2, <2>3, <2>4 DEF EintPausing
  <2> QED BY <1>3, <2>5 DEF EintInv, EintWhere
<1> QED BY <1>1, <1>4, <1>5

LEMMA GetDefPolKeepsEint ==
  ASSUME EintInv, NEW p \in Pins, EintGetDefPol(p)
  PROVE  EintInv'
<1>0. PICK level \in BOOLEAN, high \in BOOLEAN :
              level = (p \in eintLevel) /\ high = (p \in eintHigh)
  <2>1. (p \in eintLevel) \in BOOLEAN /\ (p \in eintHigh) \in BOOLEAN
    OBVIOUS
  <2> QED BY <2>1, Zenon
<1> DEFINE R == GetDefPol(p, level, high)
<1>1. EintCall(R) /\ EintAwake /\ UNCHANGED eintWants
  BY <1>0, Zenon DEF EintGetDefPol
<1>2. Rest(R, 1) = R
  <2>1. GetDefPolDoes(R, p, level, high)
    BY GetDefPolIs, Zenon
  <2> HIDE DEF R
  <2>2. PICK S : R \in Seq(S)
    BY <2>1, Zenon DEF GetDefPolDoes
  <2> QED BY <2>2, RestIs
<1> HIDE DEF R
<1>3. /\ EintTypes' /\ eintIsr' = {} /\ eintWork' = R /\ ~eintAsleep'
      /\ \A q \in Pins : EintPlain(q) /\ EintPlain(q)'
      /\ eintWants' = eintWants /\ eintLevel' = eintLevel /\ eintHigh' = eintHigh
  BY <1>1, AwakeCall
<1>4. EintOthers(p)'
  BY <1>3 DEF EintOthers
<1>5. /\ p \in eintLevel' <=> level
      /\ p \in eintHigh' <=> high
  BY <1>0, <1>3
<1>6. eintWork' = Rest(GetDefPol(p, level, high), 1)
  BY <1>2, <1>3, Zenon DEF R
<1>7. ProbeAt(p, level, high, 1)'
  <2>1. EintPlain(p)'
    BY <1>3
  <2> QED BY <1>5, <2>1 DEF ProbeAt, EintPlain, EintKnown
<1>8. 1 \in 1..18
  OBVIOUS
<1>9. EintProbing(p, level, high, 1)'
  BY <1>4, <1>6, <1>7, <1>8, Zenon DEF EintProbing
<1>10. EintWhere'
  BY <1>8, <1>9, Zenon DEF EintWhere
<1> QED BY <1>3, <1>10 DEF EintInv

(* Sleep, and waking up. *)
LEMMA SaveAllKeepsEint ==
  ASSUME EintInv, EintSaveAll
  PROVE  EintInv'
<1>1. EintAtCall(SaveAll) /\ ~eintAsleep /\ eintAsleep' = TRUE /\ eintWants' = eintWants
  BY EintCallIs DEF EintSaveAll
<1>2. EintIdle
  BY <1>1, EintResting DEF EintInv, EintAtCall
<1>3. EintTypes'
  BY <1>1 DEF EintInv, EintTypes, EintAtCall
<1>4. \A p \in Pins : EintPlain(p)' /\ EintKnown(p)'
  BY <1>1, <1>2 DEF EintIdle, EintPlain, EintKnown, EintAtCall
<1>5. Rest(SaveAll, 1) = SaveAll
  BY WholesAre, RestIs
<1>6. EintSaving(1)'
  BY <1>1, <1>4, <1>5 DEF EintSaving, EintAtCall
<1> QED BY <1>1, <1>3, <1>6 DEF EintInv, EintWhere, EintAtCall

LEMMA StoreAllKeepsEint ==
  ASSUME EintInv, EintStoreAll
  PROVE  EintInv'
<1>1. /\ EintAtCall(StoreLeft(Pins)) /\ eintAsleep /\ eintAsleep' = FALSE
      /\ eintWants' = eintWants
  BY EintCallIs DEF EintStoreAll, StoreAll
<1>2. EintSaving(5)
  BY <1>1, EintResting DEF EintInv, EintAtCall
<1>3. EintTypes'
  BY <1>1 DEF EintInv, EintTypes, EintAtCall
<1>4. EintKept' /\ eintDomain' = {}
  BY <1>1, <1>2 DEF EintSaving, EintKept, EintAtCall
<1>5. EintLooping(Pins)'
  BY <1>1, <1>4 DEF EintLooping, EintAtCall
<1> QED BY <1>1, <1>3, <1>5 DEF EintInv, EintWhere, EintAtCall

LEMMA EintStarts == EintInit => EintInv
<1> SUFFICES ASSUME EintInit PROVE EintInv
  OBVIOUS
<1>1. DOMAIN eintWants = {}
  BY DEF EintInit
<1>2. EintTypes
  BY <1>1 DEF EintInit, EintTypes
<1>3. EintIdle
  BY <1>1 DEF EintInit, EintIdle, EintPlain, EintKnown
<1> QED BY <1>2, <1>3 DEF EintInit, EintInv, EintWhere

LEMMA EintKeeps == EintInv /\ [EintNext]_eintVars => EintInv'
<1> SUFFICES ASSUME EintInv, [EintNext]_eintVars PROVE EintInv'
  OBVIOUS
<1>1. CASE UNCHANGED eintVars
  <2>1. /\ UNCHANGED eintPlace /\ eintIsr' = eintIsr
        /\ eintMask' = eintMask /\ eintDomain' = eintDomain
    BY <1>1 DEF eintVars, eintPlace, eintRegs, eintTable, eintOwner
  <2>2. eintIsr' \subseteq Pins
    BY <2>1 DEF EintInv, EintTypes
  <2> QED BY <2>1, <2>2, EintUntouched DEF EintInv
<1>2. CASE EintForgets \/ EintLisr \/ EintServe \/ EintStep \/ EintSaveAll \/ EintStoreAll
  BY <1>2, ForgettingKeepsEint, LisrKeepsEint, ServeKeepsEint, StepKeepsEint, SaveAllKeepsEint,
     StoreAllKeepsEint
<1>3. ASSUME NEW p \in Pins,
             EintLineChanges(p) \/ EintRegister(p) \/ EintUnregister(p) \/ EintPause(p)
                \/ EintGetDefPol(p)
      PROVE  EintInv'
  BY <1>3, LineKeepsEint, RegisterKeepsEint, UnregisterKeepsEint, PauseKeepsEint,
     GetDefPolKeepsEint
<1>4. ASSUME NEW p \in Pins, NEW on \in BOOLEAN, EintSetMask(p, on)
      PROVE  EintInv'
  BY <1>4, SetMaskKeepsEint, Zenon
<1> QED BY <1>1, <1>2, <1>3, <1>4, Zenon DEF EintNext

(* A driver that is called waits for it. *)
LEMMA EintCalled ==
  ASSUME EintInv, NEW s \in eintIsr, s \in eintFunc
  PROVE  s \in eintEnabled
<1>1. s \in Pins /\ s \in eintDomain /\ s \notin eintMask
  BY DEF EintInv, EintTypes
<1>2. EintPlain(s) => s \in eintEnabled
  BY <1>1 DEF EintPlain
<1>3. ASSUME NEW p \in Pins, EintOthers(p), p = s => s \in eintEnabled
      PROVE  s \in eintEnabled
  BY <1>1, <1>2, <1>3 DEF EintOthers
<1>4. CASE EintIdle
  BY <1>1, <1>2, <1>4 DEF EintIdle
<1>5. ASSUME NEW p \in Pins, NEW k \in 1..18,
             EintRegistering(p, k) \/ EintUnregistering(p, k) \/ EintPausing(p, k)
      PROVE  s \in eintEnabled
  <2>1. EintOthers(p)
    BY <1>5 DEF EintRegistering, EintUnregistering, EintPausing
  <2>2. EintRegistering(p, k) => p # s
    BY <1>1 DEF EintRegistering, RegAt
  <2>3. EintUnregistering(p, k) => (p = s => s \in eintEnabled)
    BY <1>1 DEF EintUnregistering, UnregAt
  <2>4. EintPausing(p, k) => (p = s => s \in eintEnabled)
    BY <1>1 DEF EintPausing, PauseAt
  <2> QED BY <1>3, <1>5, <2>1, <2>2, <2>3, <2>4
<1>6. ASSUME NEW p \in Pins, NEW k \in 1..18, NEW level \in BOOLEAN, NEW high \in BOOLEAN,
             EintProbing(p, level, high, k)
      PROVE  s \in eintEnabled
  BY <1>1, <1>3, <1>6 DEF EintProbing, ProbeAt
<1>7. ASSUME NEW p \in Pins, NEW on \in BOOLEAN, EintMasking(p, on)
      PROVE  s \in eintEnabled
  BY <1>2, <1>3, <1>7 DEF EintMasking
<1>8. ASSUME NEW k \in 1..5, EintSaving(k)
      PROVE  s \in eintEnabled
  BY <1>1, <1>2, <1>8 DEF EintSaving
<1>9. /\ \A pins \in SUBSET Pins : ~EintLooping(pins)
      /\ \A k \in 1..5 : ~EintFinishing(k)
      /\ \A p \in Pins, k \in 1..18, pins \in SUBSET Pins : ~EintStoring(p, pins, k)
  BY <1>1 DEF EintLooping, EintFinishing, EintStoring
<1> QED BY <1>4, <1>5, <1>6, <1>7, <1>8, <1>9, Zenon DEF EintInv, EintWhere

(* At rest all pins are plain, or all is kept. *)
LEMMA EintInvGives == EintInv => EintAsWanted
<1> SUFFICES ASSUME EintInv PROVE EintAsWanted
  OBVIOUS
<1>1. eintIsr \cap eintFunc \subseteq eintEnabled
  BY EintCalled
<1>2. ASSUME EintAtRest, eintAsleep
      PROVE  eintDomain = {} /\ eintMask = Pins
  <2>1. EintSaving(5)
    BY <1>2, EintResting DEF EintInv, EintAtRest
  <2> QED BY <2>1 DEF EintSaving
<1>3. ASSUME EintAtRest, ~eintAsleep
      PROVE  /\ eintMask = Pins \ eintEnabled
             /\ eintDomain = DOMAIN eintWants /\ eintFunc = DOMAIN eintWants
             /\ \A p \in DOMAIN eintWants : LET how == eintWants[p] IN
                   <<p \in eintAuto, p \in eintLevel, p \in eintHigh>>
                   = <<how.auto, how.level, how.high>>
  <2>1. \A p \in Pins : EintPlain(p)
    <3>1. EintIdle
      BY <1>3, EintResting DEF EintInv, EintAtRest
    <3> QED BY <3>1 DEF EintIdle
  <2>2. /\ eintMask = Pins \ eintEnabled
        /\ eintDomain = DOMAIN eintWants /\ eintFunc = DOMAIN eintWants
    BY <2>1 DEF EintPlain, EintKnown, EintInv, EintTypes
  <2>3. ASSUME NEW p \in DOMAIN eintWants
        PROVE  <<p \in eintAuto, p \in eintLevel, p \in eintHigh>>
               = <<eintWants[p].auto, eintWants[p].level, eintWants[p].high>>
    <3>1. p \in Pins /\ eintWants[p] \in EintDrivers[p]
      BY DEF EintInv, EintTypes
    <3>2. /\ eintWants[p].auto \in BOOLEAN /\ eintWants[p].level \in BOOLEAN
          /\ eintWants[p].high \in BOOLEAN
      BY <3>1, EintAssumption DEF EintAssumption
    <3>3. /\ p \in eintAuto <=> eintWants[p].auto
          /\ p \in eintLevel <=> eintWants[p].level
          /\ p \in eintHigh <=> eintWants[p].high
      BY <2>1, <3>1 DEF EintPlain, EintKnown
    <3>4. /\ (p \in eintAuto) = eintWants[p].auto
          /\ (p \in eintLevel) = eintWants[p].level
          /\ (p \in eintHigh) = eintWants[p].high
      BY <3>2, <3>3
    <3> QED BY <3>4, Zenon
  <2> QED BY <2>2, <2>3, Zenon
<1> QED BY <1>1, <1>2, <1>3, Zenon DEF EintAsWanted

(* No driver is called that does not wait for it, not even in the middle   *)
(* of a registration or of sleep, and between calls every pin is as its    *)
(* driver has asked, for any pins and any accesses the interrupt comes     *)
(* between.                                                                *)
THEOREM EintAsWantedHolds == EintSpec => []EintAsWanted
<1>1. EintSpec => []EintInv
  BY EintStarts, EintKeeps, PTL DEF EintSpec
<1> QED BY <1>1, EintInvGives, PTL
=============================================================================
