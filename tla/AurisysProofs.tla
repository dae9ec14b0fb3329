--------------------------- MODULE AurisysProofs ---------------------------
(***************************************************************************)
(* Proofs about AurisysControl, for any finite set of streams and their    *)
(* libraries and any commands: AcServes.                                   *)
(* And about Aurisys, for any chains and sizes of calls: AuSteady; its     *)
(* invariant is explained where it is defined, at the end.                 *)
(*                                                                         *)
(* A call is a list of steps, so that the invariant AcInv speaks of what   *)
(* is left of each call:                                                   *)
(*   a stream's list is in the order that its stage allows (AcShape), what *)
(*   is left says which of its handlers are there (AcStands), and a step   *)
(*   that is left finds what it works on (AcSafe);                         *)
(*   the commands' list has the steps on the handlers of one component     *)
(*   before the next component, and each of them finds its handler         *)
(*   (AcControlFits);                                                      *)
(*   one task at a time is between the taking and the freeing of the       *)
(*   controller's lock (AcOneHasCtl), so nobody frees a handler that a     *)
(*   command still has to speak to;                                        *)
(*   a handler logs as its component says unless a command has still to    *)
(*   say so (AcTold), and a direction is reserved by whoever has an        *)
(*   instance of a library that needs it (AcReserves).                     *)
(***************************************************************************)
EXTENDS AurisysControl, Aurisys, FiniteSetTheorems, SequenceTheorems, TLAPS

\* The lock of the controller, the handlers of a stream, and what a step may be
AcCtl == <<"controller">>
AcOf(s) == {h \in AcHandlers : h[1] = s}
AcIsLock(step, l) == step.do = "lock" /\ step.on = l
AcList(w) == w \in Seq(ToSet(w))
AcWorksOn == {"unlink", "make", "unmake", "use", "move", "copy"}

\* The types. A stop by AUD_ASSERT never happens.
AcHandlerTypes == [there : BOOLEAN, arsi : BOOLEAN, log : BOOLEAN, told : BOOLEAN,
                   dumps : BOOLEAN, dump : BOOLEAN, param : {"none", "moving", "set"}]
AcTypeOK ==
    /\ \E setup \in AcSetups : acStreams = setup.streams /\ acCommands = setup.commands
    /\ acController \in {"none", "bad", "on"}
    /\ acComponent \in [AcComponents -> [log : BOOLEAN, dump : BOOLEAN]]
    /\ acHandler \in [AcHandlers -> AcHandlerTypes]
    /\ DOMAIN acWork = AcTasks \cup {AcControl}
    /\ \A t \in AcTasks \cup {AcControl} : AcList(acWork[t])
    /\ acStage \in [AcTasks -> {"away", "made", "ready", "ending"}]
    /\ acHalted = FALSE /\ acRaced \in BOOLEAN

\* The steps of the calls of a stream that is in some stage
AcStreamStep(s, stage, step) ==
    /\ step.do \in {"lock", "end", "create", "make", "use", "unmake", "move", "copy", "unlink", "free"}
    /\ step.do = "create" => stage = "away" /\ step.on = s
    /\ step.do = "make" => stage = "made"
    /\ step.do \in {"use", "unmake"} => stage = "ready"
    /\ step.do \in {"move", "copy"} => stage \in {"made", "ready"}
    /\ step.do = "unlink" => stage = "ending"
    /\ step.do = "free" => stage = "ending" /\ step.on = s
    /\ step.do = "lock" =>
          \/ stage \in {"away", "ending"} /\ step.on \in {AcCtl, <<"managers">>}
          \/ stage = "ending" /\ step.on = <<"handlers">>
          \/ stage # "away" /\ step.on = AcManagerLock(s)
          \/ stage # "away" /\ \E h \in AcOf(s) : step.on = AcLockOf(h)
    /\ step.do \in AcWorksOn => step.on \in AcOf(s)
    /\ step.do = "end" => \/ stage = "away" /\ step.on = "made"
                          \/ stage = "made" /\ step.on = "ready"
                          \/ stage = "ready" /\ step.on \in {"ready", "ending"}
                          \/ stage = "ending" /\ step.on = "away"
    /\ AcCtl \in step.frees <=> step.do = "end" /\ stage \in {"away", "ending"}

\* and their order
AcStreamOrder(w) ==
    /\ \A k \in DOMAIN w :
          /\ AcIsLock(w[k], AcCtl) => k = 1
          /\ w[k].do = "end" => k = Len(w)
          /\ w[k].do \in {"create", "free"} => k + 1 = Len(w)
    /\ \A j, k \in DOMAIN w :
          w[j].do = "unlink" /\ j < k => ~AcUses(w[k], w[j].on)
    /\ (\E k \in DOMAIN w : w[k].do \in {"create", "free", "unlink", "unmake"}) => w[Len(w)].do = "end"

\* The steps that are left of a stream's call
AcShape(s, stage, w) ==
    /\ \A k \in DOMAIN w : AcStreamStep(s, stage, w[k])
    /\ AcStreamOrder(w)
    /\ stage \in {"away", "ending"} /\ w # <<>> => w[Len(w)].do = "end"

\* What a stage says of the manager and the handlers of a stream
AcLeft(w, do, on) == \E k \in DOMAIN w : w[k].do = do /\ w[k].on = on
AcStands(s) ==
    LET w == acWork[s]  stage == acStage[s] IN
    /\ stage = "away" /\ (w = <<>> \/ AcLeft(w, "create", s)) =>
          \A h \in AcOf(s) : ~acHandler[h].there
    /\ \/ stage \in {"made", "ready"}
       \/ stage = "away" /\ w # <<>> /\ ~AcLeft(w, "create", s)
       \/ stage = "ending" /\ w = <<>>
       => s \in acManagers /\ \A h \in AcOf(s) : acHandler[h].there
    /\ stage = "ready" /\ AcLeft(w, "end", "ending") =>
          \A h \in AcOf(s) : acHandler[h].arsi => AcLeft(w, "unmake", h)
    /\ stage = "ending" =>
          /\ AcLeft(w, "free", s) => s \in acManagers
          /\ \A h \in AcOf(s) : /\ ~acHandler[h].arsi
                                /\ acHandler[h].there => w = <<>> \/ AcLeft(w, "unlink", h)

\* What is left finds what it works on.
AcSafe(s) ==
    \A k \in DOMAIN acWork[s] :
        /\ \A h \in AcHandlers : AcUses(acWork[s][k], h) => acHandler[h].there
        /\ AcIsLock(acWork[s][k], AcManagerLock(s)) => s \in acManagers
AcStreamFits(s) == AcShape(s, acStage[s], acWork[s]) /\ AcStands(s) /\ AcSafe(s)

\* The commands: what is done to handlers is done before the next component.
AcControlStep(step) ==
    /\ step.do \in {"lock", "start", "parse", "component", "find", "run", "finish"}
    /\ step.do = "lock" => \/ step.on \in {<<"controllers">>, AcCtl}
                           \/ \E h \in AcHandlers : step.on = AcLockOf(h)
    /\ step.do = "component" => step.on.kind \in {"log", "dump", "apply"} /\ step.on.enable \in BOOLEAN
    /\ step.do = "run" =>
          /\ step.on.handler \in AcHandlers /\ step.on.enable \in BOOLEAN
          /\ step.on.kind = "log" => step.on.enable = acComponent[AcComponentOf(step.on.handler)].log
    /\ AcCtl \in step.frees <=> step.do \in {"parse", "finish"}

\* Steps on a handler, and the order of a command's steps
AcOnHandler(step) ==
    \/ step.do = "run"
    \/ step.do = "lock" /\ step.on \notin {<<"controllers">>, AcCtl}
AcControlOrder(w) ==
    /\ \A k \in DOMAIN w :
          /\ AcIsLock(w[k], AcCtl) => k = 1 /\ w[Len(w)].do # "start"
          /\ w[k].do \in {"start", "parse", "finish"} => k = Len(w)
          /\ AcOnHandler(w[k]) => ~AcIsLock(w[1], AcCtl)
          /\ AcOnHandler(w[k]) \/ w[k].do \in {"component", "find"} => w[Len(w)].do = "finish"
    /\ w # <<>> => w[Len(w)].do \in {"start", "parse", "finish"}
    /\ \A j, k \in DOMAIN w :
          /\ w[j].do \in {"component", "find"} /\ j < k => ~AcOnHandler(w[k])
          /\ w[j].do = "find" /\ j < k => w[k].do = "finish"
          /\ w[j].do = "run" /\ w[k].do = "run" => w[j].on.kind = w[k].on.kind

\* What is left of a command, in the state it meets
AcControlFits ==
    LET w == acWork[AcControl] IN
    /\ \A k \in DOMAIN w :
          /\ AcControlStep(w[k])
          /\ \A h \in AcHandlers : AcUses(w[k], h) => acHandler[h].there
          /\ acController = "none" => w[k].do = "start" \/ AcIsLock(w[k], <<"controllers">>)
          /\ w[k].do = "parse" => acController = "bad"
    /\ AcControlOrder(w)
    /\ acController # "on" => \A s \in AcTasks : acStage[s] = "away" /\ acWork[s] = <<>>

\* One task at a time has the controller's lock.
AcHasCtl(w) == w # <<>> /\ AcCtl \in w[Len(w)].frees /\ ~AcIsLock(w[1], AcCtl)
AcOneHasCtl ==
    /\ AcCtl \in acHeld <=> \E t \in AcTasks \cup {AcControl} : AcHasCtl(acWork[t])
    /\ \A t, u \in AcTasks \cup {AcControl} : AcHasCtl(acWork[t]) /\ AcHasCtl(acWork[u]) => t = u

\* What a command has still to say to a handler
AcToSay(h) == \E k \in DOMAIN acWork[AcControl] : LET step == acWork[AcControl][k] IN
                 step.do = "run" /\ step.on.handler = h /\ step.on.kind = "log"
AcTold(h) ==
    LET handler == acHandler[h] IN
    /\ handler.there /\ ~AcToSay(h) => handler.log = acComponent[AcComponentOf(h)].log
    /\ handler.arsi => handler.there /\ handler.told = handler.log
    /\ handler.dump => handler.arsi /\ handler.dumps

\* A direction is reserved exactly while an instance that needs it is there.
AcReserves ==
    /\ acReserved \subseteq {"dl", "ul"}
    /\ \A r \in {"dl", "ul"} :
          r \in acReserved <=> \E h \in AcHandlers : acHandler[h].arsi /\ r \in AcRegions(h)

\* The inductive invariant
AcInv ==
    /\ AcTypeOK /\ AcControlFits /\ AcOneHasCtl /\ AcReserves
    /\ \A s \in AcTasks : AcStreamFits(s)
    /\ \A h \in AcHandlers : AcTold(h)
---------------------------------------------------------------------------
(* Lists of steps *)

\* A list has a length and a first and a last element unless it is empty.
LEMMA AcListIs ==
  ASSUME NEW w, AcList(w)
  PROVE  /\ Len(w) \in Nat /\ DOMAIN w = 1 .. Len(w)
         /\ w # <<>> => Len(w) # 0 /\ 1 \in DOMAIN w /\ Len(w) \in DOMAIN w /\ Head(w) = w[1]
         /\ w = <<>> <=> Len(w) = 0
<1>1. w \in Seq(ToSet(w))
  BY DEF AcList
<1>2. Len(w) \in Nat /\ DOMAIN w = 1 .. Len(w)
  BY <1>1, LenProperties, Zenon
<1>3. w # <<>> => Len(w) # 0
  BY <1>1, EmptySeq, Zenon
<1>4. Head(w) = w[1]
  BY <1>1
<1> QED
  BY <1>2, <1>3, <1>4

\* Every sequence is a list.
LEMMA AcSeqIsList ==
  ASSUME NEW S, NEW w \in Seq(S)
  PROVE  AcList(w)
<1>1. Len(w) \in Nat /\ DOMAIN w = 1 .. Len(w) /\ w \in [1 .. Len(w) -> S]
  BY LenProperties, Zenon
<1>2. w \in [1 .. Len(w) -> ToSet(w)]
  BY <1>1 DEF ToSet
<1> QED
  BY <1>1, <1>2, SeqDef DEF AcList

\* What is left of a list after its first element is the list moved by one.
LEMMA AcTailIs ==
  ASSUME NEW w, AcList(w), w # <<>>
  PROVE  /\ AcList(Tail(w)) /\ Len(Tail(w)) = Len(w) - 1 /\ Len(w) \in Nat \ {0}
         /\ DOMAIN Tail(w) = 1 .. (Len(w) - 1)
         /\ \A k \in DOMAIN Tail(w) : Tail(w)[k] = w[k + 1] /\ k + 1 \in DOMAIN w
         /\ Tail(w) # <<>> => Tail(w)[Len(Tail(w))] = w[Len(w)] /\ Len(w) > 1
         /\ Tail(w) = <<>> => Len(w) = 1
<1>1. w \in Seq(ToSet(w))
  BY DEF AcList
<1>2. /\ Tail(w) \in Seq(ToSet(w)) /\ Len(Tail(w)) = Len(w) - 1
      /\ \A i \in 1 .. Len(Tail(w)) : Tail(w)[i] = w[i + 1]
  BY <1>1, HeadTailProperties, Zenon
<1>3. AcList(Tail(w))
  BY <1>2, AcSeqIsList, Zenon
<1>4. Len(w) \in Nat /\ DOMAIN w = 1 .. Len(w) /\ Len(w) # 0
  BY AcListIs, Zenon
<1>5. Len(Tail(w)) \in Nat /\ DOMAIN Tail(w) = 1 .. Len(Tail(w))
      /\ (Tail(w) # <<>> => Len(Tail(w)) # 0) /\ (Tail(w) = <<>> => Len(Tail(w)) = 0)
  BY <1>3, AcListIs, Zenon
<1> QED
  BY <1>2, <1>3, <1>4, <1>5

\* The elements of two lists, one after the other
LEMMA AcConcatIs ==
  ASSUME NEW v, NEW w, AcList(v), AcList(w)
  PROVE  /\ AcList(v \o w) /\ Len(v \o w) = Len(v) + Len(w)
         /\ DOMAIN (v \o w) = 1 .. (Len(v) + Len(w))
         /\ \A k \in DOMAIN (v \o w) : (v \o w)[k] = IF k <= Len(v) THEN v[k] ELSE w[k - Len(v)]
<1> DEFINE S == ToSet(v) \cup ToSet(w)
<1>1. v \in Seq(S) /\ w \in Seq(S)
  BY SeqMonotonic DEF AcList
<1> HIDE DEF S
<1>2. /\ v \o w \in Seq(S) /\ Len(v \o w) = Len(v) + Len(w)
      /\ \A i \in 1 .. Len(v) + Len(w) : (v \o w)[i] = IF i <= Len(v) THEN v[i] ELSE w[i - Len(v)]
  BY <1>1, ConcatProperties, Zenon
<1>3. AcList(v \o w)
  BY <1>2, AcSeqIsList, Zenon
<1>4. DOMAIN (v \o w) = 1 .. Len(v \o w)
  BY <1>3, AcListIs, Zenon
<1> QED
  BY <1>2, <1>3, <1>4, Zenon

\* What it means that a list has the elements of two others in turn
AcMixed(u, v, w) ==
    /\ AcList(u) /\ Len(u) = 2 * Len(v) /\ DOMAIN u = 1 .. 2 * Len(v)
    /\ \A i \in DOMAIN v : u[2 * i - 1] = v[i] /\ u[2 * i] = w[i]
    /\ \A k \in DOMAIN u : \E i \in DOMAIN v :
          \/ k = 2 * i - 1 /\ u[k] = v[i]
          \/ k = 2 * i /\ u[k] = w[i]

\* AcInTurn takes from both lists in turn.
LEMMA AcInTurnIs ==
  ASSUME NEW v, NEW w, AcList(v), AcList(w), Len(v) = Len(w), NEW u, u = AcInTurn(v, w)
  PROVE  AcMixed(u, v, w)
<1> DEFINE n == Len(v)  S == ToSet(v) \cup ToSet(w)
<1>1. n \in Nat /\ DOMAIN v = 1 .. n /\ DOMAIN w = 1 .. n
  BY AcListIs
<1>2. ASSUME NEW k \in 1 .. 2 * n
      PROVE  \E i \in 1 .. n : \/ k = 2 * i - 1 /\ u[k] = v[i] /\ v[i] \in S
                               \/ k = 2 * i /\ u[k] = w[i] /\ w[i] \in S
  <2>1. CASE k % 2 = 1
    <3>1. (k + 1) \div 2 \in 1 .. n /\ k = 2 * ((k + 1) \div 2) - 1
      BY <1>1, <2>1
    <3>2. u[k] = v[(k + 1) \div 2] /\ v[(k + 1) \div 2] \in S
      BY <1>1, <2>1, <3>1 DEF AcInTurn, ToSet
    <3> QED
      BY <3>1, <3>2
  <2>2. CASE k % 2 # 1
    <3>1. k \div 2 \in 1 .. n /\ k = 2 * (k \div 2)
      BY <1>1, <2>2
    <3>2. u[k] = w[k \div 2] /\ w[k \div 2] \in S
      BY <1>1, <2>2, <3>1 DEF AcInTurn, ToSet
    <3> QED
      BY <3>1, <3>2
  <2> QED
    BY <2>1, <2>2
<1>3. u \in [1 .. 2 * n -> S] /\ DOMAIN u = 1 .. 2 * n
  <2>1. \A k \in 1 .. 2 * n : u[k] \in S
    BY <1>2
  <2> QED
    BY <2>1 DEF AcInTurn
<1>4. u \in Seq(S) /\ Len(u) = 2 * n
  BY <1>1, <1>3, SeqDef
<1>5. AcList(u)
  BY <1>4, AcSeqIsList, Zenon
<1>6. ASSUME NEW i \in 1 .. n PROVE u[2 * i - 1] = v[i] /\ u[2 * i] = w[i]
  <2>1. /\ 2 * i - 1 \in 1 .. 2 * n /\ 2 * i \in 1 .. 2 * n /\ (2 * i - 1) % 2 = 1 /\ (2 * i) % 2 = 0
        /\ (2 * i - 1 + 1) \div 2 = i /\ (2 * i) \div 2 = i
    BY <1>1
  <2> QED
    BY <2>1 DEF AcInTurn
<1> HIDE DEF S, n
<1>7. ASSUME NEW k \in DOMAIN u
      PROVE  \E i \in DOMAIN v : \/ k = 2 * i - 1 /\ u[k] = v[i]
                                 \/ k = 2 * i /\ u[k] = w[i]
  <2>1. k \in 1 .. 2 * n
    BY <1>3
  <2>2. PICK i \in 1 .. n :
           \/ k = 2 * i - 1 /\ u[k] = v[i] /\ v[i] \in S
           \/ k = 2 * i /\ u[k] = w[i] /\ w[i] \in S
    BY <1>2, <2>1
  <2> QED
    BY <1>1, <2>2 DEF n
<1>8. \A i \in DOMAIN v : u[2 * i - 1] = v[i] /\ u[2 * i] = w[i]
  BY <1>1, <1>6
<1> QED
  BY <1>3, <1>4, <1>5, <1>7, <1>8, Zenon DEF AcMixed, n

\* What is done at the beginning, for each of a list, and at the end
AcAround(w, a, mid, z) ==
    /\ AcList(w) /\ Len(a) \in Nat /\ Len(mid) \in Nat /\ Len(z) \in Nat
    /\ Len(w) = Len(a) + Len(mid) + Len(z) /\ DOMAIN w = 1 .. (Len(a) + Len(mid) + Len(z))
    /\ \A k \in 1 .. Len(a) : w[k] = a[k] /\ k \in DOMAIN w
    /\ \A k \in 1 .. Len(mid) : w[k + Len(a)] = mid[k] /\ k + Len(a) \in DOMAIN w
    /\ \A k \in 1 .. Len(z) : w[k + Len(a) + Len(mid)] = z[k] /\ k + Len(a) + Len(mid) \in DOMAIN w
    /\ \A k \in DOMAIN w : \/ k \in 1 .. Len(a) /\ w[k] = a[k]
                           \/ k - Len(a) \in 1 .. Len(mid) /\ w[k] = mid[k - Len(a)]
                           \/ k - Len(a) - Len(mid) \in 1 .. Len(z) /\ w[k] = z[k - Len(a) - Len(mid)]

\* Three lists, one after the other
LEMMA AcAroundIs ==
  ASSUME NEW a, NEW mid, NEW z, AcList(a), AcList(mid), AcList(z), NEW w, w = (a \o mid) \o z
  PROVE  AcAround(w, a, mid, z)
<1> DEFINE i == Len(a)  m == Len(mid)  n == Len(z)  v == a \o mid
<1>1. i \in Nat /\ m \in Nat /\ n \in Nat
  BY AcListIs, Zenon
<1>2. /\ AcList(v) /\ Len(v) = i + m /\ DOMAIN v = 1 .. (i + m)
      /\ \A k \in 1 .. (i + m) : v[k] = IF k <= i THEN a[k] ELSE mid[k - i]
  BY AcConcatIs, Zenon
<1> HIDE DEF v
<1>3. /\ AcList(v \o z) /\ Len(v \o z) = Len(v) + n /\ DOMAIN (v \o z) = 1 .. (Len(v) + n)
      /\ \A k \in DOMAIN (v \o z) : (v \o z)[k] = IF k <= Len(v) THEN v[k] ELSE z[k - Len(v)]
  BY <1>2, AcConcatIs, Zenon
<1>4. w = v \o z
  BY DEF v
<1> HIDE DEF i, m, n
<1>5. /\ AcList(w) /\ Len(w) = i + m + n /\ DOMAIN w = 1 .. (i + m + n)
      /\ \A k \in 1 .. (i + m + n) : w[k] = IF k <= i + m THEN v[k] ELSE z[k - (i + m)]
  BY <1>1, <1>2, <1>3, <1>4
<1>6. \A k \in 1 .. i : w[k] = a[k] /\ k \in DOMAIN w
  BY <1>1, <1>2, <1>5
<1>7. \A k \in 1 .. m : w[k + i] = mid[k] /\ k + i \in DOMAIN w
  <2> SUFFICES ASSUME NEW k \in 1 .. m PROVE w[k + i] = mid[k] /\ k + i \in DOMAIN w
    OBVIOUS
  <2>1. k + i \in 1 .. (i + m) /\ ~(k + i <= i) /\ (k + i) - i = k
    BY <1>1
  <2>2. v[k + i] = mid[k]
    BY <1>2, <2>1
  <2> QED
    BY <1>1, <1>5, <2>1, <2>2
<1>8. \A k \in 1 .. n : w[k + i + m] = z[k] /\ k + i + m \in DOMAIN w
  <2> SUFFICES ASSUME NEW k \in 1 .. n PROVE w[k + i + m] = z[k] /\ k + i + m \in DOMAIN w
    OBVIOUS
  <2>1. k + i + m \in 1 .. (i + m + n) /\ ~(k + i + m <= i + m) /\ (k + i + m) - (i + m) = k
    BY <1>1
  <2> QED
    BY <1>5, <2>1
<1>9. \A k \in DOMAIN w : \/ k \in 1 .. i /\ w[k] = a[k]
                          \/ k - i \in 1 .. m /\ w[k] = mid[k - i]
                          \/ k - i - m \in 1 .. n /\ w[k] = z[k - i - m]
  <2> SUFFICES ASSUME NEW k \in DOMAIN w
               PROVE  \/ k \in 1 .. i /\ w[k] = a[k]
                      \/ k - i \in 1 .. m /\ w[k] = mid[k - i]
                      \/ k - i - m \in 1 .. n /\ w[k] = z[k - i - m]
    OBVIOUS
  <2>1. CASE k <= i
    <3>1. k \in 1 .. i
      BY <1>1, <1>5, <2>1
    <3> QED
      BY <1>6, <3>1
  <2>2. CASE k > i /\ k <= i + m
    <3>1. k - i \in 1 .. m /\ (k - i) + i = k
      BY <1>1, <1>5, <2>2
    <3> QED
      BY <1>7, <3>1
  <2>3. CASE k > i + m
    <3>1. k - i - m \in 1 .. n /\ (k - i - m) + i + m = k
      BY <1>1, <1>5, <2>3
    <3> QED
      BY <1>8, <3>1
  <2>4. k <= i \/ (k > i /\ k <= i + m) \/ k > i + m
    BY <1>1, <1>5
  <2> QED
    BY <2>1, <2>2, <2>3, <2>4, Zenon
<1> QED
  BY <1>1, <1>5, <1>6, <1>7, <1>8, <1>9, Zenon DEF AcAround, i, m, n
---------------------------------------------------------------------------
(* The setup *)

\* What AcAssumption says of the setup that was chosen
LEMMA AcFixedIs ==
  ASSUME AcTypeOK
  PROVE  /\ IsFiniteSet(AcTasks) /\ AcControl \notin AcTasks
         /\ \A s \in AcTasks : LET libs == acStreams[s].libs IN
               /\ AcList(libs) /\ \A i, j \in DOMAIN libs : libs[i] = libs[j] => i = j
               /\ acStreams[s].way \in {"ul", "dl", "both"}
         /\ \A s, u \in AcTasks : \A l \in ToSet(acStreams[s].libs) \cap AcReserve,
                                     m \in ToSet(acStreams[u].libs) \cap AcReserve :
               <<s, l>> = <<u, m>> \/ {acStreams[s].way, acStreams[u].way} = {"ul", "dl"}
         /\ \A c \in acCommands :
               /\ AcList(c.libs) /\ AcList(c.scenarios)
               /\ c.kind \in {"log", "dump", "apply", "get"} /\ c.enable \in BOOLEAN
<1>1. PICK setup \in AcSetups : acStreams = setup.streams /\ acCommands = setup.commands
  BY DEF AcTypeOK
<1>2. IsFiniteSet(DOMAIN acStreams) /\ AcControl \notin DOMAIN acStreams
  BY <1>1, AcAssumption, Zenon DEF AcAssumption
<1>3. \A s \in DOMAIN acStreams :
          /\ acStreams[s].libs \in Seq(ToSet(acStreams[s].libs)) /\ IsInjective(acStreams[s].libs)
          /\ acStreams[s].way \in {"ul", "dl", "both"}
  BY <1>1, AcAssumption, Zenon DEF AcAssumption
<1>4. \A s, u \in DOMAIN acStreams :
          \A l \in ToSet(acStreams[s].libs) \cap AcReserve, m \in ToSet(acStreams[u].libs) \cap AcReserve :
          <<s, l>> = <<u, m>> \/ {acStreams[s].way, acStreams[u].way} = {"ul", "dl"}
  <2> SUFFICES ASSUME NEW s \in DOMAIN acStreams, NEW u \in DOMAIN acStreams,
                      NEW l \in ToSet(acStreams[s].libs) \cap AcReserve,
                      NEW m \in ToSet(acStreams[u].libs) \cap AcReserve
               PROVE  <<s, l>> = <<u, m>> \/ {acStreams[s].way, acStreams[u].way} = {"ul", "dl"}
    OBVIOUS
  <2> QED
    BY <1>1, AcAssumption DEF AcAssumption
<1>5. \A c \in acCommands :
          /\ c.libs \in Seq(ToSet(c.libs)) /\ c.scenarios \in Seq(ToSet(c.scenarios))
          /\ c.kind \in {"log", "dump", "apply", "get"} /\ c.enable \in BOOLEAN
  BY <1>1, AcAssumption, Zenon DEF AcAssumption
<1>6. \A s \in DOMAIN acStreams : \A i, j \in DOMAIN acStreams[s].libs :
          acStreams[s].libs[i] = acStreams[s].libs[j] => i = j
  BY <1>3, Zenon DEF IsInjective
<1> QED
  BY <1>2, <1>3, <1>4, <1>5, <1>6, Zenon DEF AcList, AcTasks

\* A handler is a stream with one of its libraries.
LEMMA AcHandlersAre ==
  ASSUME AcTypeOK
  PROVE  /\ \A h \in AcHandlers : /\ h[1] \in AcTasks /\ h \in AcOf(h[1]) /\ h = <<h[1], h[2]>>
                                  /\ h[2] \in ToSet(acStreams[h[1]].libs)
         /\ \A s \in AcTasks : AcOf(s) = {<<s, l>> : l \in ToSet(acStreams[s].libs)}
                               /\ AcOf(s) \subseteq AcHandlers
         /\ \A s : \A h \in AcOf(s) : h[1] = s /\ h \in AcHandlers
<1>1. \A h \in AcHandlers : \E s \in AcTasks : \E l \in ToSet(acStreams[s].libs) : h = <<s, l>>
  BY DEF AcHandlers
<1>2. \A s \in AcTasks : \A l \in ToSet(acStreams[s].libs) : <<s, l>> \in AcHandlers
  BY DEF AcHandlers
<1> QED
  BY <1>1, <1>2 DEF AcOf

\* The list of a stream's handlers names each of them once.
LEMMA AcOwnIs ==
  ASSUME AcTypeOK, NEW s \in AcTasks
  PROVE  /\ AcList(AcOwn(s)) /\ DOMAIN AcOwn(s) = 1 .. Len(AcOwn(s))
         /\ \A k \in DOMAIN AcOwn(s) : AcOwn(s)[k] \in AcOf(s)
         /\ \A h \in AcOf(s) : \E k \in DOMAIN AcOwn(s) : AcOwn(s)[k] = h
         /\ \A j, k \in DOMAIN AcOwn(s) : AcOwn(s)[j] = AcOwn(s)[k] => j = k
<1> DEFINE libs == acStreams[s].libs
<1>1. AcList(libs) /\ \A i, j \in DOMAIN libs : libs[i] = libs[j] => i = j
  BY AcFixedIs
<1>2. Len(libs) \in Nat /\ DOMAIN libs = 1 .. Len(libs)
  BY <1>1, AcListIs, Zenon
<1>3. AcOf(s) = {<<s, l>> : l \in ToSet(libs)}
  BY AcHandlersAre
<1>4. /\ DOMAIN AcOwn(s) = 1 .. Len(libs)
      /\ \A k \in 1 .. Len(libs) : AcOwn(s)[k] = <<s, libs[k]>> /\ AcOwn(s)[k] \in AcOf(s)
  BY <1>2, <1>3 DEF AcOwn, ToSet
<1>5. AcOwn(s) \in [1 .. Len(libs) -> AcOf(s)]
  BY <1>4 DEF AcOwn
<1>6. AcOwn(s) \in Seq(AcOf(s)) /\ Len(AcOwn(s)) = Len(libs)
  BY <1>2, <1>5, SeqDef
<1>7. AcList(AcOwn(s))
  BY <1>6, AcSeqIsList, Zenon
<1> HIDE DEF libs
<1>8. \A h \in AcOf(s) : \E k \in DOMAIN AcOwn(s) : AcOwn(s)[k] = h
  BY <1>2, <1>3, <1>4 DEF ToSet
<1>9. \A j, k \in DOMAIN AcOwn(s) : AcOwn(s)[j] = AcOwn(s)[k] => j = k
  BY <1>1, <1>2, <1>4
<1> QED
  BY <1>4, <1>6, <1>7, <1>8, <1>9

\* There are finitely many handlers.
LEMMA AcHandlersFinite ==
  ASSUME AcTypeOK
  PROVE  IsFiniteSet(AcHandlers)
<1>1. IsFiniteSet(AcTasks)
  BY AcFixedIs
<1> DEFINE Family == {AcOf(s) : s \in AcTasks}
<1>2. IsFiniteSet(Family)
  <2> DEFINE f == [s \in AcTasks |-> AcOf(s)]
  <2>1. f \in Surjection(AcTasks, Family)
    BY DEF Surjection
  <2> QED
    BY <1>1, <2>1, FS_Surjection, Zenon
<1>3. ASSUME NEW s \in AcTasks PROVE IsFiniteSet(AcOf(s))
  <2>1. Len(AcOwn(s)) \in Nat /\ DOMAIN AcOwn(s) = 1 .. Len(AcOwn(s))
    BY AcOwnIs, AcListIs, Zenon
  <2>2. AcOwn(s) \in [1 .. Len(AcOwn(s)) -> AcOf(s)]
    BY <2>1, AcOwnIs DEF AcOwn
  <2>3. AcOwn(s) \in Surjection(1 .. Len(AcOwn(s)), AcOf(s))
    BY <2>1, <2>2, AcOwnIs, Zenon DEF Surjection
  <2>4. IsFiniteSet(1 .. Len(AcOwn(s)))
    BY <2>1, FS_Interval
  <2> QED
    BY <2>3, <2>4, FS_Surjection, Zenon
<1>4. AcHandlers = UNION Family
  BY AcHandlersAre
<1> HIDE DEF Family
<1>5. \A T \in Family : IsFiniteSet(T)
  BY <1>3 DEF Family
<1> QED
  BY <1>2, <1>4, <1>5, FS_UNION, Zenon

\* A list of a set of handlers
LEMMA AcSetToSeqIs ==
  ASSUME AcTypeOK, NEW H \in SUBSET AcHandlers
  PROVE  /\ AcList(SetToSeq(H)) /\ \A k \in DOMAIN SetToSeq(H) : SetToSeq(H)[k] \in H
         /\ \A h \in H : \E k \in DOMAIN SetToSeq(H) : SetToSeq(H)[k] = h
<1> DEFINE n == Cardinality(H)  q == SetToSeq(H)
<1>1. IsFiniteSet(H)
  BY AcHandlersFinite, FS_Subset
<1>2. n \in Nat /\ ExistsBijection(1 .. n, H)
  BY <1>1, FS_CardinalityType
<1>3. PICK g : g \in Bijection(1 .. n, H)
  BY <1>2 DEF ExistsBijection
<1>4. g \in [1 .. n -> H] /\ IsInjective(g)
  BY <1>3 DEF Bijection, Injection, IsInjective
<1>5. q \in [1 .. n -> H] /\ IsInjective(q)
  BY <1>4 DEF SetToSeq
<1>6. IsFiniteSet(1 .. n) /\ Cardinality(1 .. n) = n
  BY <1>2, FS_Interval
<1>7. q \in Injection(1 .. n, H)
  BY <1>5 DEF IsInjective, Injection
<1>8. q \in Surjection(1 .. n, H)
  BY <1>1, <1>6, <1>7, FS_Injection, Zenon
<1>9. q \in Seq(H)
  BY <1>2, <1>5, SeqDef
<1>10. AcList(q)
  BY <1>9, AcSeqIsList, Zenon
<1> QED
  BY <1>5, <1>8, <1>10 DEF Surjection
---------------------------------------------------------------------------
(* What is left of a call after its first step *)

\* Locks of different kinds, or of different owners, differ.
LEMMA AcLocksDiffer ==
  /\ \A g, h : AcLockOf(g) = AcLockOf(h) => g = h
  /\ \A g, s : AcLockOf(g) # AcManagerLock(s)
  /\ \A g : /\ AcLockOf(g) # AcCtl /\ AcLockOf(g) # <<"controllers">>
            /\ AcLockOf(g) # <<"managers">> /\ AcLockOf(g) # <<"handlers">>
            /\ AcManagerLock(g) # AcCtl /\ AcManagerLock(g) # <<"managers">>
            /\ AcManagerLock(g) # <<"handlers">>
  /\ \A g, s : AcManagerLock(g) = AcManagerLock(s) => g = s
  /\ AcCtl # <<"controllers">> /\ AcCtl # <<"managers">> /\ AcCtl # <<"handlers">>
BY DEF AcLockOf, AcManagerLock, AcCtl

\* What is left of a stream's call has its shape still.
LEMMA AcTailShape ==
  ASSUME NEW s, NEW stage, NEW w, AcList(w), w # <<>>, AcShape(s, stage, w)
  PROVE  AcShape(s, stage, Tail(w))
<1>1. /\ Len(w) \in Nat \ {0} /\ DOMAIN w = 1 .. Len(w) /\ Len(Tail(w)) = Len(w) - 1
      /\ DOMAIN Tail(w) = 1 .. (Len(w) - 1)
      /\ \A k \in DOMAIN Tail(w) : Tail(w)[k] = w[k + 1] /\ k + 1 \in DOMAIN w
      /\ Tail(w) # <<>> => Tail(w)[Len(Tail(w))] = w[Len(w)]
      /\ Tail(w) = <<>> => Len(w) = 1
  BY AcTailIs, AcListIs, Zenon
<1>2. \A k \in DOMAIN Tail(w) : AcStreamStep(s, stage, Tail(w)[k])
  BY <1>1 DEF AcShape
<1>3. AcStreamOrder(Tail(w))
  <2>1. \A k \in DOMAIN Tail(w) :
          /\ AcIsLock(Tail(w)[k], AcCtl) => k = 1
          /\ Tail(w)[k].do = "end" => k = Len(Tail(w))
          /\ Tail(w)[k].do \in {"create", "free"} => k + 1 = Len(Tail(w))
    BY <1>1 DEF AcShape, AcStreamOrder
  <2>2. \A j, k \in DOMAIN Tail(w) :
          Tail(w)[j].do = "unlink" /\ j < k => ~AcUses(Tail(w)[k], Tail(w)[j].on)
    BY <1>1 DEF AcShape, AcStreamOrder
  <2>3. ASSUME NEW k \in DOMAIN Tail(w), Tail(w)[k].do \in {"create", "free", "unlink", "unmake"}
        PROVE  Tail(w)[Len(Tail(w))].do = "end"
    BY <1>1, <2>3 DEF AcShape, AcStreamOrder
  <2> QED
    BY <2>1, <2>2, <2>3, Zenon DEF AcStreamOrder
<1>4. stage \in {"away", "ending"} /\ Tail(w) # <<>> => Tail(w)[Len(Tail(w))].do = "end"
  BY <1>1 DEF AcShape
<1> QED
  BY <1>2, <1>3, <1>4 DEF AcShape

\* What is left after a step is what was left but for the step.
LEMMA AcTailLeft ==
  ASSUME NEW w, AcList(w), w # <<>>, NEW do, NEW on
  PROVE  /\ AcLeft(Tail(w), do, on) => AcLeft(w, do, on)
         /\ AcLeft(w, do, on) => AcLeft(Tail(w), do, on) \/ (w[1].do = do /\ w[1].on = on)
<1>1. /\ Len(w) \in Nat \ {0} /\ DOMAIN w = 1 .. Len(w)
      /\ DOMAIN Tail(w) = 1 .. (Len(w) - 1)
      /\ \A k \in DOMAIN Tail(w) : Tail(w)[k] = w[k + 1] /\ k + 1 \in DOMAIN w
  BY AcTailIs, AcListIs, Zenon
<1>2. ASSUME NEW k \in DOMAIN w, k # 1
      PROVE  k - 1 \in DOMAIN Tail(w) /\ Tail(w)[k - 1] = w[k]
  BY <1>1, <1>2
<1> QED
  BY <1>1, <1>2 DEF AcLeft

\* What a step of a stream uses is of that stream.
LEMMA AcUsesOwn ==
  ASSUME AcTypeOK, NEW s \in AcTasks, NEW stage, NEW step, AcStreamStep(s, stage, step),
         NEW h \in AcHandlers, AcUses(step, h)
  PROVE  h \in AcOf(s)
<1>1. step.do # "run"
  BY DEF AcStreamStep
<1>2. CASE step.do \in AcWorksOn
  BY <1>1, <1>2 DEF AcStreamStep, AcUses, AcWorksOn
<1>3. CASE step.do \notin AcWorksOn
  <2>1. step.do = "lock" /\ step.on = AcLockOf(h)
    BY <1>1, <1>3 DEF AcUses, AcWorksOn
  <2>2. \E g \in AcOf(s) : step.on = AcLockOf(g)
    BY <2>1, AcLocksDiffer DEF AcStreamStep
  <2> QED
    BY <2>1, <2>2, AcLocksDiffer, Zenon
<1> QED
  BY <1>2, <1>3

\* The setup stays.
LEMMA AcSame ==
  ASSUME acStreams' = acStreams, acCommands' = acCommands
  PROVE  /\ AcTasks' = AcTasks /\ AcHandlers' = AcHandlers /\ AcComponents' = AcComponents
         /\ \A s : AcOf(s)' = AcOf(s) /\ AcOwn(s)' = AcOwn(s)
         /\ \A h : AcComponentOf(h)' = AcComponentOf(h) /\ AcRegions(h)' = AcRegions(h)
<1>1. AcTasks' = AcTasks
  BY DEF AcTasks
<1>2. AcHandlers' = AcHandlers
  BY <1>1 DEF AcHandlers
<1>3. \A h : AcComponentOf(h)' = AcComponentOf(h) /\ AcRegions(h)' = AcRegions(h)
  BY DEF AcComponentOf, AcRegions
<1>4. AcComponents' = AcComponents
  BY <1>2, <1>3 DEF AcComponents
<1>5. \A s : AcOf(s)' = AcOf(s) /\ AcOwn(s)' = AcOwn(s)
  BY <1>2 DEF AcOf, AcOwn
<1> QED
  BY <1>1, <1>2, <1>3, <1>4, <1>5

\* The shape depends on the setup only.
LEMMA AcShapeSame ==
  ASSUME acStreams' = acStreams, acCommands' = acCommands, NEW s
  PROVE  AcShape(s, acStage[s], acWork[s])' <=> AcShape(s, acStage'[s], acWork'[s])
<1>1. AcOf(s)' = AcOf(s)
  BY AcSame
<1>2. \A stage, step : AcStreamStep(s, stage, step)' <=> AcStreamStep(s, stage, step)
  BY <1>1 DEF AcStreamStep, AcLockOf, AcManagerLock, AcCtl, AcWorksOn
<1>3. \A w : AcStreamOrder(w)' <=> AcStreamOrder(w)
  BY DEF AcStreamOrder
<1> QED
  BY <1>2, <1>3 DEF AcShape

\* A stream that is not touched
LEMMA AcOtherStream ==
  ASSUME AcTypeOK, NEW u \in AcTasks, AcStreamFits(u),
         acStreams' = acStreams, acCommands' = acCommands,
         acStage'[u] = acStage[u], acWork'[u] = acWork[u], u \in acManagers' <=> u \in acManagers,
         \A h \in AcOf(u) : /\ acHandler'[h].there = acHandler[h].there
                            /\ acHandler'[h].arsi = acHandler[h].arsi
  PROVE  AcStreamFits(u)'
<1> USE DEF AcStreamFits
<1>1. AcShape(u, acStage[u], acWork[u])'
  BY AcShapeSame
<1>2. AcOf(u)' = AcOf(u) /\ AcHandlers' = AcHandlers
  BY AcSame
<1>3. AcStands(u)'
  BY <1>2 DEF AcStands, AcLeft
<1>4. AcSafe(u)'
  <2>1. ASSUME NEW k \in DOMAIN acWork[u], NEW h \in AcHandlers, AcUses(acWork[u][k], h)
        PROVE  acHandler'[h].there
    <3>1. h \in AcOf(u)
      BY <2>1, AcUsesOwn DEF AcShape
    <3> QED
      BY <2>1, <3>1 DEF AcSafe
  <2> QED
    BY <1>2, <2>1 DEF AcSafe, AcUses, AcLockOf, AcIsLock, AcManagerLock
<1> QED
  BY <1>1, <1>3, <1>4
---------------------------------------------------------------------------
(* The steps of a stream keep what is said of it. *)

\* A task goes on: its list is shorter, the others are the same.
LEMMA AcGoesOnIs ==
  ASSUME AcTypeOK, NEW t \in AcTasks \cup {AcControl}, acWork[t] # <<>>,
         AcGoesOn(t) \/ acWork' = [acWork EXCEPT ![t] = Tail(@)]
  PROVE  /\ acWork'[t] = Tail(acWork[t]) /\ DOMAIN acWork' = DOMAIN acWork
         /\ \A u \in (AcTasks \cup {AcControl}) \ {t} : acWork'[u] = acWork[u]
         /\ \A u \in AcTasks \cup {AcControl} : AcList(acWork'[u])
         /\ AcGoesOn(t) => acHeld' = acHeld \ acWork[t][1].frees
<1>1. AcList(acWork[t]) /\ AcList(Tail(acWork[t])) /\ Head(acWork[t]) = acWork[t][1]
  BY AcTailIs, AcListIs, Zenon DEF AcTypeOK
<1>2. <<>> \o Tail(acWork[t]) = Tail(acWork[t])
  BY <1>1, ConcatEmptySeq DEF AcList
<1>3. acWork' = [acWork EXCEPT ![t] = Tail(acWork[t])]
  BY <1>2 DEF AcGoesOn, AcThen
<1> QED
  BY <1>1, <1>3 DEF AcTypeOK, AcGoesOn, AcThen

\* A step that is not an end keeps the shape of what is left.
LEMMA AcShapeGoes ==
  ASSUME AcTypeOK, NEW s \in AcTasks, AcStreamFits(s), acWork[s] # <<>>,
         acStreams' = acStreams, acCommands' = acCommands,
         acStage'[s] = acStage[s], acWork'[s] = Tail(acWork[s])
  PROVE  AcShape(s, acStage[s], acWork[s])'
<1>1. AcList(acWork[s])
  BY DEF AcTypeOK
<1>2. AcShape(s, acStage[s], Tail(acWork[s]))
  BY <1>1, AcTailShape DEF AcStreamFits
<1> QED
  BY <1>2, AcShapeSame

\* What is left says the same of the next state.
LEMMA AcLeftPrime ==
  ASSUME NEW s
  PROVE  \A do, on : AcLeft(acWork[s], do, on)' <=> AcLeft(acWork'[s], do, on)
BY DEF AcLeft

\* Steps after which each handler is there that was there, and the manager is
LEMMA AcSafeGoes ==
  ASSUME AcTypeOK, NEW s \in AcTasks, AcStreamFits(s), acWork[s] # <<>>,
         acStreams' = acStreams, acCommands' = acCommands, acWork'[s] = Tail(acWork[s]),
         s \in acManagers => s \in acManagers',
         \A h \in AcOf(s) : acHandler[h].there => acHandler'[h].there
  PROVE  AcSafe(s)'
<1>1. /\ DOMAIN Tail(acWork[s]) = 1 .. (Len(acWork[s]) - 1)
      /\ \A k \in DOMAIN Tail(acWork[s]) :
            Tail(acWork[s])[k] = acWork[s][k + 1] /\ k + 1 \in DOMAIN acWork[s]
  BY AcTailIs, Zenon DEF AcTypeOK
<1>2. ASSUME NEW k \in DOMAIN acWork[s], NEW h \in AcHandlers, AcUses(acWork[s][k], h)
      PROVE  acHandler'[h].there
  <2>1. h \in AcOf(s)
    BY <1>2, AcUsesOwn DEF AcStreamFits, AcShape
  <2> QED
    BY <1>2, <2>1 DEF AcStreamFits, AcSafe
<1>3. AcHandlers' = AcHandlers
  BY AcSame
<1> QED
  BY <1>1, <1>2, <1>3 DEF AcStreamFits, AcSafe, AcUses, AcLockOf, AcIsLock, AcManagerLock

\* A step that changes no handler keeps what is said of the stream.
LEMMA AcQuietFits ==
  ASSUME AcTypeOK, NEW s \in AcTasks, AcStreamFits(s), acWork[s] # <<>>,
         acStreams' = acStreams, acCommands' = acCommands,
         acStage'[s] = acStage[s], acWork'[s] = Tail(acWork[s]),
         acWork[s][1].do \in {"lock", "use", "move", "copy", "make"},
         acManagers' = acManagers,
         \A h \in AcOf(s) : /\ acHandler'[h].there = acHandler[h].there
                            /\ acWork[s][1].do # "make" => acHandler'[h].arsi = acHandler[h].arsi
  PROVE  AcStreamFits(s)'
<1> DEFINE w == acWork[s]
<1>0. AcOf(s)' = AcOf(s)
  BY AcSame
<1>1. AcShape(s, acStage[s], acWork[s])'
  BY AcShapeGoes
<1>2. AcSafe(s)'
  BY AcSafeGoes
<1>3. \A do, on : do \notin {"lock", "use", "move", "copy", "make"} => (AcLeft(Tail(w), do, on) <=> AcLeft(w, do, on))
  BY AcTailLeft DEF AcTypeOK
<1>4. acStage[s] \in {"away", "ending"} => Tail(w) # <<>>
  <2>1. Tail(w) = <<>> => Len(w) = 1
    BY AcTailIs, Zenon DEF AcTypeOK
  <2> QED
    BY <2>1 DEF AcStreamFits, AcShape
<1>5. acWork[s][1].do = "make" => acStage[s] = "made"
  <2>1. 1 \in DOMAIN w
    BY AcListIs, Zenon DEF AcTypeOK
  <2> QED
    BY <2>1 DEF AcStreamFits, AcShape, AcStreamStep
<1>6. \A v, do, on : AcLeft(v, do, on)' <=> AcLeft(v, do, on)
  BY DEF AcLeft
<1>7. AcStands(s)'
  <2>1. /\ AcLeft(acWork[s], "create", s)' <=> AcLeft(w, "create", s)
        /\ AcLeft(acWork[s], "end", "ending")' <=> AcLeft(w, "end", "ending")
        /\ AcLeft(acWork[s], "free", s)' <=> AcLeft(w, "free", s)
        /\ \A h : (AcLeft(acWork[s], "unmake", h)' <=> AcLeft(w, "unmake", h))
                  /\ (AcLeft(acWork[s], "unlink", h)' <=> AcLeft(w, "unlink", h))
    BY <1>3, AcLeftPrime, Zenon
  <2> QED
    BY <1>0, <1>4, <1>5, <2>1 DEF AcStreamFits, AcStands
<1> QED
  BY <1>1, <1>2, <1>7 DEF AcStreamFits

\* An instance that is destroyed was the one to be destroyed next.
LEMMA AcUnmakeFits ==
  ASSUME AcTypeOK, NEW s \in AcTasks, AcStreamFits(s), acWork[s] # <<>>,
         acStreams' = acStreams, acCommands' = acCommands,
         acStage'[s] = acStage[s], acWork'[s] = Tail(acWork[s]),
         acWork[s][1].do = "unmake", acManagers' = acManagers,
         \A h \in AcOf(s) : /\ acHandler'[h].there = acHandler[h].there
                            /\ acHandler'[h].arsi = (acHandler[h].arsi /\ h # acWork[s][1].on)
  PROVE  AcStreamFits(s)'
<1> DEFINE w == acWork[s]
<1>0. AcOf(s)' = AcOf(s)
  BY AcSame
<1>1. AcShape(s, acStage[s], acWork[s])'
  BY AcShapeGoes
<1>2. AcSafe(s)'
  BY AcSafeGoes
<1>3. \A do, on : do # "unmake" \/ on # w[1].on => (AcLeft(Tail(w), do, on) <=> AcLeft(w, do, on))
  BY AcTailLeft DEF AcTypeOK
<1>4. acStage[s] = "ready"
  <2>1. 1 \in DOMAIN w
    BY AcListIs, Zenon DEF AcTypeOK
  <2> QED
    BY <2>1 DEF AcStreamFits, AcShape, AcStreamStep
<1>5. /\ AcLeft(acWork[s], "end", "ending")' <=> AcLeft(w, "end", "ending")
      /\ \A h : h # w[1].on => (AcLeft(acWork[s], "unmake", h)' <=> AcLeft(w, "unmake", h))
  BY <1>3, AcLeftPrime, Zenon
<1>6. AcStands(s)'
  BY <1>0, <1>4, <1>5 DEF AcStreamFits, AcStands
<1> QED
  BY <1>1, <1>2, <1>6 DEF AcStreamFits

\* A handler that is freed is not used by what is left.
LEMMA AcUnlinkFits ==
  ASSUME AcTypeOK, NEW s \in AcTasks, AcStreamFits(s), acWork[s] # <<>>,
         acStreams' = acStreams, acCommands' = acCommands,
         acStage'[s] = acStage[s], acWork'[s] = Tail(acWork[s]),
         acWork[s][1].do = "unlink", acManagers' = acManagers,
         \A h \in AcOf(s) : /\ acHandler'[h].there = (acHandler[h].there /\ h # acWork[s][1].on)
                            /\ acHandler'[h].arsi = (acHandler[h].arsi /\ h # acWork[s][1].on)
  PROVE  AcStreamFits(s)'
<1> DEFINE w == acWork[s]
<1>0. AcOf(s)' = AcOf(s) /\ AcHandlers' = AcHandlers
  BY AcSame
<1>1. AcShape(s, acStage[s], acWork[s])'
  BY AcShapeGoes
<1>3. \A do, on : do # "unlink" \/ on # w[1].on => (AcLeft(Tail(w), do, on) <=> AcLeft(w, do, on))
  BY AcTailLeft DEF AcTypeOK
<1>4. acStage[s] = "ending" /\ Tail(w) # <<>>
  <2>1. 1 \in DOMAIN w /\ (Tail(w) = <<>> => Len(w) = 1)
    BY AcListIs, AcTailIs, Zenon DEF AcTypeOK
  <2> QED
    BY <2>1 DEF AcStreamFits, AcShape, AcStreamStep
<1>5. /\ AcLeft(acWork[s], "free", s)' <=> AcLeft(w, "free", s)
      /\ \A h : h # w[1].on => (AcLeft(acWork[s], "unlink", h)' <=> AcLeft(w, "unlink", h))
  BY <1>3, AcLeftPrime, Zenon
<1>6. AcStands(s)'
  BY <1>0, <1>4, <1>5 DEF AcStreamFits, AcStands
<1>7. AcSafe(s)'
  <2>1. /\ DOMAIN Tail(w) = 1 .. (Len(w) - 1) /\ Len(w) \in Nat \ {0} /\ DOMAIN w = 1 .. Len(w)
        /\ \A k \in DOMAIN Tail(w) : Tail(w)[k] = w[k + 1] /\ k + 1 \in DOMAIN w
    BY AcListIs, AcTailIs, Zenon DEF AcTypeOK
  <2>2. ASSUME NEW k \in DOMAIN Tail(w), NEW h \in AcHandlers, AcUses(Tail(w)[k], h)
        PROVE  acHandler'[h].there
    <3>1. k + 1 \in DOMAIN w /\ 1 \in DOMAIN w /\ 1 < k + 1 /\ AcUses(w[k + 1], h)
      BY <2>1, <2>2
    <3>2. h \in AcOf(s) /\ acHandler[h].there
      BY <3>1, AcUsesOwn DEF AcStreamFits, AcShape, AcSafe
    <3>3. h # w[1].on
      BY <3>1 DEF AcStreamFits, AcShape, AcStreamOrder
    <3> QED
      BY <3>2, <3>3
  <2> QED
    BY <1>0, <2>1, <2>2 DEF AcStreamFits, AcSafe, AcUses, AcLockOf, AcIsLock, AcManagerLock
<1> QED
  BY <1>1, <1>6, <1>7 DEF AcStreamFits

\* After its creation the manager is there with all its handlers.
LEMMA AcCreateFits ==
  ASSUME AcTypeOK, NEW s \in AcTasks, AcStreamFits(s), acWork[s] # <<>>,
         acStreams' = acStreams, acCommands' = acCommands,
         acStage'[s] = acStage[s], acWork'[s] = Tail(acWork[s]),
         acWork[s][1].do = "create", acManagers' = acManagers \cup {s},
         \A h \in AcOf(s) : acHandler'[h].there
  PROVE  AcStreamFits(s)'
<1> DEFINE w == acWork[s]
<1>0. AcOf(s)' = AcOf(s)
  BY AcSame
<1>1. AcShape(s, acStage[s], acWork[s])'
  BY AcShapeGoes
<1>2. AcSafe(s)'
  BY AcSafeGoes
<1>3. /\ 1 \in DOMAIN w /\ Len(w) \in Nat \ {0} /\ DOMAIN w = 1 .. Len(w)
      /\ DOMAIN Tail(w) = 1 .. (Len(w) - 1)
      /\ (Tail(w) = <<>> => Len(w) = 1)
      /\ \A k \in DOMAIN Tail(w) : Tail(w)[k] = w[k + 1] /\ k + 1 \in DOMAIN w
  BY AcListIs, AcTailIs, Zenon DEF AcTypeOK
<1>4. acStage[s] = "away" /\ Len(w) = 2 /\ w[2].do = "end"
  <2>1. acStage[s] = "away" /\ 1 + 1 = Len(w)
    BY <1>3 DEF AcStreamFits, AcShape, AcStreamStep, AcStreamOrder
  <2>2. w[Len(w)].do = "end"
    BY <1>3, Zenon DEF AcStreamFits, AcShape, AcStreamOrder
  <2> QED
    BY <2>1, <2>2
<1>5. Tail(w) # <<>> /\ ~AcLeft(Tail(w), "create", s)
  BY <1>3, <1>4 DEF AcLeft
<1>6. AcStands(s)'
  BY <1>0, <1>4, <1>5 DEF AcStands, AcLeft
<1> QED
  BY <1>1, <1>2, <1>6 DEF AcStreamFits

\* When the manager goes its handlers have gone.
LEMMA AcFreeFits ==
  ASSUME AcTypeOK, NEW s \in AcTasks, AcStreamFits(s), acWork[s] # <<>>,
         acStreams' = acStreams, acCommands' = acCommands,
         acStage'[s] = acStage[s], acWork'[s] = Tail(acWork[s]),
         acWork[s][1].do = "free", acHandler' = acHandler
  PROVE  AcStreamFits(s)'
<1> DEFINE w == acWork[s]
<1>0. AcOf(s)' = AcOf(s) /\ AcHandlers' = AcHandlers
  BY AcSame
<1>1. AcShape(s, acStage[s], acWork[s])'
  BY AcShapeGoes
<1>3. /\ 1 \in DOMAIN w /\ Len(w) \in Nat \ {0} /\ DOMAIN w = 1 .. Len(w)
      /\ DOMAIN Tail(w) = 1 .. (Len(w) - 1)
      /\ (Tail(w) = <<>> => Len(w) = 1)
      /\ \A k \in DOMAIN Tail(w) : Tail(w)[k] = w[k + 1] /\ k + 1 \in DOMAIN w
  BY AcListIs, AcTailIs, Zenon DEF AcTypeOK
<1>4. acStage[s] = "ending" /\ Len(w) = 2 /\ w[2].do = "end"
  <2>1. acStage[s] = "ending" /\ 1 + 1 = Len(w)
    BY <1>3 DEF AcStreamFits, AcShape, AcStreamStep, AcStreamOrder
  <2>2. w[Len(w)].do = "end"
    BY <1>3, Zenon DEF AcStreamFits, AcShape, AcStreamOrder
  <2> QED
    BY <2>1, <2>2
<1>5. \A k \in DOMAIN Tail(w) : Tail(w)[k].do = "end"
  BY <1>3, <1>4
<1>6. Tail(w) # <<>> /\ ~AcLeft(Tail(w), "free", s)
      /\ \A h \in AcOf(s) : AcLeft(w, "unlink", h) => AcLeft(Tail(w), "unlink", h)
  BY <1>3, <1>4, <1>5 DEF AcLeft
<1>7. AcStands(s)'
  BY <1>0, <1>4, <1>6 DEF AcStreamFits, AcStands, AcLeft
<1>8. AcSafe(s)'
  BY <1>0, <1>5 DEF AcSafe, AcUses, AcIsLock
<1> QED
  BY <1>1, <1>7, <1>8 DEF AcStreamFits

\* The end of a call is where the next stage begins.
LEMMA AcEndFits ==
  ASSUME AcTypeOK, NEW s \in AcTasks, AcStreamFits(s), acWork[s] # <<>>,
         acStreams' = acStreams, acCommands' = acCommands,
         acStage'[s] = acWork[s][1].on, acWork'[s] = Tail(acWork[s]),
         acWork[s][1].do = "end", acHandler' = acHandler, acManagers' = acManagers
  PROVE  AcStreamFits(s)' /\ acWork'[s] = <<>>
<1> DEFINE w == acWork[s]
<1>0. AcOf(s)' = AcOf(s) /\ AcHandlers' = AcHandlers
  BY AcSame
<1>1. /\ 1 \in DOMAIN w /\ Len(w) \in Nat \ {0} /\ DOMAIN w = 1 .. Len(w)
      /\ (Tail(w) # <<>> => Len(w) > 1)
  BY AcListIs, AcTailIs, Zenon DEF AcTypeOK
<1>2. AcStreamStep(s, acStage[s], w[1]) /\ Len(w) = 1
  BY <1>1 DEF AcStreamFits, AcShape, AcStreamOrder
<1>3. acWork'[s] = <<>> /\ DOMAIN acWork'[s] = {}
  <2>1. acWork'[s] = <<>>
    BY <1>1, <1>2
  <2>2. DOMAIN Tail(w) = 1 .. (Len(w) - 1)
    BY AcTailIs, Zenon DEF AcTypeOK
  <2> QED
    BY <1>1, <1>2, <2>1, <2>2
<1>4. AcShape(s, acStage'[s], acWork'[s])
  BY <1>3 DEF AcShape, AcStreamOrder
<1>5. \A do, on : AcLeft(w, do, on) <=> w[1].do = do /\ w[1].on = on
  BY <1>1, <1>2 DEF AcLeft
<1>6. \A do, on : ~AcLeft(<<>>, do, on)
  BY DEF AcLeft
<1>7. AcStands(s)'
  <2>1. acStage[s] = "away" => acStage'[s] = "made"
    BY <1>2 DEF AcStreamStep
  <2>2. acStage[s] = "made" => acStage'[s] = "ready"
    BY <1>2 DEF AcStreamStep
  <2>3. acStage[s] = "ready" => acStage'[s] \in {"ready", "ending"}
    BY <1>2 DEF AcStreamStep
  <2>4. acStage[s] = "ending" => acStage'[s] = "away"
    BY <1>2 DEF AcStreamStep
  <2>5. acStage[s] \in {"away", "made", "ready", "ending"}
    BY DEF AcTypeOK
  <2>6. w # <<>> /\ ~AcLeft(w, "create", s) /\ ~AcLeft(w, "free", s)
        /\ \A h : ~AcLeft(w, "unmake", h) /\ ~AcLeft(w, "unlink", h)
    BY <1>5
  <2>7. acStage'[s] = "ending" /\ acStage[s] = "ready" => AcLeft(w, "end", "ending")
    BY <1>5
  <2>8. \A do, on : ~AcLeft(acWork[s], do, on)'
    BY <1>3 DEF AcLeft
  <2>9. CASE acStage[s] = "away"
    BY <1>0, <1>3, <2>1, <2>6, <2>9 DEF AcStreamFits, AcStands, AcLeft
  <2>10. CASE acStage[s] = "made"
    BY <1>0, <1>3, <2>2, <2>6, <2>10 DEF AcStreamFits, AcStands, AcLeft
  <2>11. CASE acStage[s] = "ready"
    BY <1>0, <1>3, <2>3, <2>6, <2>7, <2>11 DEF AcStreamFits, AcStands, AcLeft
  <2>12. CASE acStage[s] = "ending"
    BY <1>0, <1>3, <2>4, <2>6, <2>12 DEF AcStreamFits, AcStands, AcLeft
  <2> QED
    BY <2>5, <2>9, <2>10, <2>11, <2>12
<1>8. AcSafe(s)'
  BY <1>3 DEF AcSafe
<1>9. AcShape(s, acStage[s], acWork[s])'
  BY <1>4, AcShapeSame
<1> QED
  BY <1>3, <1>7, <1>8, <1>9 DEF AcStreamFits
---------------------------------------------------------------------------
(* The calls of a stream *)

\* The steps on some handlers, each under its lock
LEMMA AcEachIs ==
  ASSUME NEW hs, AcList(hs), NEW do, NEW w, w = AcEach(hs, do)
  PROVE  /\ AcList(w)
         /\ \A k \in DOMAIN w : \E i \in DOMAIN hs :
               \/ k = 2 * i - 1 /\ w[k] = AcTakes(AcLockOf(hs[i]))
               \/ k = 2 * i /\ w[k] = AcDoes(do, hs[i], {AcLockOf(hs[i])})
         /\ \A i \in DOMAIN hs : AcLeft(w, do, hs[i])
<1> DEFINE n == Len(hs)  locks == AcTakesAll(hs)
           acts == [k \in DOMAIN hs |-> AcDoes(do, hs[k], {AcLockOf(hs[k])})]
<1>1. n \in Nat /\ DOMAIN hs = 1 .. n
  BY AcListIs, Zenon
<1>2. AcList(locks) /\ Len(locks) = n /\ DOMAIN locks = 1 .. n /\ \A i \in 1 .. n : locks[i] = AcTakes(AcLockOf(hs[i]))
  <2>1. locks \in [1 .. n -> {AcTakes(AcLockOf(hs[i])) : i \in 1 .. n}]
    BY <1>1 DEF AcTakesAll
  <2>2. locks \in Seq({AcTakes(AcLockOf(hs[i])) : i \in 1 .. n}) /\ Len(locks) = n
    BY <1>1, <2>1, SeqDef
  <2> QED
    BY <1>1, <2>1, <2>2, AcSeqIsList DEF AcTakesAll
<1>3. AcList(acts) /\ Len(acts) = n /\ \A i \in 1 .. n : acts[i] = AcDoes(do, hs[i], {AcLockOf(hs[i])})
  <2> DEFINE E == {AcDoes(do, hs[i], {AcLockOf(hs[i])}) : i \in 1 .. n}
  <2>1. acts \in [1 .. n -> E] /\ \A i \in 1 .. n : acts[i] = AcDoes(do, hs[i], {AcLockOf(hs[i])})
    BY <1>1
  <2> HIDE DEF E, acts
  <2>2. acts \in Seq(E) /\ Len(acts) = n
    BY <1>1, <2>1, SeqDef
  <2> QED
    BY <2>1, <2>2, AcSeqIsList
<1>4. w = AcInTurn(locks, acts)
  BY DEF AcEach
<1> HIDE DEF locks, acts
<1>5. /\ AcList(w) /\ DOMAIN w = 1 .. 2 * n
      /\ \A i \in DOMAIN locks : w[2 * i] = acts[i]
      /\ \A k \in DOMAIN w : \E i \in DOMAIN locks :
            \/ k = 2 * i - 1 /\ w[k] = locks[i]
            \/ k = 2 * i /\ w[k] = acts[i]
  <2>1. AcList(locks) /\ AcList(acts) /\ Len(locks) = Len(acts)
    BY <1>2, <1>3
  <2>2. AcMixed(w, locks, acts)
    BY <1>4, <2>1, AcInTurnIs, Zenon
  <2> QED
    BY <1>2, <2>2, Zenon DEF AcMixed
<1>6. ASSUME NEW i \in DOMAIN hs PROVE AcLeft(w, do, hs[i])
  <2>1. 2 * i \in DOMAIN w /\ w[2 * i] = AcDoes(do, hs[i], {AcLockOf(hs[i])})
    <3>1. i \in 1 .. n /\ 2 * i \in 1 .. 2 * n
      BY <1>1
    <3> QED
      BY <1>2, <1>3, <1>5, <3>1
  <2> QED
    BY <2>1 DEF AcLeft, AcDoes
<1>7. ASSUME NEW k \in DOMAIN w
      PROVE  \E i \in DOMAIN hs : \/ k = 2 * i - 1 /\ w[k] = AcTakes(AcLockOf(hs[i]))
                                  \/ k = 2 * i /\ w[k] = AcDoes(do, hs[i], {AcLockOf(hs[i])})
  BY <1>1, <1>2, <1>3, <1>5
<1> QED
  BY <1>5, <1>6, <1>7, Zenon

\* A call that begins in its stage fits the stream.
LEMMA AcStartFits ==
  ASSUME AcTypeOK, NEW s \in AcTasks, AcStreamFits(s), acWork[s] = <<>>,
         acStreams' = acStreams, acCommands' = acCommands,
         acStage'[s] = acStage[s], acHandler' = acHandler, acManagers' = acManagers,
         NEW w, acWork'[s] = w, acStage[s] \in {"away", "ending"} => w # <<>>, AcShape(s, acStage[s], w),
         acStage[s] = "away" => AcLeft(w, "create", s),
         acStage[s] = "ready" /\ AcLeft(w, "end", "ending") => \A h \in AcOf(s) : AcLeft(w, "unmake", h),
         acStage[s] = "ending" => \A h \in AcOf(s) : AcLeft(w, "unlink", h)
  PROVE  AcStreamFits(s)'
<1>0. AcOf(s)' = AcOf(s) /\ AcHandlers' = AcHandlers
  BY AcSame
<1>1. AcShape(s, acStage[s], acWork[s])'
  BY AcShapeSame
<1>2. \A do, on : AcLeft(acWork[s], do, on)' <=> AcLeft(w, do, on)
  BY AcLeftPrime
<1>3. AcStands(s)'
  <2>1. acStage[s] \in {"away", "made", "ready", "ending"}
    BY DEF AcTypeOK
  <2> QED
    BY <1>0, <1>2, <2>1 DEF AcStreamFits, AcStands
<1>4. acStage[s] # "away" => s \in acManagers /\ \A h \in AcOf(s) : acHandler[h].there
  BY DEF AcStreamFits, AcStands, AcTypeOK
<1>5. ASSUME NEW k \in DOMAIN w, NEW h \in AcHandlers, AcUses(w[k], h)
      PROVE  acHandler[h].there
  <2>1. h \in AcOf(s) /\ AcStreamStep(s, acStage[s], w[k])
    BY <1>5, AcUsesOwn DEF AcShape
  <2>2. acStage[s] # "away"
    BY <1>5, <2>1, AcLocksDiffer DEF AcStreamStep, AcUses
  <2> QED
    BY <1>4, <2>1, <2>2
<1>6. ASSUME NEW k \in DOMAIN w, AcIsLock(w[k], AcManagerLock(s))
      PROVE  s \in acManagers
  <2>1. AcStreamStep(s, acStage[s], w[k])
    BY DEF AcShape
  <2>2. acStage[s] # "away"
    BY <1>6, <2>1, AcLocksDiffer DEF AcStreamStep, AcIsLock
  <2> QED
    BY <1>4, <2>2
<1>7. AcSafe(s)'
  BY <1>0, <1>5, <1>6 DEF AcSafe, AcUses, AcLockOf, AcIsLock, AcManagerLock
<1> QED
  BY <1>1, <1>3, <1>7 DEF AcStreamFits

\* The call create_aurisys_lib_manager has the shape of stage away.
LEMMA AcCreationShape ==
  ASSUME NEW s,
         NEW w, w = <<AcTakes(<<"controller">>), AcTakes(<<"managers">>), AcDoes("create", s, {<<"managers">>}),
                      AcDoes("end", "made", {<<"controller">>})>>
  PROVE  /\ AcList(w) /\ w # <<>> /\ AcShape(s, "away", w) /\ AcLeft(w, "create", s)
         /\ AcIsLock(w[1], AcCtl)
<1>1. /\ DOMAIN w = 1 .. 4 /\ Len(w) = 4 /\ w # <<>> /\ w[1] = AcTakes(AcCtl) /\ w[2] = AcTakes(<<"managers">>)
      /\ w[3] = AcDoes("create", s, {<<"managers">>}) /\ w[4] = AcDoes("end", "made", {AcCtl})
  BY DEF AcCtl
<1>2. AcList(w)
  <2>1. w \in Seq({AcTakes(<<"controller">>), AcTakes(<<"managers">>), AcDoes("create", s, {<<"managers">>}),
                   AcDoes("end", "made", {<<"controller">>})})
    OBVIOUS
  <2> QED
    BY <2>1, AcSeqIsList, Zenon
<1>3. \A k \in DOMAIN w : k \in {1, 2, 3, 4}
  BY <1>1
<1>4. /\ AcStreamStep(s, "away", w[1]) /\ AcStreamStep(s, "away", w[2])
      /\ AcStreamStep(s, "away", w[3]) /\ AcStreamStep(s, "away", w[4])
  BY <1>1, AcLocksDiffer DEF AcStreamStep, AcTakes, AcDoes, AcWorksOn
<1>5. w[1].do = "lock" /\ w[2].do = "lock" /\ w[2].on # AcCtl /\ w[3].do = "create" /\ w[4].do = "end"
  BY <1>1, AcLocksDiffer DEF AcTakes, AcDoes
<1>6. AcStreamOrder(w)
  BY <1>1, <1>3, <1>5 DEF AcStreamOrder, AcIsLock
<1>7. AcLeft(w, "create", s)
  BY <1>1 DEF AcLeft, AcDoes
<1>8. AcIsLock(w[1], AcCtl)
  BY <1>1 DEF AcIsLock, AcTakes
<1> QED
  BY <1>1, <1>2, <1>3, <1>4, <1>5, <1>6, <1>7, <1>8 DEF AcShape

\* A call under the lock of the manager: its steps in between, and which it may be
AcManaged(w, s, mid, from, to) ==
    /\ AcList(w) /\ w # <<>> /\ AcShape(s, from, w)
    /\ \A d, on : AcLeft(mid, d, on) => AcLeft(w, d, on)
    /\ \A on : AcLeft(w, "end", on) => on = to
AcManagedCalls(do, from, to) ==
    \/ from = "made" /\ do = "make" /\ to = "ready"
    \/ from = "ready" /\ do = "use" /\ to = "ready"
    \/ from = "ready" /\ do = "unmake" /\ to = "ending"
AcOnOwn(s, mid, do) ==
    \A k \in DOMAIN mid : \E h \in AcOf(s) : \/ mid[k] = AcTakes(AcLockOf(h))
                                             \/ mid[k] = AcDoes(do, h, {AcLockOf(h)})

\* A call under the lock of the manager has the shape of its stage.
LEMMA AcManagedShape ==
  ASSUME NEW s, NEW do, NEW from, NEW to, NEW mid, AcList(mid), AcManagedCalls(do, from, to),
         AcOnOwn(s, mid, do), NEW w, w = AcInManager(s, mid, to)
  PROVE  AcManaged(w, s, mid, from, to)
<1> USE DEF AcManagedCalls, AcOnOwn
<1> DEFINE a == <<AcTakes(AcManagerLock(s))>>  z == <<AcDoes("end", to, {AcManagerLock(s)})>>
           n == Len(mid)
<1>1. AcList(a) /\ Len(a) = 1 /\ a[1] = AcTakes(AcManagerLock(s))
  <2>1. a \in Seq({AcTakes(AcManagerLock(s))})
    OBVIOUS
  <2> QED
    BY <2>1, AcSeqIsList
<1>2. AcList(z) /\ Len(z) = 1 /\ z[1] = AcDoes("end", to, {AcManagerLock(s)})
  <2>1. z \in Seq({AcDoes("end", to, {AcManagerLock(s)})})
    OBVIOUS
  <2> QED
    BY <2>1, AcSeqIsList
<1>3. w = (a \o mid) \o z
  BY DEF AcInManager
<1> HIDE DEF a, z
<1>4. n \in Nat /\ DOMAIN mid = 1 .. n
  BY AcListIs, Zenon
<1>5. /\ AcList(a \o mid) /\ Len(a \o mid) = n + 1 /\ DOMAIN (a \o mid) = 1 .. (n + 1)
      /\ \A k \in 1 .. (n + 1) : (a \o mid)[k] = IF k <= 1 THEN a[k] ELSE mid[k - 1]
  <2>1. /\ AcList(a \o mid) /\ Len(a \o mid) = Len(a) + Len(mid) /\ DOMAIN (a \o mid) = 1 .. (Len(a) + Len(mid))
        /\ \A k \in DOMAIN (a \o mid) : (a \o mid)[k] = IF k <= Len(a) THEN a[k] ELSE mid[k - Len(a)]
    BY <1>1, AcConcatIs, Zenon
  <2> QED
    BY <1>1, <1>4, <2>1
<1>6. /\ AcList(w) /\ Len(w) = n + 2 /\ DOMAIN w = 1 .. (n + 2)
      /\ w[1] = AcTakes(AcManagerLock(s)) /\ w[n + 2] = AcDoes("end", to, {AcManagerLock(s)})
      /\ \A k \in 1 .. (n + 2) : k # 1 /\ k # n + 2 => k - 1 \in 1 .. n /\ w[k] = mid[k - 1]
      /\ \A k \in 1 .. n : w[k + 1] = mid[k]
  <2>1. /\ AcList(w) /\ Len(w) = n + 2 /\ DOMAIN w = 1 .. (n + 2)
        /\ \A k \in 1 .. (n + 2) : w[k] = IF k <= n + 1 THEN (a \o mid)[k] ELSE z[k - (n + 1)]
    <3> DEFINE v == a \o mid
    <3>1. /\ AcList(v \o z) /\ Len(v \o z) = Len(v) + Len(z) /\ DOMAIN (v \o z) = 1 .. (Len(v) + Len(z))
          /\ \A k \in DOMAIN (v \o z) : (v \o z)[k] = IF k <= Len(v) THEN v[k] ELSE z[k - Len(v)]
      BY <1>2, <1>5, AcConcatIs, Zenon
    <3> QED
      BY <1>2, <1>3, <1>4, <1>5, <3>1
  <2> QED
    BY <1>1, <1>2, <1>4, <1>5, <2>1
<1>7. w # <<>>
  BY <1>4, <1>6, AcListIs
<1>8. ASSUME NEW k \in 1 .. (n + 2)
      PROVE  /\ AcStreamStep(s, from, w[k])
             /\ w[k].do \notin {"create", "free", "unlink"} /\ ~AcIsLock(w[k], AcCtl)
             /\ w[k].do = "end" => k = n + 2 /\ w[k].on = to
  <2>1. CASE k = 1
    BY <1>4, <1>6, <2>1, AcLocksDiffer DEF AcStreamStep, AcTakes, AcWorksOn, AcIsLock
  <2>2. CASE k = n + 2
    BY <1>6, <2>2, AcLocksDiffer DEF AcStreamStep, AcDoes, AcWorksOn, AcIsLock
  <2>3. CASE k # 1 /\ k # n + 2
    <3>1. k - 1 \in DOMAIN mid /\ w[k] = mid[k - 1]
      BY <1>4, <1>6, <2>3
    <3>2. PICK h \in AcOf(s) : \/ w[k] = AcTakes(AcLockOf(h))
                               \/ w[k] = AcDoes(do, h, {AcLockOf(h)})
      BY <3>1
    <3>3. CASE w[k] = AcTakes(AcLockOf(h))
      BY <3>3, AcLocksDiffer DEF AcStreamStep, AcTakes, AcWorksOn, AcIsLock
    <3>4. CASE w[k] = AcDoes(do, h, {AcLockOf(h)})
      BY <3>4, AcLocksDiffer DEF AcStreamStep, AcDoes, AcWorksOn, AcIsLock
    <3> QED
      BY <3>2, <3>3, <3>4
  <2> QED
    BY <2>1, <2>2, <2>3
<1>9. w[Len(w)].do = "end"
  BY <1>6 DEF AcDoes
<1>10. AcStreamOrder(w)
  BY <1>6, <1>8, <1>9 DEF AcStreamOrder
<1>11. AcShape(s, from, w)
  BY <1>6, <1>8, <1>9, <1>10 DEF AcShape
<1>12. ASSUME NEW d, NEW on, AcLeft(mid, d, on) PROVE AcLeft(w, d, on)
  <2>1. PICK k \in 1 .. n : mid[k].do = d /\ mid[k].on = on
    BY <1>4, <1>12 DEF AcLeft
  <2>2. k + 1 \in DOMAIN w /\ w[k + 1] = mid[k]
    BY <1>4, <1>6
  <2> QED
    BY <2>1, <2>2 DEF AcLeft
<1>13. \A on : AcLeft(w, "end", on) => on = to
  BY <1>6, <1>8 DEF AcLeft
<1> QED
  BY <1>6, <1>7, <1>11, <1>12, <1>13 DEF AcManaged

\* The call of destroy_aurisys_lib_manager has the shape of stage ending.
LEMMA AcDestructionShape ==
  ASSUME AcTypeOK, NEW s \in AcTasks,
         NEW w, w = <<AcTakes(<<"controller">>), AcTakes(<<"managers">>), AcTakes(AcManagerLock(s)),
                      AcTakes(<<"handlers">>)>>
                    \o AcEach(AcOwn(s), "unlink")
                    \o <<AcDoes("free", s, {<<"handlers">>, AcManagerLock(s), <<"managers">>}),
                         AcDoes("end", "away", {<<"controller">>})>>
  PROVE  /\ AcList(w) /\ w # <<>> /\ AcShape(s, "ending", w) /\ AcIsLock(w[1], AcCtl)
         /\ \A h \in AcOf(s) : AcLeft(w, "unlink", h)
<1> DEFINE a == <<AcTakes(<<"controller">>), AcTakes(<<"managers">>), AcTakes(AcManagerLock(s)),
                  AcTakes(<<"handlers">>)>>
           mid == AcEach(AcOwn(s), "unlink")
           free == AcDoes("free", s, {<<"handlers">>, AcManagerLock(s), <<"managers">>})
           end == AcDoes("end", "away", {<<"controller">>})
           z == <<free, end>>
           n == Len(mid)
<1>1. /\ AcList(a) /\ Len(a) = 4 /\ a[1] = AcTakes(AcCtl) /\ a[2] = AcTakes(<<"managers">>)
      /\ a[3] = AcTakes(AcManagerLock(s)) /\ a[4] = AcTakes(<<"handlers">>)
  <2>1. a \in Seq({AcTakes(<<"controller">>), AcTakes(<<"managers">>), AcTakes(AcManagerLock(s)),
                   AcTakes(<<"handlers">>)})
    OBVIOUS
  <2>2. AcList(a)
    BY <2>1, AcSeqIsList, Zenon
  <2> QED
    BY <2>2 DEF AcCtl
<1>2. AcList(z) /\ Len(z) = 2 /\ z[1] = free /\ z[2] = end
  <2>1. z \in Seq({free, end})
    OBVIOUS
  <2>2. AcList(z)
    BY <2>1, AcSeqIsList, Zenon
  <2> QED
    BY <2>2
<1>3. w = (a \o mid) \o z
  OBVIOUS
<1>4. AcList(AcOwn(s)) /\ DOMAIN AcOwn(s) \subseteq Nat
  BY AcOwnIs, AcListIs
<1>5. /\ AcList(mid)
      /\ \A k \in DOMAIN mid : \E i \in DOMAIN AcOwn(s) :
            \/ k = 2 * i - 1 /\ mid[k] = AcTakes(AcLockOf(AcOwn(s)[i]))
            \/ k = 2 * i /\ mid[k] = AcDoes("unlink", AcOwn(s)[i], {AcLockOf(AcOwn(s)[i])})
      /\ \A i \in DOMAIN AcOwn(s) : AcLeft(mid, "unlink", AcOwn(s)[i])
  BY <1>4, AcEachIs
<1> HIDE DEF a, mid, z
<1>6. n \in Nat /\ DOMAIN mid = 1 .. n
  BY <1>5, AcListIs, Zenon
<1>7. /\ AcList(w) /\ Len(w) = 4 + n + 2 /\ DOMAIN w = 1 .. (4 + n + 2)
      /\ \A k \in 1 .. 4 : w[k] = a[k]
      /\ \A k \in 1 .. n : w[k + 4] = mid[k] /\ k + 4 \in DOMAIN w
      /\ \A k \in 1 .. 2 : w[k + 4 + n] = z[k]
      /\ \A k \in DOMAIN w : \/ k \in 1 .. 4 /\ w[k] = a[k]
                             \/ k - 4 \in 1 .. n /\ w[k] = mid[k - 4]
                             \/ k - 4 - n \in 1 .. 2 /\ w[k] = z[k - 4 - n]
  <2>0. AcList(a) /\ AcList(mid) /\ AcList(z)
    BY <1>1, <1>2, <1>5
  <2>1. AcAround(w, a, mid, z)
    BY <1>3, <2>0, AcAroundIs, Zenon
  <2> QED
    BY <1>1, <1>2, <2>1, Zenon DEF AcAround
<1>8. /\ AcList(w) /\ Len(w) = n + 6 /\ DOMAIN w = 1 .. (n + 6)
      /\ w[1] = AcTakes(AcCtl) /\ w[2] = AcTakes(<<"managers">>)
      /\ w[3] = AcTakes(AcManagerLock(s)) /\ w[4] = AcTakes(<<"handlers">>)
      /\ w[n + 5] = free /\ w[n + 6] = end
      /\ \A k \in 1 .. (n + 6) : k > 4 /\ k < n + 5 => k - 4 \in 1 .. n /\ w[k] = mid[k - 4]
      /\ \A k \in 1 .. n : w[k + 4] = mid[k]
  <2>1. Len(w) = n + 6 /\ DOMAIN w = 1 .. (n + 6)
    BY <1>6, <1>7
  <2>2. w[1 + 4 + n] = free /\ w[2 + 4 + n] = end
    BY <1>2, <1>7
  <2>3. 1 + 4 + n = n + 5 /\ 2 + 4 + n = n + 6
    BY <1>6
  <2>4. ASSUME NEW k \in 1 .. (n + 6), k > 4, k < n + 5
        PROVE  k - 4 \in 1 .. n /\ w[k] = mid[k - 4]
    <3>1. k - 4 \in 1 .. n /\ (k - 4) + 4 = k
      BY <1>6, <2>4
    <3>2. w[(k - 4) + 4] = mid[k - 4]
      BY <1>7, <3>1, Zenon
    <3> QED
      BY <3>1, <3>2
  <2> QED
    BY <1>1, <1>7, <2>1, <2>2, <2>3, <2>4
<1>9. w # <<>>
  BY <1>6, <1>8, AcListIs
<1>10. ASSUME NEW k \in 1 .. (n + 6)
       PROVE  \/ k \in 1 .. 4 /\ w[k].do = "lock"
              \/ k = n + 5 /\ w[k] = free
              \/ k = n + 6 /\ w[k] = end
              \/ \E i \in DOMAIN AcOwn(s) :
                    \/ k = 2 * i + 3 /\ w[k] = AcTakes(AcLockOf(AcOwn(s)[i]))
                    \/ k = 2 * i + 4 /\ w[k] = AcDoes("unlink", AcOwn(s)[i], {AcLockOf(AcOwn(s)[i])})
  <2>1. CASE k > 4 /\ k < n + 5
    <3>1. k - 4 \in DOMAIN mid /\ w[k] = mid[k - 4]
      BY <1>6, <1>8, <2>1
    <3>2. PICK i \in DOMAIN AcOwn(s) :
            \/ k - 4 = 2 * i - 1 /\ w[k] = AcTakes(AcLockOf(AcOwn(s)[i]))
            \/ k - 4 = 2 * i /\ w[k] = AcDoes("unlink", AcOwn(s)[i], {AcLockOf(AcOwn(s)[i])})
      BY <1>5, <3>1
    <3>3. i \in Nat /\ k \in Int
      BY <1>4, <1>6
    <3>4. (k - 4 = 2 * i - 1 => k = 2 * i + 3) /\ (k - 4 = 2 * i => k = 2 * i + 4)
      BY <3>3
    <3> QED
      BY <3>2, <3>4, Zenon
  <2>2. CASE ~(k > 4 /\ k < n + 5)
    BY <1>6, <1>8, <2>2 DEF AcTakes
  <2> QED
    BY <2>1, <2>2
<1>11. ASSUME NEW k \in DOMAIN w
       PROVE  AcStreamStep(s, "ending", w[k])
  <2>1. CASE k \in 1 .. 4
    <3>1. k = 1 \/ k = 2 \/ k = 3 \/ k = 4
      BY <2>1
    <3>2. \E l \in {AcCtl, <<"managers">>, AcManagerLock(s), <<"handlers">>} : w[k] = AcTakes(l)
      BY <1>8, <3>1
    <3>3. PICK l \in {AcCtl, <<"managers">>, AcManagerLock(s), <<"handlers">>} : w[k] = AcTakes(l)
      BY <3>2
    <3>4. w[k].do = "lock" /\ w[k].on = l /\ w[k].frees = {}
      BY <3>3 DEF AcTakes
    <3> QED
      BY <3>3, <3>4, AcLocksDiffer DEF AcStreamStep, AcWorksOn
  <2>2. CASE k = n + 5 /\ w[k] = free
    BY <2>2, AcLocksDiffer DEF AcStreamStep, AcDoes, AcWorksOn
  <2>3. CASE k = n + 6 /\ w[k] = end
    BY <2>3, AcLocksDiffer DEF AcStreamStep, AcDoes, AcWorksOn, AcCtl
  <2>4. ASSUME NEW i \in DOMAIN AcOwn(s), \/ w[k] = AcTakes(AcLockOf(AcOwn(s)[i]))
                                          \/ w[k] = AcDoes("unlink", AcOwn(s)[i], {AcLockOf(AcOwn(s)[i])})
        PROVE  AcStreamStep(s, "ending", w[k])
    <3>1. AcOwn(s)[i] \in AcOf(s)
      BY AcOwnIs
    <3>2. CASE w[k] = AcTakes(AcLockOf(AcOwn(s)[i]))
      BY <3>1, <3>2, AcLocksDiffer DEF AcStreamStep, AcTakes, AcWorksOn
    <3>3. CASE w[k] = AcDoes("unlink", AcOwn(s)[i], {AcLockOf(AcOwn(s)[i])})
      BY <3>1, <3>3, AcLocksDiffer DEF AcStreamStep, AcDoes, AcWorksOn
    <3> QED
      BY <2>4, <3>2, <3>3
  <2> QED
    BY <1>8, <1>10, <2>1, <2>2, <2>3, <2>4
<1>12. w[Len(w)].do = "end" /\ end.do = "end" /\ free.do = "free"
  BY <1>8 DEF AcDoes
<1> HIDE DEF free, end
<1>13. ASSUME NEW k \in DOMAIN w
       PROVE  /\ AcIsLock(w[k], AcCtl) => k = 1
              /\ w[k].do = "end" => k = Len(w)
              /\ w[k].do \in {"create", "free"} => k + 1 = Len(w)
  <2>1. CASE k \in 1 .. 4
    <3>1. k = 1 \/ k = 2 \/ k = 3 \/ k = 4
      BY <2>1
    <3>2. w[k].do = "lock" /\ (k # 1 => w[k].on # AcCtl)
      BY <1>8, <3>1, AcLocksDiffer DEF AcTakes
    <3> QED
      BY <3>2 DEF AcIsLock
  <2>2. CASE k = n + 5 /\ w[k] = free
    BY <1>6, <1>8, <1>12, <2>2 DEF AcIsLock
  <2>3. CASE k = n + 6 /\ w[k] = end
    BY <1>6, <1>8, <1>12, <2>3 DEF AcIsLock
  <2>4. ASSUME NEW i \in DOMAIN AcOwn(s), \/ w[k] = AcTakes(AcLockOf(AcOwn(s)[i]))
                                          \/ w[k] = AcDoes("unlink", AcOwn(s)[i], {AcLockOf(AcOwn(s)[i])})
        PROVE  ~AcIsLock(w[k], AcCtl) /\ w[k].do \in {"lock", "unlink"}
    BY <2>4, AcLocksDiffer DEF AcIsLock, AcTakes, AcDoes
  <2> QED
    BY <1>8, <1>10, <2>1, <2>2, <2>3, <2>4
<1>14. ASSUME NEW j \in DOMAIN w, NEW k \in DOMAIN w, w[j].do = "unlink", j < k
       PROVE  ~AcUses(w[k], w[j].on)
  <2>1. PICK i \in DOMAIN AcOwn(s) :
           j = 2 * i + 4 /\ w[j] = AcDoes("unlink", AcOwn(s)[i], {AcLockOf(AcOwn(s)[i])})
    <3>1. j \in 1 .. (n + 6)
      BY <1>8
    <3>2. w[j].do # "lock" /\ w[j] # free /\ w[j] # end
      BY <1>12, <1>14
    <3>3. \A l : AcTakes(l).do = "lock"
      BY DEF AcTakes
    <3> QED
      BY <1>10, <3>1, <3>2, <3>3
  <2>2. i \in Nat /\ j = 2 * i + 4 /\ w[j].on = AcOwn(s)[i]
    BY <1>4, <2>1 DEF AcDoes
  <2>3. CASE w[k] = free \/ w[k] = end
    BY <1>12, <2>3 DEF AcUses
  <2>4. ASSUME NEW m \in DOMAIN AcOwn(s),
               \/ k = 2 * m + 3 /\ w[k] = AcTakes(AcLockOf(AcOwn(s)[m]))
               \/ k = 2 * m + 4 /\ w[k] = AcDoes("unlink", AcOwn(s)[m], {AcLockOf(AcOwn(s)[m])})
        PROVE  ~AcUses(w[k], AcOwn(s)[i])
    <3>1. m \in Nat /\ m # i
      <4>1. m \in Nat /\ (k = 2 * m + 3 \/ k = 2 * m + 4)
        BY <1>4, <2>4
      <4> QED
        BY <1>14, <2>2, <4>1
    <3>2. AcOwn(s)[m] # AcOwn(s)[i]
      BY <2>1, <3>1, AcOwnIs
    <3> QED
      BY <2>4, <3>2, AcLocksDiffer DEF AcUses, AcTakes, AcDoes
  <2>5. CASE k \in 1 .. 4
    <3>1. i \in 1 .. Len(AcOwn(s)) /\ Len(AcOwn(s)) \in Nat
      BY <1>4, <2>1, AcOwnIs, AcListIs
    <3> QED
      BY <1>14, <2>2, <2>5, <3>1
  <2>6. k \in 1 .. (n + 6)
    BY <1>8
  <2> QED
    BY <1>10, <2>2, <2>3, <2>4, <2>5, <2>6, Zenon
<1>15. AcStreamOrder(w)
  BY <1>12, <1>13, <1>14, Zenon DEF AcStreamOrder
<1>16. ASSUME NEW h \in AcOf(s) PROVE AcLeft(w, "unlink", h)
  <2>1. PICK i \in DOMAIN AcOwn(s) : AcOwn(s)[i] = h
    BY AcOwnIs
  <2>2. PICK k \in 1 .. n : mid[k].do = "unlink" /\ mid[k].on = h
    BY <1>5, <1>6, <2>1 DEF AcLeft
  <2>3. k + 4 \in DOMAIN w /\ w[k + 4] = mid[k]
    BY <1>6, <1>8
  <2> QED
    BY <2>2, <2>3 DEF AcLeft
<1>17. AcIsLock(w[1], AcCtl)
  BY <1>8 DEF AcIsLock, AcTakes
<1> QED
  BY <1>8, <1>9, <1>11, <1>12, <1>15, <1>16, <1>17 DEF AcShape

\* The call of aurisys_apply_param_list has the shape of its stage.
LEMMA AcApplyShape ==
  ASSUME AcTypeOK, NEW s \in AcTasks, NEW stage \in {"made", "ready"},
         NEW w, w = AcInTurn([k \in DOMAIN AcOwn(s) |-> AcDoes("move", AcOwn(s)[k], {})],
                             [k \in DOMAIN AcOwn(s) |-> AcDoes("copy", AcOwn(s)[k], {})])
  PROVE  AcList(w) /\ AcShape(s, stage, w) /\ \A on : ~AcLeft(w, "end", on)
<1> DEFINE hs == AcOwn(s)  n == Len(hs)
           M == {AcDoes("move", hs[k], {}) : k \in 1 .. n}
           C == {AcDoes("copy", hs[k], {}) : k \in 1 .. n}
           moves == [k \in DOMAIN hs |-> AcDoes("move", hs[k], {})]
           copies == [k \in DOMAIN hs |-> AcDoes("copy", hs[k], {})]
<1>1. n \in Nat /\ DOMAIN hs = 1 .. n /\ \A k \in 1 .. n : hs[k] \in AcOf(s)
  BY AcOwnIs, AcListIs
<1>2. moves \in [1 .. n -> M] /\ copies \in [1 .. n -> C]
  BY <1>1
<1>3. w = AcInTurn(moves, copies)
  OBVIOUS
<1> HIDE DEF moves, copies, M, C, n
<1>4. moves \in Seq(M) /\ copies \in Seq(C) /\ Len(moves) = n /\ Len(copies) = n
  BY <1>1, <1>2, SeqDef
<1>5. AcList(moves) /\ AcList(copies) /\ DOMAIN moves = 1 .. n /\ DOMAIN copies = 1 .. n
  BY <1>2, <1>4, AcSeqIsList
<1>6. AcList(w)
  <2>1. Len(moves) = Len(copies)
    BY <1>4
  <2> QED
    BY <1>3, <1>5, <2>1, AcInTurnIs, Zenon DEF AcMixed
<1>7. \A k \in DOMAIN w : \E i \in DOMAIN moves :
         \/ k = 2 * i - 1 /\ w[k] = moves[i]
         \/ k = 2 * i /\ w[k] = copies[i]
  <2>1. Len(moves) = Len(copies) /\ AcList(moves) /\ AcList(copies)
    BY <1>4, <1>5
  <2>2. AcMixed(w, moves, copies)
    BY <1>3, <2>1, AcInTurnIs, Zenon
  <2> QED
    BY <2>2, Zenon DEF AcMixed
<1>8. ASSUME NEW k \in DOMAIN w
      PROVE  \E h \in AcOf(s) : w[k] = AcDoes("move", h, {}) \/ w[k] = AcDoes("copy", h, {})
  <2>1. w[k] \in M \cup C
    BY <1>2, <1>5, <1>7
  <2> QED
    BY <1>1, <2>1 DEF M, C
<1>9. ASSUME NEW k \in DOMAIN w
      PROVE  AcStreamStep(s, stage, w[k]) /\ w[k].do \in {"move", "copy"}
  <2>1. PICK h \in AcOf(s) : w[k] = AcDoes("move", h, {}) \/ w[k] = AcDoes("copy", h, {})
    BY <1>8
  <2> QED
    BY <2>1 DEF AcStreamStep, AcDoes, AcWorksOn
<1>10. AcStreamOrder(w)
  BY <1>9 DEF AcStreamOrder, AcIsLock
<1> QED
  BY <1>6, <1>9, <1>10 DEF AcShape, AcLeft
---------------------------------------------------------------------------
(* The controller's lock *)

\* The lock of the controller is taken first and freed last.
AcCtlOrder(w) ==
    \A k \in DOMAIN w : /\ AcIsLock(w[k], AcCtl) => k = 1 /\ AcCtl \in w[Len(w)].frees
                        /\ AcCtl \in w[k].frees => k = Len(w) /\ w[k].do # "lock"

\* A task has the lock from the step that takes it to the one that frees it.
LEMMA AcCtlTail ==
  ASSUME NEW w, AcList(w), w # <<>>, AcCtlOrder(w)
  PROVE  /\ AcIsLock(w[1], AcCtl) => AcHasCtl(Tail(w)) /\ ~AcHasCtl(w)
         /\ ~AcIsLock(w[1], AcCtl) /\ AcCtl \notin w[1].frees => (AcHasCtl(Tail(w)) <=> AcHasCtl(w))
         /\ AcCtl \in w[1].frees => AcHasCtl(w) /\ ~AcHasCtl(Tail(w))
<1>1. /\ Len(w) \in Nat \ {0} /\ DOMAIN w = 1 .. Len(w) /\ 1 \in DOMAIN w /\ Len(w) \in DOMAIN w
      /\ DOMAIN Tail(w) = 1 .. (Len(w) - 1) /\ Len(Tail(w)) = Len(w) - 1
      /\ \A k \in DOMAIN Tail(w) : Tail(w)[k] = w[k + 1] /\ k + 1 \in DOMAIN w
      /\ Tail(w) # <<>> => Tail(w)[Len(Tail(w))] = w[Len(w)] /\ Len(w) > 1
      /\ Tail(w) = <<>> => Len(w) = 1
  BY AcTailIs, AcListIs, Zenon
<1>2. Tail(w) # <<>> => 1 \in DOMAIN Tail(w) /\ Tail(w)[1] = w[2] /\ 2 \in DOMAIN w
  BY <1>1
<1>3. Tail(w) # <<>> => ~AcIsLock(Tail(w)[1], AcCtl)
  BY <1>2 DEF AcCtlOrder
<1>4. Tail(w) = <<>> => w[Len(w)] = w[1]
  BY <1>1
<1>5. AcHasCtl(Tail(w)) <=> Tail(w) # <<>> /\ AcCtl \in w[Len(w)].frees
  BY <1>1, <1>3 DEF AcHasCtl
<1>6. AcHasCtl(w) <=> AcCtl \in w[Len(w)].frees /\ ~AcIsLock(w[1], AcCtl)
  BY DEF AcHasCtl
<1>7. ASSUME AcIsLock(w[1], AcCtl) PROVE AcHasCtl(Tail(w)) /\ ~AcHasCtl(w)
  <2>1. AcCtl \in w[Len(w)].frees
    BY <1>1, <1>7 DEF AcCtlOrder
  <2>2. AcCtl \notin w[1].frees
    BY <1>1, <1>7 DEF AcCtlOrder, AcIsLock
  <2> QED
    BY <1>4, <1>5, <1>6, <1>7, <2>1, <2>2
<1>8. ASSUME ~AcIsLock(w[1], AcCtl), AcCtl \notin w[1].frees
      PROVE  AcHasCtl(Tail(w)) <=> AcHasCtl(w)
  BY <1>4, <1>5, <1>6, <1>8
<1>9. ASSUME AcCtl \in w[1].frees PROVE AcHasCtl(w) /\ ~AcHasCtl(Tail(w))
  <2>1. 1 = Len(w) /\ w[1].do # "lock"
    BY <1>1, <1>9 DEF AcCtlOrder
  <2> QED
    <3>1. w[Len(w)] = w[1]
      BY <2>1
    <3>2. ASSUME NEW n \in Nat, n = 1 PROVE ~(n > 1)
      BY <3>2
    <3>3. Tail(w) = <<>>
      BY <1>1, <2>1, <3>2, Zenon
    <3> QED
      BY <1>5, <1>6, <1>9, <2>1, <3>1, <3>3, Zenon DEF AcIsLock
<1> QED
  BY <1>7, <1>8, <1>9

\* A stream's call takes and frees the controller's lock so.
LEMMA AcStreamCtl ==
  ASSUME NEW s, NEW stage, NEW w, AcList(w), AcShape(s, stage, w)
  PROVE  AcCtlOrder(w)
<1>1. Len(w) \in Nat /\ DOMAIN w = 1 .. Len(w) /\ (w # <<>> => Len(w) \in DOMAIN w)
  BY AcListIs, Zenon
<1> SUFFICES ASSUME NEW k \in DOMAIN w
             PROVE  /\ AcIsLock(w[k], AcCtl) => k = 1 /\ AcCtl \in w[Len(w)].frees
                    /\ AcCtl \in w[k].frees => k = Len(w) /\ w[k].do # "lock"
  BY DEF AcCtlOrder
<1>2. AcStreamStep(s, stage, w[k]) /\ AcStreamStep(s, stage, w[Len(w)])
  BY <1>1 DEF AcShape
<1>3. ASSUME AcIsLock(w[k], AcCtl) PROVE k = 1 /\ AcCtl \in w[Len(w)].frees
  <2>1. k = 1
    BY <1>3 DEF AcShape, AcStreamOrder
  <2>2. stage \in {"away", "ending"}
    BY <1>2, <1>3, AcLocksDiffer DEF AcStreamStep, AcIsLock
  <2>3. w # <<>>
    BY <1>1, <2>1
  <2>4. w[Len(w)].do = "end"
    BY <2>2, <2>3 DEF AcShape
  <2> QED
    BY <1>2, <2>1, <2>2, <2>4 DEF AcStreamStep
<1>4. ASSUME AcCtl \in w[k].frees PROVE k = Len(w) /\ w[k].do # "lock"
  <2>1. w[k].do = "end"
    BY <1>2, <1>4 DEF AcStreamStep
  <2> QED
    BY <2>1 DEF AcShape, AcStreamOrder
<1> QED
  BY <1>3, <1>4

\* The commands take and free it so as well.
LEMMA AcControlCtl ==
  ASSUME AcTypeOK, AcControlFits
  PROVE  AcCtlOrder(acWork[AcControl])
<1> DEFINE w == acWork[AcControl]
<1>0. AcList(w)
  BY DEF AcTypeOK
<1>1. Len(w) \in Nat /\ DOMAIN w = 1 .. Len(w) /\ (w # <<>> => Len(w) \in DOMAIN w)
  BY <1>0, AcListIs, Zenon
<1>2. AcControlOrder(w) /\ \A k \in DOMAIN w : AcControlStep(w[k])
  BY DEF AcControlFits
<1> HIDE DEF w
<1> SUFFICES ASSUME NEW k \in DOMAIN w
             PROVE  /\ AcIsLock(w[k], AcCtl) => k = 1 /\ AcCtl \in w[Len(w)].frees
                    /\ AcCtl \in w[k].frees => k = Len(w) /\ w[k].do # "lock"
  BY DEF AcCtlOrder, w
<1>3. AcControlStep(w[k]) /\ AcControlStep(w[Len(w)])
  BY <1>1, <1>2
<1>4. ASSUME AcIsLock(w[k], AcCtl) PROVE k = 1 /\ AcCtl \in w[Len(w)].frees
  <2>1. k = 1 /\ w[Len(w)].do # "start"
    BY <1>2, <1>4 DEF AcControlOrder
  <2>2. w # <<>>
    BY <1>1
  <2>3. w[Len(w)].do \in {"parse", "finish"}
    BY <1>2, <2>1, <2>2 DEF AcControlOrder
  <2> QED
    BY <1>3, <2>1, <2>3 DEF AcControlStep
<1>5. ASSUME AcCtl \in w[k].frees PROVE k = Len(w) /\ w[k].do # "lock"
  <2>1. w[k].do \in {"parse", "finish"}
    BY <1>3, <1>5 DEF AcControlStep
  <2> QED
    BY <1>2, <2>1 DEF AcControlOrder
<1> QED
  BY <1>4, <1>5

\* A step after which the task has the lock if it had it before
LEMMA AcCtlSame ==
  ASSUME AcOneHasCtl, acStreams' = acStreams, AcCtl \in acHeld' <=> AcCtl \in acHeld,
         \A t \in AcTasks \cup {AcControl} : AcHasCtl(acWork'[t]) <=> AcHasCtl(acWork[t])
  PROVE  AcOneHasCtl'
<1>1. AcTasks' = AcTasks
  BY DEF AcTasks
<1>2. \A w : AcHasCtl(w)' <=> AcHasCtl(w)
  BY DEF AcHasCtl, AcIsLock, AcCtl
<1> QED
  BY <1>1, <1>2 DEF AcOneHasCtl, AcHasCtl, AcIsLock, AcCtl

\* A task takes or frees a lock, or goes on.
LEMMA AcCtlGoes ==
  ASSUME AcTypeOK, AcOneHasCtl, acStreams' = acStreams, NEW t \in AcTasks \cup {AcControl},
         acWork[t] # <<>>, AcCtlOrder(acWork[t]), acWork'[t] = Tail(acWork[t]),
         \A u \in (AcTasks \cup {AcControl}) \ {t} : acWork'[u] = acWork[u],
         \/ acWork[t][1].do = "lock" /\ acWork[t][1].on \notin acHeld
               /\ acHeld' = acHeld \cup {acWork[t][1].on}
         \/ acWork[t][1].do # "lock" /\ acHeld' = acHeld \ acWork[t][1].frees
  PROVE  AcOneHasCtl'
<1> DEFINE w == acWork[t]
<1>0. AcList(w)
  BY DEF AcTypeOK
<1>1. /\ AcIsLock(w[1], AcCtl) => AcHasCtl(Tail(w)) /\ ~AcHasCtl(w)
      /\ ~AcIsLock(w[1], AcCtl) /\ AcCtl \notin w[1].frees => (AcHasCtl(Tail(w)) <=> AcHasCtl(w))
      /\ AcCtl \in w[1].frees => AcHasCtl(w) /\ ~AcHasCtl(Tail(w))
  BY <1>0, AcCtlTail, Zenon
<1>2. AcTasks' = AcTasks
  BY DEF AcTasks
<1>3. (AcOneHasCtl)' <=>
         /\ AcCtl \in acHeld' <=> \E u \in AcTasks \cup {AcControl} : AcHasCtl(acWork'[u])
         /\ \A u, v \in AcTasks \cup {AcControl} : AcHasCtl(acWork'[u]) /\ AcHasCtl(acWork'[v]) => u = v
  BY <1>2 DEF AcOneHasCtl, AcHasCtl, AcIsLock, AcCtl
<1>4. CASE AcIsLock(w[1], AcCtl)
  <2>1. AcCtl \notin acHeld /\ AcCtl \in acHeld'
    BY <1>4 DEF AcIsLock
  <2>2. \A u \in AcTasks \cup {AcControl} : ~AcHasCtl(acWork[u])
    BY <2>1 DEF AcOneHasCtl
  <2> QED
    BY <1>1, <1>3, <1>4, <2>1, <2>2
<1>5. CASE AcCtl \in w[1].frees
  <2>0. w[1].do # "lock"
    <3>1. 1 \in DOMAIN w
      BY <1>0, AcListIs, Zenon
    <3> QED
      BY <1>5, <3>1 DEF AcCtlOrder
  <2>1. AcCtl \notin acHeld'
    BY <1>5, <2>0
  <2>2. \A u \in AcTasks \cup {AcControl} : u # t => ~AcHasCtl(acWork[u])
    BY <1>1, <1>5 DEF AcOneHasCtl
  <2> QED
    BY <1>1, <1>3, <1>5, <2>1, <2>2
<1>6. CASE ~AcIsLock(w[1], AcCtl) /\ AcCtl \notin w[1].frees
  <2>1. AcCtl \in acHeld' <=> AcCtl \in acHeld
    BY <1>6 DEF AcIsLock
  <2>2. \A u \in AcTasks \cup {AcControl} : AcHasCtl(acWork'[u]) <=> AcHasCtl(acWork[u])
    BY <1>1, <1>6
  <2> QED
    BY <2>1, <2>2, AcCtlSame
<1> QED
  BY <1>4, <1>5, <1>6
---------------------------------------------------------------------------
(* What the steps of a stream leave alone *)

\* A step of one stream
AcByStream(s) ==
    /\ UNCHANGED <<acFixed, acController, acComponent, acFailed, acRaced>> /\ acHalted' = FALSE
    /\ acController = "on"
    /\ DOMAIN acWork' = AcTasks \cup {AcControl}
    /\ \A t \in (AcTasks \cup {AcControl}) \ {s} : acWork'[t] = acWork[t]
    /\ AcList(acWork'[s]) /\ acStage' \in [AcTasks -> {"away", "made", "ready", "ending"}]
    /\ \A u \in AcTasks \ {s} : acStage'[u] = acStage[u] /\ (u \in acManagers' <=> u \in acManagers)
    /\ acHandler' \in [AcHandlers -> AcHandlerTypes]
    /\ \A h \in AcHandlers \ AcOf(s) : acHandler'[h] = acHandler[h]

\* A stream that is not away, or is in a call, has a controller.
LEMMA AcControllerOn ==
  ASSUME AcTypeOK, AcControlFits, NEW s \in AcTasks, acStage[s] # "away" \/ acWork[s] # <<>>
  PROVE  acController = "on"
BY DEF AcControlFits

\* The commands do not use what a stream frees.
LEMMA AcControlStays ==
  ASSUME AcTypeOK, AcControlFits, AcOneHasCtl, NEW s \in AcTasks, AcByStream(s),
         \/ \A h \in AcOf(s) : acHandler[h].there => acHandler'[h].there
         \/ AcHasCtl(acWork[s])
  PROVE  AcControlFits'
<1> DEFINE w == acWork[AcControl]
<1>0. AcControl \in AcTasks \cup {AcControl} /\ AcControl # s /\ acWork'[AcControl] = w /\ AcList(w)
  BY AcFixedIs DEF AcByStream, AcTypeOK
<1>1. AcTasks' = AcTasks /\ AcHandlers' = AcHandlers
      /\ \A h : AcComponentOf(h)' = AcComponentOf(h)
  BY AcSame DEF AcByStream, acFixed
<1>2. \A step : AcControlStep(step)' <=> AcControlStep(step)
  BY <1>1 DEF AcControlStep, AcByStream, AcCtl, AcLockOf
<1>4. ASSUME NEW k \in DOMAIN w, NEW h \in AcHandlers, AcUses(w[k], h)
      PROVE  acHandler'[h].there
  <2>1. acHandler[h].there
    BY <1>4 DEF AcControlFits
  <2>2. CASE h \notin AcOf(s)
    BY <2>1, <2>2 DEF AcByStream
  <2>3. CASE h \in AcOf(s) /\ AcHasCtl(acWork[s])
    <3>1. AcControlStep(w[k]) /\ AcControlOrder(w)
      BY DEF AcControlFits
    <3>2. AcOnHandler(w[k])
      BY <1>4, <3>1, AcLocksDiffer DEF AcUses, AcOnHandler, AcControlStep
    <3>3. ~AcIsLock(w[1], AcCtl) /\ w[Len(w)].do = "finish" /\ w # <<>>
      BY <3>1, <3>2 DEF AcControlOrder
    <3>4. Len(w) \in DOMAIN w
      BY <1>0, <3>3, AcListIs, Zenon
    <3>5. AcCtl \in w[Len(w)].frees
      BY <3>3, <3>4 DEF AcControlFits, AcControlStep
    <3>6. AcHasCtl(w)
      BY <3>3, <3>5 DEF AcHasCtl
    <3> QED
      BY <1>0, <2>3, <3>6 DEF AcOneHasCtl
  <2>4. CASE h \in AcOf(s) /\ \A g \in AcOf(s) : acHandler[g].there => acHandler'[g].there
    BY <2>1, <2>4
  <2> QED
    BY <2>2, <2>3, <2>4
<1>5. \A step, h : AcUses(step, h)' <=> AcUses(step, h)
  BY DEF AcUses, AcLockOf
<1>6. acController' = "on" /\ acController = "on"
  BY DEF AcByStream
<1>7. \A k \in DOMAIN w : AcControlStep(w[k]) /\ w[k].do # "parse"
  BY <1>6 DEF AcControlFits
<1>8. AcControlOrder(w)
  BY DEF AcControlFits
<1> HIDE DEF w
<1>10. AcControlOrder(acWork[AcControl])'
  BY <1>0, <1>8 DEF AcControlOrder, AcOnHandler, AcIsLock, AcCtl
<1> QED
  BY <1>0, <1>1, <1>2, <1>4, <1>5, <1>6, <1>7, <1>10 DEF AcControlFits

\* Everything but what is said of the stream's own state
LEMMA AcByStreamKeeps ==
  ASSUME AcInv, NEW s \in AcTasks, AcByStream(s), AcStreamFits(s)', AcOneHasCtl', AcReserves',
         \A h \in AcOf(s) : AcTold(h)',
         \/ \A h \in AcOf(s) : acHandler[h].there => acHandler'[h].there
         \/ AcHasCtl(acWork[s])
  PROVE  AcInv'
<1>1. /\ AcTasks' = AcTasks /\ AcHandlers' = AcHandlers /\ AcComponents' = AcComponents
      /\ \A u : AcOf(u)' = AcOf(u)
      /\ \A h : AcComponentOf(h)' = AcComponentOf(h)
  BY AcSame DEF AcByStream, acFixed
<1>2. AcControlFits'
  BY AcControlStays DEF AcInv
<1>3. AcTypeOK'
  <2>1. DOMAIN acWork' = AcTasks \cup {AcControl}
    BY DEF AcByStream
  <2>2. \A t \in AcTasks \cup {AcControl} : AcList(acWork'[t])
    BY DEF AcByStream, AcInv, AcTypeOK
  <2>3. \A t \in AcTasks \cup {AcControl} : AcList(acWork[t])'
    BY <2>2 DEF AcList
  <2>4. \E setup \in AcSetups : acStreams' = setup.streams /\ acCommands' = setup.commands
    BY DEF AcByStream, acFixed, AcInv, AcTypeOK
  <2> QED
    BY <1>1, <2>1, <2>3, <2>4 DEF AcByStream, acFixed, AcInv, AcTypeOK, AcHandlerTypes
<1>4. ASSUME NEW u \in AcTasks PROVE AcStreamFits(u)'
  <2>1. CASE u # s
    <3>1. \A h \in AcOf(u) : h \in AcHandlers \ AcOf(s)
      BY <2>1, AcHandlersAre DEF AcInv
    <3>2. \A h \in AcOf(u) : acHandler'[h] = acHandler[h]
      BY <3>1 DEF AcByStream
    <3>3. /\ acStreams' = acStreams /\ acCommands' = acCommands
          /\ acStage'[u] = acStage[u] /\ acWork'[u] = acWork[u] /\ (u \in acManagers' <=> u \in acManagers)
      BY <2>1 DEF AcByStream, acFixed
    <3> QED
      BY <3>2, <3>3, AcOtherStream DEF AcInv
  <2> QED
    BY <2>1
<1>5. ASSUME NEW h \in AcHandlers PROVE AcTold(h)'
  <2>1. CASE h \in AcOf(s)
    BY <2>1
  <2>2. CASE h \notin AcOf(s)
    <3>1. acHandler'[h] = acHandler[h] /\ acComponent' = acComponent
          /\ acWork'[AcControl] = acWork[AcControl]
      BY <2>2, AcFixedIs DEF AcByStream, AcInv
    <3>2. AcToSay(h)' <=> AcToSay(h)
      BY <3>1 DEF AcToSay
    <3>3. AcTold(h)
      BY DEF AcInv
    <3> QED
      BY <1>1, <3>1, <3>2, <3>3 DEF AcTold
  <2> QED
    BY <2>1, <2>2
<1> QED
  BY <1>1, <1>2, <1>3, <1>4, <1>5 DEF AcInv
---------------------------------------------------------------------------
(* The actions of a stream *)

\* The step whose turn it is, is the first that is left.
LEMMA AcTurnIs ==
  ASSUME AcTypeOK, NEW t \in AcTasks \cup {AcControl}, NEW do, AcTurn(t, do)
  PROVE  /\ acWork[t] # <<>> /\ acWork[t][1].do = do /\ AcOn(t) = acWork[t][1].on
         /\ AcList(acWork[t]) /\ 1 \in DOMAIN acWork[t]
<1>1. AcList(acWork[t]) /\ acWork[t] # <<>> /\ Head(acWork[t]).do = do
  BY DEF AcTypeOK, AcTurn
<1>2. Head(acWork[t]) = acWork[t][1] /\ 1 \in DOMAIN acWork[t]
  BY <1>1, AcListIs, Zenon
<1> QED
  BY <1>1, <1>2 DEF AcOn

\* What is reserved holds while no instance comes or goes.
LEMMA AcReservesSame ==
  ASSUME AcReserves, acStreams' = acStreams, acCommands' = acCommands, acReserved' = acReserved,
         \A h \in AcHandlers : acHandler'[h].arsi <=> acHandler[h].arsi
  PROVE  AcReserves'
<1>1. AcHandlers' = AcHandlers /\ \A h : AcRegions(h)' = AcRegions(h)
  BY AcSame
<1> QED
  BY <1>1 DEF AcReserves

\* What a handler was told holds while nothing is said and nothing changes.
LEMMA AcToldSame ==
  ASSUME NEW h, AcTold(h), acStreams' = acStreams, acCommands' = acCommands, acComponent' = acComponent,
         AcToSay(h)' <=> AcToSay(h),
         /\ acHandler'[h].there = acHandler[h].there /\ acHandler'[h].arsi = acHandler[h].arsi
         /\ acHandler'[h].log = acHandler[h].log /\ acHandler'[h].told = acHandler[h].told
         /\ acHandler'[h].dumps = acHandler[h].dumps /\ acHandler'[h].dump = acHandler[h].dump
  PROVE  AcTold(h)'
<1>1. AcComponentOf(h)' = AcComponentOf(h)
  BY AcSame
<1> QED
  BY <1>1 DEF AcTold

\* A step of a stream's call
AcStepBy(s) ==
    /\ acWork[s] # <<>>
    /\ UNCHANGED <<acFixed, acController, acComponent, acFailed, acRaced>> /\ acHalted' = FALSE
    /\ \/ /\ acWork[s][1].do = "lock" /\ acWork[s][1].on \notin acHeld
          /\ acWork' = [acWork EXCEPT ![s] = Tail(@)] /\ acHeld' = acHeld \cup {acWork[s][1].on}
       \/ acWork[s][1].do # "lock" /\ AcGoesOn(s)
    /\ acStage' \in [AcTasks -> {"away", "made", "ready", "ending"}]
    /\ \A u \in AcTasks \ {s} : acStage'[u] = acStage[u] /\ (u \in acManagers' <=> u \in acManagers)
    /\ acHandler' \in [AcHandlers -> AcHandlerTypes]
    /\ \A h \in AcHandlers \ AcOf(s) : acHandler'[h] = acHandler[h]
    /\ \/ \A h \in AcOf(s) : acHandler[h].there => acHandler'[h].there
       \/ AcHasCtl(acWork[s])

\* A stream's step keeps the invariant if it keeps the stream's own part.
LEMMA AcStepKeeps ==
  ASSUME AcInv, NEW s \in AcTasks, AcStepBy(s),
         AcStreamFits(s)', AcReserves', \A h \in AcOf(s) : AcTold(h)'
  PROVE  AcInv'
<1> USE DEF AcStepBy
<1>0. AcTypeOK /\ s \in AcTasks \cup {AcControl}
  BY DEF AcInv
<1>1. /\ acWork'[s] = Tail(acWork[s]) /\ DOMAIN acWork' = DOMAIN acWork
      /\ \A u \in (AcTasks \cup {AcControl}) \ {s} : acWork'[u] = acWork[u]
      /\ \A u \in AcTasks \cup {AcControl} : AcList(acWork'[u])
      /\ AcGoesOn(s) => acHeld' = acHeld \ acWork[s][1].frees
  BY <1>0, AcGoesOnIs
<1>2. acController = "on"
  BY <1>0, AcControllerOn DEF AcInv
<1>3. DOMAIN acWork = AcTasks \cup {AcControl} /\ AcList(acWork[s])
  BY <1>0 DEF AcTypeOK
<1>4. AcByStream(s)
  <2>1. DOMAIN acWork' = AcTasks \cup {AcControl}
    BY <1>1, <1>3
  <2> QED
    BY <1>1, <1>2, <2>1 DEF AcByStream
<1>5. AcOneHasCtl'
  <2>1. AcCtlOrder(acWork[s])
    BY <1>3, AcStreamCtl DEF AcInv, AcStreamFits
  <2>2. acStreams' = acStreams
    BY DEF acFixed
  <2> QED
    BY <1>0, <1>1, <2>1, <2>2, AcCtlGoes DEF AcInv
<1> QED
  BY <1>4, <1>5, AcByStreamKeeps

\* A call that begins keeps the invariant.
LEMMA AcCallKeeps ==
  ASSUME AcInv, NEW s \in AcTasks, NEW w, AcList(w), AcCalls(s, w), AcShape(s, acStage[s], w),
         acController = "on",
         acStage[s] \in {"away", "ending"} => w # <<>> /\ AcIsLock(w[1], AcCtl),
         acStage[s] = "away" => AcLeft(w, "create", s),
         acStage[s] = "ready" /\ AcLeft(w, "end", "ending") => \A h \in AcOf(s) : AcLeft(w, "unmake", h),
         acStage[s] = "ending" => \A h \in AcOf(s) : AcLeft(w, "unlink", h)
  PROVE  AcInv'
<1>0. AcTypeOK
  BY DEF AcInv
<1>1. /\ acWork[s] = <<>> /\ acWork'[s] = w
      /\ \A u \in (AcTasks \cup {AcControl}) \ {s} : acWork'[u] = acWork[u]
      /\ DOMAIN acWork' = AcTasks \cup {AcControl}
      /\ acWork' = [acWork EXCEPT ![s] = w]
  BY <1>0 DEF AcCalls, AcIdle, AcTypeOK
<1>2. /\ UNCHANGED <<acFixed, acController, acComponent, acFailed, acRaced>> /\ acHalted' = FALSE
      /\ acStreams' = acStreams /\ acCommands' = acCommands
      /\ acStage' = acStage /\ acManagers' = acManagers /\ acHandler' = acHandler /\ acHeld' = acHeld
      /\ acReserved' = acReserved
  BY <1>0 DEF AcCalls, acFixed, acLibs, AcTypeOK
<1>3. AcByStream(s)
  BY <1>0, <1>1, <1>2 DEF AcByStream, AcTypeOK
<1>4. AcStreamFits(s)'
  BY <1>0, <1>1, <1>2, AcStartFits DEF AcInv
<1>5. AcReserves'
  BY <1>2, AcReservesSame DEF AcInv
<1>6. ASSUME NEW h \in AcOf(s) PROVE AcTold(h)'
  <2>1. AcTold(h)
    BY AcHandlersAre DEF AcInv
  <2>2. AcToSay(h)' <=> AcToSay(h)
    <3>1. acWork'[AcControl] = acWork[AcControl]
      BY <1>0, <1>1, AcFixedIs
    <3> QED
      BY <3>1 DEF AcToSay
  <2> QED
    BY <1>2, <2>1, <2>2, AcToldSame
<1>7. AcOneHasCtl'
  <2>1. ~AcHasCtl(w)
    <3>1. CASE acStage[s] \in {"away", "ending"}
      BY <3>1 DEF AcHasCtl
    <3>2. CASE acStage[s] \notin {"away", "ending"}
      <4>1. \A k \in DOMAIN w : AcCtl \notin w[k].frees
        BY <3>2 DEF AcShape, AcStreamStep
      <4>2. w # <<>> => Len(w) \in DOMAIN w
        BY AcListIs, Zenon
      <4> QED
        BY <4>1, <4>2 DEF AcHasCtl
    <3> QED
      BY <3>1, <3>2
  <2>2. ~AcHasCtl(acWork[s])
    BY <1>1 DEF AcHasCtl
  <2>3. \A t \in AcTasks \cup {AcControl} : AcHasCtl(acWork'[t]) <=> AcHasCtl(acWork[t])
    BY <1>1, <2>1, <2>2
  <2> QED
    BY <1>2, <2>3, AcCtlSame DEF AcInv
<1> QED
  BY <1>2, <1>3, <1>4, <1>5, <1>6, <1>7, AcByStreamKeeps

\* Each of the actions of a stream keeps the invariant.
LEMMA AcCreateManagerKeeps ==
  ASSUME AcInv, NEW s \in AcTasks, AcCreateManager(s)
  PROVE  AcInv'
<1> DEFINE w == <<AcTakes(<<"controller">>), AcTakes(<<"managers">>), AcDoes("create", s, {<<"managers">>}),
                  AcDoes("end", "made", {<<"controller">>})>>
<1>1. acStage[s] = "away" /\ acController = "on" /\ AcCalls(s, w)
  BY DEF AcCreateManager
<1>2. AcList(w) /\ w # <<>> /\ AcShape(s, "away", w) /\ AcLeft(w, "create", s) /\ AcIsLock(w[1], AcCtl)
  BY AcCreationShape
<1> HIDE DEF w
<1> QED
  BY <1>1, <1>2, AcCallKeeps

\* The end of a manager begins: all of it is still there.
LEMMA AcDestroyManagerKeeps ==
  ASSUME AcInv, NEW s \in AcTasks, AcDestroyManager(s)
  PROVE  AcInv'
<1> DEFINE w == <<AcTakes(<<"controller">>), AcTakes(<<"managers">>), AcTakes(AcManagerLock(s)),
                  AcTakes(<<"handlers">>)>>
                \o AcEach(AcOwn(s), "unlink")
                \o <<AcDoes("free", s, {<<"handlers">>, AcManagerLock(s), <<"managers">>}),
                     AcDoes("end", "away", {<<"controller">>})>>
<1>0. AcTypeOK /\ AcControlFits
  BY DEF AcInv
<1>1. acStage[s] = "ending" /\ AcCalls(s, w)
  BY DEF AcDestroyManager
<1>2. /\ AcList(w) /\ w # <<>> /\ AcShape(s, "ending", w) /\ AcIsLock(w[1], AcCtl)
      /\ \A h \in AcOf(s) : AcLeft(w, "unlink", h)
  BY <1>0, AcDestructionShape
<1>3. acController = "on"
  BY <1>0, <1>1, AcControllerOn
<1> HIDE DEF w
<1> QED
  BY <1>1, <1>2, <1>3, AcCallKeeps

\* A call in the manager that does something to every handler
LEMMA AcManagedKeeps ==
  ASSUME AcInv, NEW s \in AcTasks, NEW do, NEW from, NEW to,
         \/ from = "made" /\ do = "make" /\ to = "ready"
         \/ from = "ready" /\ do = "use" /\ to = "ready"
         \/ from = "ready" /\ do = "unmake" /\ to = "ending",
         acStage[s] = from, AcCalls(s, AcInManager(s, AcEach(AcOwn(s), do), to))
  PROVE  AcInv'
<1> DEFINE mid == AcEach(AcOwn(s), do)  w == AcInManager(s, mid, to)
<1>0. AcTypeOK /\ AcControlFits
  BY DEF AcInv
<1>1. AcList(AcOwn(s)) /\ (\A i \in DOMAIN AcOwn(s) : AcOwn(s)[i] \in AcOf(s))
      /\ \A h \in AcOf(s) : \E i \in DOMAIN AcOwn(s) : AcOwn(s)[i] = h
  BY <1>0, AcOwnIs
<1>2. /\ AcList(mid)
      /\ \A k \in DOMAIN mid : \E i \in DOMAIN AcOwn(s) :
            \/ k = 2 * i - 1 /\ mid[k] = AcTakes(AcLockOf(AcOwn(s)[i]))
            \/ k = 2 * i /\ mid[k] = AcDoes(do, AcOwn(s)[i], {AcLockOf(AcOwn(s)[i])})
      /\ \A i \in DOMAIN AcOwn(s) : AcLeft(mid, do, AcOwn(s)[i])
  BY <1>1, AcEachIs
<1>3. AcCalls(s, w)
  OBVIOUS
<1> HIDE DEF mid
<1>4. \A k \in DOMAIN mid : \E h \in AcOf(s) : \/ mid[k] = AcTakes(AcLockOf(h))
                                               \/ mid[k] = AcDoes(do, h, {AcLockOf(h)})
  BY <1>1, <1>2
<1>5. /\ AcList(w) /\ w # <<>> /\ AcShape(s, from, w)
      /\ \A d, on : AcLeft(mid, d, on) => AcLeft(w, d, on)
      /\ \A on : AcLeft(w, "end", on) => on = to
  <2>1. w = AcInManager(s, mid, to)
    OBVIOUS
  <2> HIDE DEF w
  <2>2. AcManagedCalls(do, from, to) /\ AcOnOwn(s, mid, do)
    BY <1>4 DEF AcManagedCalls, AcOnOwn
  <2>3. AcManaged(w, s, mid, from, to)
    BY <1>2, <2>1, <2>2, AcManagedShape, Zenon
  <2> QED
    BY <2>3 DEF AcManaged
<1>6. acController = "on"
  BY <1>0, AcControllerOn
<1>7. AcLeft(w, "end", "ending") => \A h \in AcOf(s) : AcLeft(w, "unmake", h)
  BY <1>1, <1>2, <1>5
<1> HIDE DEF w
<1> QED
  BY <1>3, <1>5, <1>6, <1>7, AcCallKeeps

\* A call for one handler begins.
LEMMA AcSetKeeps ==
  ASSUME AcInv, NEW h \in AcHandlers, AcSet(h[1], h)
  PROVE  AcInv'
<1> DEFINE s == h[1]  mid == AcUnder(h, "use")  w == AcInManager(s, mid, "ready")
<1>0. AcTypeOK /\ AcControlFits
  BY DEF AcInv
<1>1. s \in AcTasks /\ h \in AcOf(s)
  BY <1>0, AcHandlersAre
<1>2. acStage[s] = "ready" /\ AcCalls(s, w)
  BY DEF AcSet
<1>3. AcList(mid) /\ \A k \in DOMAIN mid : \/ mid[k] = AcTakes(AcLockOf(h))
                                           \/ mid[k] = AcDoes("use", h, {AcLockOf(h)})
  <2> DEFINE x == AcTakes(AcLockOf(h))  y == AcDoes("use", h, {AcLockOf(h)})
  <2>1. mid = <<x, y>>
    BY DEF AcUnder
  <2> HIDE DEF x, y, mid
  <2>2. mid \in Seq({x, y}) /\ \A k \in DOMAIN mid : mid[k] \in {x, y}
    BY <2>1
  <2>3. AcList(mid)
    BY <2>2, AcSeqIsList, Zenon
  <2> QED
    BY <2>2, <2>3 DEF x, y
<1> HIDE DEF mid, s
<1>4. \A k \in DOMAIN mid : \E g \in AcOf(s) : \/ mid[k] = AcTakes(AcLockOf(g))
                                               \/ mid[k] = AcDoes("use", g, {AcLockOf(g)})
  BY <1>1, <1>3
<1>5. /\ AcList(w) /\ w # <<>> /\ AcShape(s, "ready", w)
      /\ \A on : AcLeft(w, "end", on) => on = "ready"
  <2>1. w = AcInManager(s, mid, "ready")
    OBVIOUS
  <2> HIDE DEF w
  <2>2. AcManagedCalls("use", "ready", "ready") /\ AcOnOwn(s, mid, "use")
    BY <1>4 DEF AcManagedCalls, AcOnOwn
  <2>3. AcManaged(w, s, mid, "ready", "ready")
    BY <1>3, <2>1, <2>2, AcManagedShape, Zenon
  <2> QED
    BY <2>3 DEF AcManaged
<1>6. acController = "on"
  BY <1>0, <1>1, <1>2, AcControllerOn
<1>7. ~AcLeft(w, "end", "ending")
  BY <1>5
<1> HIDE DEF w
<1> QED
  BY <1>1, <1>2, <1>5, <1>6, <1>7, AcCallKeeps

\* Parameters begin to be applied, under no lock.
LEMMA AcApplyParamKeeps ==
  ASSUME AcInv, NEW s \in AcTasks, AcApplyParam(s)
  PROVE  AcInv'
<1> DEFINE w == AcInTurn([k \in DOMAIN AcOwn(s) |-> AcDoes("move", AcOwn(s)[k], {})],
                         [k \in DOMAIN AcOwn(s) |-> AcDoes("copy", AcOwn(s)[k], {})])
<1>0. AcTypeOK /\ AcControlFits
  BY DEF AcInv
<1>1. acStage[s] \in {"made", "ready"} /\ AcCalls(s, w)
  BY DEF AcApplyParam
<1>2. AcList(w) /\ AcShape(s, acStage[s], w) /\ \A on : ~AcLeft(w, "end", on)
  BY <1>0, <1>1, AcApplyShape
<1>3. acController = "on"
  BY <1>0, <1>1, AcControllerOn
<1> HIDE DEF w
<1> QED
  BY <1>1, <1>2, <1>3, AcCallKeeps

\* Steps after which what is said of handlers is as before
LEMMA AcQuietKeeps ==
  ASSUME AcInv, NEW s \in AcTasks, acWork[s] # <<>>,
         UNCHANGED <<acFixed, acController, acComponent, acFailed, acRaced>>, acHalted' = FALSE,
         \/ /\ acWork[s][1].do = "lock" /\ acWork[s][1].on \notin acHeld
            /\ acWork' = [acWork EXCEPT ![s] = Tail(@)] /\ acHeld' = acHeld \cup {acWork[s][1].on}
         \/ acWork[s][1].do \in {"use", "move", "copy"} /\ AcGoesOn(s),
         acStage' = acStage, acManagers' = acManagers, acReserved' = acReserved,
         acHandler' \in [AcHandlers -> AcHandlerTypes],
         \A h \in AcHandlers \ AcOf(s) : acHandler'[h] = acHandler[h],
         \A h \in AcOf(s) : 
            /\ acHandler'[h].there = acHandler[h].there /\ acHandler'[h].arsi = acHandler[h].arsi
            /\ acHandler'[h].log = acHandler[h].log /\ acHandler'[h].told = acHandler[h].told
            /\ acHandler'[h].dumps = acHandler[h].dumps /\ acHandler'[h].dump = acHandler[h].dump
  PROVE  AcInv'
<1>0. AcTypeOK /\ s \in AcTasks \cup {AcControl} /\ acStreams' = acStreams /\ acCommands' = acCommands
  BY DEF AcInv, acFixed
<1>1. /\ acWork'[s] = Tail(acWork[s])
      /\ \A u \in (AcTasks \cup {AcControl}) \ {s} : acWork'[u] = acWork[u]
  BY <1>0, AcGoesOnIs
<1>2. acStage' \in [AcTasks -> {"away", "made", "ready", "ending"}]
  BY <1>0 DEF AcTypeOK
<1>3. AcStreamFits(s)'
  BY <1>0, <1>1, AcQuietFits DEF AcInv
<1>4. AcReserves'
  <2>1. \A h \in AcHandlers : acHandler'[h].arsi <=> acHandler[h].arsi
    OBVIOUS
  <2> QED
    BY <1>0, <2>1, AcReservesSame DEF AcInv
<1>5. ASSUME NEW h \in AcOf(s) PROVE AcTold(h)'
  <2>1. AcTold(h)
    BY <1>0, AcHandlersAre DEF AcInv
  <2>2. AcToSay(h)' <=> AcToSay(h)
    <3>1. acWork'[AcControl] = acWork[AcControl]
      BY <1>0, <1>1, AcFixedIs
    <3> QED
      BY <3>1 DEF AcToSay
  <2> QED
    BY <1>0, <2>1, <2>2, AcToldSame
<1>6. \A h \in AcOf(s) : acHandler[h].there => acHandler'[h].there
  OBVIOUS
<1>7. AcStepBy(s)
  BY <1>2, <1>6 DEF AcStepBy
<1> QED
  BY <1>3, <1>4, <1>5, <1>7, AcStepKeeps, Zenon

\* A stream takes a lock.
LEMMA AcLockKeeps ==
  ASSUME AcInv, NEW s \in AcTasks, AcLock(s)
  PROVE  AcInv'
<1>0. AcTypeOK /\ s \in AcTasks \cup {AcControl}
  BY DEF AcInv
<1>1. acWork[s] # <<>> /\ acWork[s][1].do = "lock" /\ AcOn(s) = acWork[s][1].on
  BY <1>0, AcTurnIs DEF AcLock
<1>2. /\ UNCHANGED <<acFixed, acController, acComponent, acFailed, acRaced>> /\ acHalted' = FALSE
      /\ acStage' = acStage /\ acManagers' = acManagers /\ acReserved' = acReserved
      /\ acHandler' = acHandler
  BY <1>0 DEF AcLock, acFixed, acLibs, AcTypeOK
<1>3. acHandler' \in [AcHandlers -> AcHandlerTypes]
  BY <1>0, <1>2 DEF AcTypeOK
<1> QED
  BY <1>1, <1>2, <1>3, AcQuietKeeps DEF AcLock

\* A library is used.
LEMMA AcUseKeeps ==
  ASSUME AcInv, NEW s \in AcTasks, AcUse(s)
  PROVE  AcInv'
<1>0. AcTypeOK /\ s \in AcTasks \cup {AcControl}
  BY DEF AcInv
<1>1. acWork[s] # <<>> /\ acWork[s][1].do = "use" /\ AcGoesOn(s)
  BY <1>0, AcTurnIs DEF AcUse
<1>2. /\ UNCHANGED <<acFixed, acController, acComponent, acFailed, acRaced>> /\ acHalted' = FALSE
      /\ acStage' = acStage /\ acManagers' = acManagers /\ acReserved' = acReserved
      /\ acHandler' = acHandler
  BY <1>0 DEF AcUse, acFixed, acLibs, AcTypeOK
<1>3. acHandler' \in [AcHandlers -> AcHandlerTypes]
  BY <1>0, <1>2 DEF AcTypeOK
<1> QED
  BY <1>1, <1>2, <1>3, AcQuietKeeps

\* The handler of a step is one of the stream's, and there.
LEMMA AcOnIsThere ==
  ASSUME AcInv, NEW s \in AcTasks, NEW do \in AcWorksOn, AcTurn(s, do)
  PROVE  /\ acWork[s] # <<>> /\ acWork[s][1].do = do /\ AcOn(s) = acWork[s][1].on
         /\ AcStreamStep(s, acStage[s], acWork[s][1]) /\ 1 \in DOMAIN acWork[s]
         /\ AcOn(s) \in AcOf(s) /\ AcOn(s) \in AcHandlers /\ acHandler[AcOn(s)].there
<1>0. AcTypeOK /\ s \in AcTasks \cup {AcControl}
  BY DEF AcInv
<1>1. /\ acWork[s] # <<>> /\ acWork[s][1].do = do /\ AcOn(s) = acWork[s][1].on
      /\ 1 \in DOMAIN acWork[s]
  BY <1>0, AcTurnIs
<1>2. AcStreamStep(s, acStage[s], acWork[s][1])
  BY <1>1 DEF AcInv, AcStreamFits, AcShape
<1>3. AcOn(s) \in AcOf(s)
  BY <1>1, <1>2 DEF AcStreamStep
<1>4. AcOn(s) \in AcHandlers
  BY <1>0, <1>3, AcHandlersAre
<1>5. AcUses(acWork[s][1], AcOn(s))
  BY <1>1 DEF AcUses, AcWorksOn
<1> QED
  BY <1>1, <1>2, <1>3, <1>4, <1>5 DEF AcInv, AcStreamFits, AcSafe

\* Parameters of a handler are moved, or copied.
LEMMA AcMoveKeeps ==
  ASSUME AcInv, NEW s \in AcTasks, AcMove(s) \/ AcCopy(s)
  PROVE  AcInv'
<1> DEFINE h == AcOn(s)
<1>0. AcTypeOK /\ s \in AcTasks \cup {AcControl}
  BY DEF AcInv
<1>1. /\ acWork[s] # <<>> /\ acWork[s][1].do \in {"move", "copy"} /\ AcGoesOn(s)
      /\ h \in AcOf(s) /\ h \in AcHandlers
  BY AcOnIsThere DEF AcMove, AcCopy, AcWorksOn
<1>2. /\ UNCHANGED <<acFixed, acController, acComponent, acFailed, acRaced>> /\ acHalted' = FALSE
      /\ acStage' = acStage /\ acManagers' = acManagers /\ acReserved' = acReserved
  BY <1>0 DEF AcMove, AcCopy, acFixed, AcTypeOK
<1>3. PICK param \in {"none", "moving", "set"} : acHandler' = [acHandler EXCEPT ![h].param = param]
  BY DEF AcMove, AcCopy
<1> HIDE DEF h
<1>4. acHandler \in [AcHandlers -> AcHandlerTypes]
  BY <1>0 DEF AcTypeOK
<1>5. acHandler' \in [AcHandlers -> AcHandlerTypes]
  BY <1>1, <1>3, <1>4 DEF AcHandlerTypes
<1>6. \A g \in AcHandlers : g # h => acHandler'[g] = acHandler[g]
  BY <1>3, <1>4
<1>7. \A g \in AcHandlers :
            /\ acHandler'[g].there = acHandler[g].there /\ acHandler'[g].arsi = acHandler[g].arsi
            /\ acHandler'[g].log = acHandler[g].log /\ acHandler'[g].told = acHandler[g].told
            /\ acHandler'[g].dumps = acHandler[g].dumps /\ acHandler'[g].dump = acHandler[g].dump
  BY <1>3, <1>4 DEF AcHandlerTypes
<1>8. \A g \in AcHandlers \ AcOf(s) : acHandler'[g] = acHandler[g]
  BY <1>1, <1>6
<1>9. \A g \in AcOf(s) : g \in AcHandlers
  BY <1>0, AcHandlersAre
<1> QED
  BY <1>1, <1>2, <1>5, <1>7, <1>8, <1>9, AcQuietKeeps

\* A call ends.
LEMMA AcEndKeeps ==
  ASSUME AcInv, NEW s \in AcTasks, AcEnd(s)
  PROVE  AcInv'
<1>0. AcTypeOK /\ s \in AcTasks \cup {AcControl}
  BY DEF AcInv
<1>1. /\ acWork[s] # <<>> /\ acWork[s][1].do = "end" /\ AcGoesOn(s) /\ 1 \in DOMAIN acWork[s]
      /\ acStage' = [acStage EXCEPT ![s] = acWork[s][1].on]
  BY <1>0, AcTurnIs DEF AcEnd
<1>2. /\ UNCHANGED <<acFixed, acController, acComponent, acFailed, acRaced>> /\ acHalted' = FALSE
      /\ acManagers' = acManagers /\ acReserved' = acReserved /\ acHandler' = acHandler
      /\ acStreams' = acStreams /\ acCommands' = acCommands
  BY <1>0 DEF AcEnd, acFixed, acLibs, AcTypeOK
<1>3. acWork[s][1].on \in {"away", "made", "ready", "ending"}
  <2>1. AcStreamStep(s, acStage[s], acWork[s][1])
    BY <1>1 DEF AcInv, AcStreamFits, AcShape
  <2> QED
    BY <1>1, <2>1 DEF AcStreamStep
<1>4. /\ acStage' \in [AcTasks -> {"away", "made", "ready", "ending"}]
      /\ acStage'[s] = acWork[s][1].on /\ \A u \in AcTasks \ {s} : acStage'[u] = acStage[u]
  BY <1>0, <1>1, <1>3 DEF AcTypeOK
<1>5. /\ acWork'[s] = Tail(acWork[s])
      /\ \A u \in (AcTasks \cup {AcControl}) \ {s} : acWork'[u] = acWork[u]
  BY <1>0, <1>1, AcGoesOnIs
<1>6. AcStreamFits(s)'
  BY <1>0, <1>1, <1>2, <1>4, <1>5, AcEndFits DEF AcInv
<1>7. AcReserves'
  BY <1>2, AcReservesSame DEF AcInv
<1>8. ASSUME NEW h \in AcOf(s) PROVE AcTold(h)'
  <2>1. AcTold(h)
    BY <1>0, AcHandlersAre DEF AcInv
  <2>2. AcToSay(h)' <=> AcToSay(h)
    <3>1. acWork'[AcControl] = acWork[AcControl]
      BY <1>0, <1>5, AcFixedIs
    <3> QED
      BY <3>1 DEF AcToSay
  <2> QED
    BY <1>2, <2>1, <2>2, AcToldSame
<1>9. acHandler' \in [AcHandlers -> AcHandlerTypes]
  BY <1>0, <1>2 DEF AcTypeOK
<1>10. AcStepBy(s)
  BY <1>1, <1>2, <1>4, <1>9 DEF AcStepBy
<1> QED
  BY <1>6, <1>7, <1>8, <1>10, AcStepKeeps, Zenon

\* The manager is freed.
LEMMA AcFreeKeeps ==
  ASSUME AcInv, NEW s \in AcTasks, AcFree(s)
  PROVE  AcInv'
<1>0. AcTypeOK /\ s \in AcTasks \cup {AcControl}
  BY DEF AcInv
<1>1. acWork[s] # <<>> /\ acWork[s][1].do = "free" /\ AcGoesOn(s)
  BY <1>0, AcTurnIs DEF AcFree
<1>2. /\ UNCHANGED <<acFixed, acController, acComponent, acFailed, acRaced>> /\ acHalted' = FALSE
      /\ acManagers' = acManagers \ {s} /\ acReserved' = acReserved /\ acHandler' = acHandler
      /\ acStage' = acStage /\ acStreams' = acStreams /\ acCommands' = acCommands
  BY <1>0 DEF AcFree, acFixed, acLibs, AcTypeOK
<1>3. acStage' \in [AcTasks -> {"away", "made", "ready", "ending"}]
  BY <1>0, <1>2 DEF AcTypeOK
<1>5. /\ acWork'[s] = Tail(acWork[s])
      /\ \A u \in (AcTasks \cup {AcControl}) \ {s} : acWork'[u] = acWork[u]
  BY <1>0, <1>1, AcGoesOnIs
<1>6. AcStreamFits(s)'
  BY <1>0, <1>1, <1>2, <1>5, AcFreeFits DEF AcInv
<1>7. AcReserves'
  BY <1>2, AcReservesSame DEF AcInv
<1>8. ASSUME NEW h \in AcOf(s) PROVE AcTold(h)'
  <2>1. AcTold(h)
    BY <1>0, AcHandlersAre DEF AcInv
  <2>2. AcToSay(h)' <=> AcToSay(h)
    <3>1. acWork'[AcControl] = acWork[AcControl]
      BY <1>0, <1>5, AcFixedIs
    <3> QED
      BY <3>1 DEF AcToSay
  <2> QED
    BY <1>2, <2>1, <2>2, AcToldSame
<1>9. acHandler' \in [AcHandlers -> AcHandlerTypes]
  BY <1>0, <1>2 DEF AcTypeOK
<1>10. \A u \in AcTasks \ {s} : acStage'[u] = acStage[u] /\ (u \in acManagers' <=> u \in acManagers)
  BY <1>2
<1>11. AcStepBy(s)
  BY <1>1, <1>2, <1>3, <1>9, <1>10 DEF AcStepBy
<1> QED
  BY <1>6, <1>7, <1>8, <1>11, AcStepKeeps, Zenon

\* The new handlers log as the component says, which no command can change meanwhile.
LEMMA AcCreateKeeps ==
  ASSUME AcInv, NEW s \in AcTasks, AcCreate(s)
  PROVE  AcInv'
<1>0. AcTypeOK /\ s \in AcTasks \cup {AcControl}
  BY DEF AcInv
<1>1. acWork[s] # <<>> /\ acWork[s][1].do = "create" /\ AcGoesOn(s) /\ 1 \in DOMAIN acWork[s]
  BY <1>0, AcTurnIs DEF AcCreate
<1>2. /\ UNCHANGED <<acFixed, acController, acComponent, acFailed, acRaced>> /\ acHalted' = FALSE
      /\ acManagers' = acManagers \cup {s} /\ acReserved' = acReserved
      /\ acStage' = acStage /\ acStreams' = acStreams /\ acCommands' = acCommands
  BY <1>0 DEF AcCreate, acFixed, AcTypeOK
<1>3. acStage' \in [AcTasks -> {"away", "made", "ready", "ending"}]
  BY <1>0, <1>2 DEF AcTypeOK
<1>4. acHandler' = [h \in AcHandlers |->
          IF h[1] # s THEN acHandler[h]
          ELSE LET c == acComponent[AcComponentOf(h)] IN
               [AcNoHandler EXCEPT !.there = TRUE, !.log = c.log, !.dumps = c.dump]]
  BY DEF AcCreate
<1>5. /\ acWork'[s] = Tail(acWork[s])
      /\ \A u \in (AcTasks \cup {AcControl}) \ {s} : acWork'[u] = acWork[u]
  BY <1>0, <1>1, AcGoesOnIs
<1>6. ASSUME NEW h \in AcHandlers
      PROVE  acComponent[AcComponentOf(h)] \in [log : BOOLEAN, dump : BOOLEAN]
  <2>1. AcComponentOf(h) \in AcComponents
    BY DEF AcComponents
  <2> QED
    BY <1>0, <2>1 DEF AcTypeOK
<1>7. ASSUME NEW h \in AcOf(s)
      PROVE  /\ acHandler'[h].there /\ acHandler'[h].log = acComponent[AcComponentOf(h)].log
             /\ acHandler'[h].arsi = FALSE /\ acHandler'[h].dump = FALSE
             /\ acHandler[h].arsi = FALSE /\ h \in AcHandlers /\ acHandler'[h] \in AcHandlerTypes
  <2>1. h \in AcHandlers /\ h[1] = s
    BY <1>0, AcHandlersAre
  <2>2. acHandler'[h] = LET c == acComponent[AcComponentOf(h)] IN
               [AcNoHandler EXCEPT !.there = TRUE, !.log = c.log, !.dumps = c.dump]
    BY <1>4, <2>1
  <2>3. acStage[s] = "away" /\ acWork[s][1].on = s
    BY <1>1 DEF AcInv, AcStreamFits, AcShape, AcStreamStep
  <2>4. ~acHandler[h].there
    BY <1>1, <2>3 DEF AcInv, AcStreamFits, AcStands, AcLeft
  <2>5. acHandler[h].arsi = FALSE
    <3>1. acHandler[h].arsi \in BOOLEAN
      BY <1>0, <2>1 DEF AcTypeOK, AcHandlerTypes
    <3> QED
      BY <2>1, <2>4, <3>1 DEF AcInv, AcTold
  <2> QED
    BY <1>6, <2>1, <2>2, <2>5 DEF AcNoHandler, AcHandlerTypes
<1>8. \A h \in AcHandlers \ AcOf(s) : acHandler'[h] = acHandler[h]
  BY <1>4 DEF AcOf
<1>9. acHandler' \in [AcHandlers -> AcHandlerTypes]
  <2>1. \A h \in AcHandlers : acHandler'[h] \in AcHandlerTypes
    BY <1>0, <1>7, <1>8 DEF AcTypeOK
  <2> QED
    BY <1>4, <2>1
<1>10. AcStreamFits(s)'
  BY <1>0, <1>1, <1>2, <1>5, <1>7, AcCreateFits DEF AcInv
<1>11. AcReserves'
  <2>1. \A h \in AcHandlers : acHandler'[h].arsi <=> acHandler[h].arsi
    BY <1>7, <1>8
  <2> QED
    BY <1>2, <2>1, AcReservesSame DEF AcInv
<1>12. ASSUME NEW h \in AcOf(s) PROVE AcTold(h)'
  <2>1. AcComponentOf(h)' = AcComponentOf(h) /\ acComponent' = acComponent
    BY <1>2, AcSame
  <2> QED
    BY <1>7, <2>1 DEF AcTold
<1>13. \A u \in AcTasks \ {s} : acStage'[u] = acStage[u] /\ (u \in acManagers' <=> u \in acManagers)
  BY <1>2
<1>14. AcStepBy(s)
  BY <1>1, <1>2, <1>3, <1>7, <1>8, <1>9, <1>13 DEF AcStepBy
<1> QED
  BY <1>10, <1>11, <1>12, <1>14, AcStepKeeps, Zenon

\* A handler is freed by who has the controller's lock, so that no command is on its way to it.
LEMMA AcUnlinkKeeps ==
  ASSUME AcInv, NEW s \in AcTasks, AcUnlink(s)
  PROVE  AcInv'
<1> DEFINE h == AcOn(s)
<1>0. AcTypeOK /\ s \in AcTasks \cup {AcControl}
  BY DEF AcInv
<1>1. /\ acWork[s] # <<>> /\ acWork[s][1].do = "unlink" /\ AcGoesOn(s) /\ 1 \in DOMAIN acWork[s]
      /\ h \in AcOf(s) /\ h \in AcHandlers /\ acHandler[h].there
      /\ AcStreamStep(s, acStage[s], acWork[s][1]) /\ h = acWork[s][1].on
  BY AcOnIsThere DEF AcUnlink, AcWorksOn
<1>2. /\ UNCHANGED <<acFixed, acController, acComponent, acFailed, acRaced>> /\ acHalted' = FALSE
      /\ acManagers' = acManagers /\ acReserved' = acReserved
      /\ acStage' = acStage /\ acStreams' = acStreams /\ acCommands' = acCommands
  BY <1>0 DEF AcUnlink, acFixed, AcTypeOK
<1>3. acStage' \in [AcTasks -> {"away", "made", "ready", "ending"}] /\ acStage[s] = "ending"
  BY <1>0, <1>1, <1>2 DEF AcTypeOK, AcStreamStep
<1>4. acHandler' = [acHandler EXCEPT ![h] = AcNoHandler]
  BY DEF AcUnlink
<1>5. /\ acWork'[s] = Tail(acWork[s])
      /\ \A u \in (AcTasks \cup {AcControl}) \ {s} : acWork'[u] = acWork[u]
  BY <1>0, <1>1, AcGoesOnIs
<1> HIDE DEF h
<1>6. acHandler \in [AcHandlers -> AcHandlerTypes]
  BY <1>0 DEF AcTypeOK
<1>7. /\ acHandler' \in [AcHandlers -> AcHandlerTypes] /\ acHandler'[h] = AcNoHandler
      /\ \A g \in AcHandlers : g # h => acHandler'[g] = acHandler[g]
  BY <1>1, <1>4, <1>6 DEF AcHandlerTypes, AcNoHandler
<1>8. acHandler[h].arsi = FALSE
  <2>1. acHandler[h].arsi \in BOOLEAN
    BY <1>1, <1>6 DEF AcHandlerTypes
  <2> QED
    BY <1>1, <1>3, <2>1 DEF AcInv, AcStreamFits, AcStands
<1>9. \A g \in AcOf(s) : g \in AcHandlers
  BY <1>0, AcHandlersAre
<1>10. AcStreamFits(s)'
  <2>1. \A g \in AcOf(s) : /\ acHandler'[g].there = (acHandler[g].there /\ g # acWork[s][1].on)
                           /\ acHandler'[g].arsi = (acHandler[g].arsi /\ g # acWork[s][1].on)
    <3> SUFFICES ASSUME NEW g \in AcOf(s)
                 PROVE  /\ acHandler'[g].there = (acHandler[g].there /\ g # acWork[s][1].on)
                        /\ acHandler'[g].arsi = (acHandler[g].arsi /\ g # acWork[s][1].on)
      OBVIOUS
    <3>1. acHandler[g].there \in BOOLEAN /\ acHandler[g].arsi \in BOOLEAN /\ g \in AcHandlers
      BY <1>6, <1>9 DEF AcHandlerTypes
    <3>2. CASE g = h
      <4>1. acHandler'[g].there = FALSE /\ acHandler'[g].arsi = FALSE
        BY <1>7, <3>2 DEF AcNoHandler
      <4>2. g = acWork[s][1].on
        BY <1>1, <3>2
      <4> QED
        BY <4>1, <4>2
    <3>3. CASE g # h
      BY <1>1, <1>7, <3>1, <3>3
    <3> QED
      BY <3>2, <3>3
  <2> QED
    BY <1>0, <1>1, <1>2, <1>5, <2>1, AcUnlinkFits DEF AcInv
<1>11. AcReserves'
  <2>1. \A g \in AcHandlers : acHandler'[g].arsi <=> acHandler[g].arsi
    BY <1>7, <1>8 DEF AcNoHandler
  <2> QED
    BY <1>2, <2>1, AcReservesSame DEF AcInv
<1>12. ASSUME NEW g \in AcOf(s) PROVE AcTold(g)'
  <2>1. AcTold(g)
    BY <1>9 DEF AcInv
  <2>2. AcToSay(g)' <=> AcToSay(g)
    <3>1. acWork'[AcControl] = acWork[AcControl]
      BY <1>0, <1>5, AcFixedIs
    <3> QED
      BY <3>1 DEF AcToSay
  <2>3. CASE g = h
    BY <1>7, <2>3 DEF AcTold, AcNoHandler
  <2>4. CASE g # h
    <3>1. acHandler'[g] = acHandler[g] /\ acComponent' = acComponent
      BY <1>2, <1>7, <1>9, <2>4
    <3> QED
      BY <1>2, <2>1, <2>2, <3>1, AcToldSame
  <2> QED
    BY <2>3, <2>4
<1>13. AcHasCtl(acWork[s])
  <2>1. acWork[s][Len(acWork[s])].do = "end"
    BY <1>1 DEF AcInv, AcStreamFits, AcShape, AcStreamOrder
  <2>2. Len(acWork[s]) \in DOMAIN acWork[s]
    BY <1>0, <1>1, AcListIs, Zenon DEF AcTypeOK
  <2>3. AcCtl \in acWork[s][Len(acWork[s])].frees
    BY <1>3, <2>1, <2>2 DEF AcInv, AcStreamFits, AcShape, AcStreamStep
  <2> QED
    BY <1>1, <2>3 DEF AcHasCtl, AcIsLock
<1>14. \A g \in AcHandlers \ AcOf(s) : acHandler'[g] = acHandler[g]
  BY <1>1, <1>7
<1>15. AcStepBy(s)
  BY <1>1, <1>2, <1>3, <1>7, <1>13, <1>14 DEF AcStepBy
<1> QED
  BY <1>10, <1>11, <1>12, <1>15, AcStepKeeps, Zenon

\* No two libraries need the same reserved memory.
LEMMA AcRegionsApart ==
  ASSUME AcTypeOK, NEW g \in AcHandlers, NEW h \in AcHandlers, NEW r, r \in AcRegions(g), r \in AcRegions(h)
  PROVE  g = h
<1> DEFINE way(f) == acStreams[f[1]].way
<1>1. \A f \in {g, h} : /\ f[1] \in AcTasks /\ f = <<f[1], f[2]>> /\ f[2] \in ToSet(acStreams[f[1]].libs)
                        /\ way(f) \in {"ul", "dl", "both"}
  BY AcHandlersAre, AcFixedIs
<1>2. /\ g[2] \in AcReserve /\ h[2] \in AcReserve
      /\ r \in (IF way(g) = "both" THEN {"dl", "ul"} ELSE {way(g)})
      /\ r \in (IF way(h) = "both" THEN {"dl", "ul"} ELSE {way(h)})
  BY DEF AcRegions
<1>3. <<g[1], g[2]>> = <<h[1], h[2]>> \/ {way(g), way(h)} = {"ul", "dl"}
  BY <1>1, <1>2, AcFixedIs
<1>4. {way(g), way(h)} # {"ul", "dl"}
  <2> HIDE DEF way
  <2>1. way(g) \in {"ul", "dl", "both"} /\ way(h) \in {"ul", "dl", "both"}
    BY <1>1
  <2>2. way(g) = "both" \/ way(h) = "both" \/ (way(g) = r /\ way(h) = r)
    BY <1>2
  <2>3. ASSUME {way(g), way(h)} = {"ul", "dl"} PROVE FALSE
    <3>1. way(g) \in {"ul", "dl"} /\ way(h) \in {"ul", "dl"}
      BY <2>3
    <3>2. "ul" \in {way(g), way(h)} /\ "dl" \in {way(g), way(h)}
      BY <2>3
    <3> QED
      BY <2>2, <3>1, <3>2
  <2> QED
    BY <2>3
<1> QED
  BY <1>1, <1>3, <1>4

\* An instance is made: its reserved memory is free, as nobody else needs it in that direction.
LEMMA AcMakeKeeps ==
  ASSUME AcInv, NEW s \in AcTasks, AcMake(s)
  PROVE  AcInv'
<1> DEFINE h == AcOn(s)  old == acHandler[h]
<1>0. AcTypeOK /\ s \in AcTasks \cup {AcControl}
  BY DEF AcInv
<1>1. /\ acWork[s] # <<>> /\ acWork[s][1].do = "make" /\ AcGoesOn(s)
      /\ h \in AcOf(s) /\ h \in AcHandlers /\ old.there
  BY AcOnIsThere DEF AcMake, AcWorksOn
<1>2. /\ UNCHANGED <<acFixed, acController, acComponent, acFailed, acRaced>>
      /\ acManagers' = acManagers
      /\ acStage' = acStage /\ acStreams' = acStreams /\ acCommands' = acCommands
  BY DEF AcMake, acFixed
<1>3. /\ acHalted' = (~old.arsi /\ AcRegions(h) \cap acReserved # {})
      /\ acReserved' = IF old.arsi THEN acReserved ELSE acReserved \cup AcRegions(h)
      /\ acHandler' = IF old.arsi THEN acHandler
                      ELSE [acHandler EXCEPT ![h].arsi = TRUE, ![h].told = old.log, ![h].dump = old.dumps]
  BY DEF AcMake
<1>4. /\ acWork'[s] = Tail(acWork[s])
      /\ \A u \in (AcTasks \cup {AcControl}) \ {s} : acWork'[u] = acWork[u]
  BY <1>0, <1>1, AcGoesOnIs
<1> HIDE DEF h
<1>5. acHandler \in [AcHandlers -> AcHandlerTypes]
  BY <1>0 DEF AcTypeOK
<1>6. old \in AcHandlerTypes /\ old.arsi \in BOOLEAN
  BY <1>1, <1>5 DEF AcHandlerTypes
<1>7. /\ acHandler' \in [AcHandlers -> AcHandlerTypes]
      /\ \A g \in AcHandlers : g # h => acHandler'[g] = acHandler[g]
  BY <1>1, <1>3, <1>5, <1>6 DEF AcHandlerTypes
<1>8. /\ acHandler'[h].there = old.there /\ acHandler'[h].log = old.log /\ acHandler'[h].dumps = old.dumps
      /\ acHandler'[h].arsi = TRUE
      /\ acHandler'[h].told = (IF old.arsi THEN old.told ELSE old.log)
      /\ acHandler'[h].dump = (IF old.arsi THEN old.dump ELSE old.dumps)
  BY <1>1, <1>3, <1>5, <1>6 DEF AcHandlerTypes
<1>9. \A g \in AcOf(s) : g \in AcHandlers
  BY <1>0, AcHandlersAre
<1>10. \A r \in {"dl", "ul"} : r \in acReserved <=> \E g \in AcHandlers : acHandler[g].arsi /\ r \in AcRegions(g)
  BY DEF AcInv, AcReserves
<1>11. AcRegions(h) \subseteq {"dl", "ul"}
  <2>1. h[1] \in AcTasks
    BY <1>0, <1>1, AcHandlersAre
  <2>2. acStreams[h[1]].way \in {"ul", "dl", "both"}
    BY <1>0, <2>1, AcFixedIs
  <2> QED
    BY <2>2 DEF AcRegions
<1>12. acHalted' = FALSE
  <2>1. ASSUME ~old.arsi, NEW r \in AcRegions(h) \cap acReserved PROVE FALSE
    <3>1. PICK g \in AcHandlers : acHandler[g].arsi /\ r \in AcRegions(g)
      BY <1>10, <1>11
    <3>2. g = h
      BY <1>0, <1>1, <3>1, AcRegionsApart
    <3> QED
      BY <2>1, <3>1, <3>2
  <2> QED
    BY <1>3, <2>1
<1>13. AcReserves'
  <2>1. AcHandlers' = AcHandlers /\ \A g : AcRegions(g)' = AcRegions(g)
    BY <1>2, AcSame
  <2>2. acReserved' \subseteq {"dl", "ul"}
    BY <1>3, <1>11 DEF AcInv, AcReserves
  <2>3. ASSUME NEW r \in {"dl", "ul"}
        PROVE  r \in acReserved' <=> \E g \in AcHandlers : acHandler'[g].arsi /\ r \in AcRegions(g)
    <3>1. CASE old.arsi
      BY <1>3, <1>10, <3>1
    <3>2. CASE ~old.arsi
      <4>1. r \in acReserved' <=> r \in acReserved \/ r \in AcRegions(h)
        BY <1>3, <3>2
      <4>2. (\E g \in AcHandlers : acHandler'[g].arsi /\ r \in AcRegions(g))
            <=> r \in AcRegions(h) \/ \E g \in AcHandlers : acHandler[g].arsi /\ r \in AcRegions(g)
        BY <1>1, <1>7, <1>8, <3>2
      <4> QED
        BY <1>10, <4>1, <4>2
    <3> QED
      BY <3>1, <3>2
  <2> QED
    BY <2>1, <2>2, <2>3 DEF AcReserves
<1>14. AcStreamFits(s)'
  <2>1. \A g \in AcOf(s) : acHandler'[g].there = acHandler[g].there
    BY <1>7, <1>8, <1>9
  <2> QED
    BY <1>0, <1>1, <1>2, <1>4, <2>1, AcQuietFits DEF AcInv
<1>15. ASSUME NEW g \in AcOf(s) PROVE AcTold(g)'
  <2>1. AcTold(g)
    BY <1>9 DEF AcInv
  <2>2. AcToSay(g)' <=> AcToSay(g)
    <3>1. acWork'[AcControl] = acWork[AcControl]
      BY <1>0, <1>4, AcFixedIs
    <3> QED
      BY <3>1 DEF AcToSay
  <2>3. CASE g = h
    <3>1. AcComponentOf(g)' = AcComponentOf(g) /\ acComponent' = acComponent
      BY <1>2, AcSame
    <3> QED
      BY <1>1, <1>6, <1>8, <2>1, <2>2, <2>3, <3>1 DEF AcTold
  <2>4. CASE g # h
    <3>1. acHandler'[g] = acHandler[g] /\ acComponent' = acComponent
      BY <1>2, <1>7, <1>9, <2>4
    <3> QED
      BY <1>2, <2>1, <2>2, <3>1, AcToldSame
  <2> QED
    BY <2>3, <2>4
<1>16. /\ acStage' \in [AcTasks -> {"away", "made", "ready", "ending"}]
       /\ \A g \in AcHandlers \ AcOf(s) : acHandler'[g] = acHandler[g]
       /\ \A g \in AcOf(s) : acHandler[g].there => acHandler'[g].there
       /\ \A u \in AcTasks \ {s} : acStage'[u] = acStage[u] /\ (u \in acManagers' <=> u \in acManagers)
  BY <1>0, <1>1, <1>2, <1>7, <1>8, <1>9 DEF AcTypeOK
<1>17. AcStepBy(s)
  BY <1>1, <1>2, <1>7, <1>12, <1>16 DEF AcStepBy
<1> QED
  BY <1>13, <1>14, <1>15, <1>17, AcStepKeeps, Zenon

\* An instance is destroyed: its reserved memory is given back, and nobody else has it.
LEMMA AcUnmakingKeeps ==
  ASSUME AcInv, NEW s \in AcTasks, AcUnmake(s)
  PROVE  AcInv'
<1> DEFINE h == AcOn(s)  old == acHandler[h]
<1>0. AcTypeOK /\ s \in AcTasks \cup {AcControl}
  BY DEF AcInv
<1>1. /\ acWork[s] # <<>> /\ acWork[s][1].do = "unmake" /\ AcGoesOn(s)
      /\ h \in AcOf(s) /\ h \in AcHandlers /\ old.there /\ h = acWork[s][1].on
  BY AcOnIsThere DEF AcUnmake, AcWorksOn
<1>2. /\ UNCHANGED <<acFixed, acController, acComponent, acFailed, acRaced>>
      /\ acManagers' = acManagers
      /\ acStage' = acStage /\ acStreams' = acStreams /\ acCommands' = acCommands
  BY DEF AcUnmake, acFixed
<1>3. /\ acHalted' = (old.arsi /\ ~(AcRegions(h) \subseteq acReserved))
      /\ acReserved' = IF old.arsi THEN acReserved \ AcRegions(h) ELSE acReserved
      /\ acHandler' = [acHandler EXCEPT ![h].arsi = FALSE, ![h].told = FALSE,
                                        ![h].dump = @ /\ ~(old.arsi /\ old.dumps)]
  BY DEF AcUnmake
<1>4. /\ acWork'[s] = Tail(acWork[s])
      /\ \A u \in (AcTasks \cup {AcControl}) \ {s} : acWork'[u] = acWork[u]
  BY <1>0, <1>1, AcGoesOnIs
<1> HIDE DEF h
<1>5. acHandler \in [AcHandlers -> AcHandlerTypes]
  BY <1>0 DEF AcTypeOK
<1>6. old \in AcHandlerTypes /\ old.arsi \in BOOLEAN /\ old.dump \in BOOLEAN /\ old.dumps \in BOOLEAN
  BY <1>1, <1>5 DEF AcHandlerTypes
<1>7. /\ acHandler' \in [AcHandlers -> AcHandlerTypes]
      /\ \A g \in AcHandlers : g # h => acHandler'[g] = acHandler[g]
  BY <1>1, <1>3, <1>5, <1>6 DEF AcHandlerTypes
<1>8. /\ acHandler'[h].there = old.there /\ acHandler'[h].log = old.log
      /\ acHandler'[h].arsi = FALSE /\ acHandler'[h].dump = (old.dump /\ ~(old.arsi /\ old.dumps))
  BY <1>1, <1>3, <1>5, <1>6 DEF AcHandlerTypes
<1>9. \A g \in AcOf(s) : g \in AcHandlers
  BY <1>0, AcHandlersAre
<1>10. \A r \in {"dl", "ul"} : r \in acReserved <=> \E g \in AcHandlers : acHandler[g].arsi /\ r \in AcRegions(g)
  BY DEF AcInv, AcReserves
<1>11. AcRegions(h) \subseteq {"dl", "ul"}
  <2>1. h[1] \in AcTasks
    BY <1>0, <1>1, AcHandlersAre
  <2>2. acStreams[h[1]].way \in {"ul", "dl", "both"}
    BY <1>0, <2>1, AcFixedIs
  <2> QED
    BY <2>2 DEF AcRegions
<1>12. acHalted' = FALSE
  <2>1. old.arsi => AcRegions(h) \subseteq acReserved
    BY <1>1, <1>10, <1>11
  <2> QED
    BY <1>3, <2>1
<1>13. AcReserves'
  <2>1. AcHandlers' = AcHandlers /\ \A g : AcRegions(g)' = AcRegions(g)
    BY <1>2, AcSame
  <2>2. acReserved' \subseteq {"dl", "ul"}
    BY <1>3 DEF AcInv, AcReserves
  <2>3. ASSUME NEW r \in {"dl", "ul"}
        PROVE  r \in acReserved' <=> \E g \in AcHandlers : acHandler'[g].arsi /\ r \in AcRegions(g)
    <3>1. CASE ~old.arsi
      <4>1. \A g \in AcHandlers : acHandler'[g].arsi <=> acHandler[g].arsi
        BY <1>7, <1>8, <3>1
      <4> QED
        BY <1>3, <1>10, <3>1, <4>1
    <3>2. CASE old.arsi
      <4>1. r \in acReserved' <=> r \in acReserved /\ r \notin AcRegions(h)
        BY <1>3, <3>2
      <4>2. (\E g \in AcHandlers : acHandler'[g].arsi /\ r \in AcRegions(g))
            <=> \E g \in AcHandlers : g # h /\ acHandler[g].arsi /\ r \in AcRegions(g)
        BY <1>7, <1>8
      <4>3. (\E g \in AcHandlers : g # h /\ acHandler[g].arsi /\ r \in AcRegions(g)) => r \notin AcRegions(h)
        BY <1>0, <1>1, AcRegionsApart
      <4> QED
        BY <1>10, <4>1, <4>2, <4>3
    <3> QED
      BY <3>1, <3>2
  <2> QED
    BY <2>1, <2>2, <2>3 DEF AcReserves
<1>14. AcStreamFits(s)'
  <2>1. ASSUME NEW g \in AcOf(s)
        PROVE  /\ acHandler'[g].there = acHandler[g].there
               /\ acHandler'[g].arsi = (acHandler[g].arsi /\ g # acWork[s][1].on)
    <3>1. acHandler[g].arsi \in BOOLEAN
      BY <1>5, <1>9 DEF AcHandlerTypes
    <3> QED
      BY <1>1, <1>7, <1>8, <1>9, <3>1
  <2> QED
    BY <1>0, <1>1, <1>2, <1>4, <2>1, AcUnmakeFits DEF AcInv
<1>15. ASSUME NEW g \in AcOf(s) PROVE AcTold(g)'
  <2>1. AcTold(g)
    BY <1>9 DEF AcInv
  <2>2. AcToSay(g)' <=> AcToSay(g)
    <3>1. acWork'[AcControl] = acWork[AcControl]
      BY <1>0, <1>4, AcFixedIs
    <3> QED
      BY <3>1 DEF AcToSay
  <2>3. CASE g = h
    <3>1. AcComponentOf(g)' = AcComponentOf(g) /\ acComponent' = acComponent
      BY <1>2, AcSame
    <3>2. acHandler'[h].dump = FALSE
      BY <1>6, <1>8, <2>1, <2>3 DEF AcTold
    <3> QED
      BY <1>1, <1>8, <2>1, <2>2, <2>3, <3>1, <3>2 DEF AcTold
  <2>4. CASE g # h
    <3>1. acHandler'[g] = acHandler[g] /\ acComponent' = acComponent
      BY <1>2, <1>7, <1>9, <2>4
    <3> QED
      BY <1>2, <2>1, <2>2, <3>1, AcToldSame
  <2> QED
    BY <2>3, <2>4
<1>16. /\ acStage' \in [AcTasks -> {"away", "made", "ready", "ending"}]
       /\ \A g \in AcHandlers \ AcOf(s) : acHandler'[g] = acHandler[g]
       /\ \A g \in AcOf(s) : acHandler[g].there => acHandler'[g].there
       /\ \A u \in AcTasks \ {s} : acStage'[u] = acStage[u] /\ (u \in acManagers' <=> u \in acManagers)
  BY <1>0, <1>1, <1>2, <1>7, <1>8, <1>9 DEF AcTypeOK
<1>17. acWork[s] # <<>> /\ acWork[s][1].do # "lock" /\ AcGoesOn(s)
  BY <1>1
<1>18. AcStepBy(s)
  BY <1>2, <1>7, <1>12, <1>16, <1>17 DEF AcStepBy
<1> QED
  BY <1>13, <1>14, <1>15, <1>18, AcStepKeeps, Zenon
---------------------------------------------------------------------------
(* The commands: what is left after a step *)

\* What is left of a command keeps its order.
LEMMA AcControlTail ==
  ASSUME NEW w, AcList(w), w # <<>>, AcControlOrder(w)
  PROVE  /\ AcControlOrder(Tail(w))
         /\ \A k \in DOMAIN Tail(w) : ~AcIsLock(Tail(w)[k], AcCtl)
<1>1. /\ Len(w) \in Nat \ {0} /\ DOMAIN w = 1 .. Len(w) /\ Len(Tail(w)) = Len(w) - 1
      /\ DOMAIN Tail(w) = 1 .. (Len(w) - 1)
      /\ \A k \in DOMAIN Tail(w) : Tail(w)[k] = w[k + 1] /\ k + 1 \in DOMAIN w
      /\ Tail(w) # <<>> => Tail(w)[Len(Tail(w))] = w[Len(w)]
      /\ Tail(w) = <<>> => Len(w) = 1
  BY AcTailIs, AcListIs, Zenon
<1>2. \A k \in DOMAIN Tail(w) : ~AcIsLock(Tail(w)[k], AcCtl)
  BY <1>1 DEF AcControlOrder
<1>3. ASSUME NEW k \in DOMAIN Tail(w)
      PROVE  Tail(w) # <<>> /\ 1 \in DOMAIN Tail(w) /\ k + 1 \in DOMAIN w /\ Tail(w)[k] = w[k + 1]
             /\ Tail(w)[Len(Tail(w))] = w[Len(w)]
  BY <1>1
<1>4. ASSUME NEW k \in DOMAIN Tail(w)
      PROVE  /\ Tail(w)[k].do \in {"start", "parse", "finish"} => k = Len(Tail(w))
             /\ AcOnHandler(Tail(w)[k]) \/ Tail(w)[k].do \in {"component", "find"} =>
                   Tail(w)[Len(Tail(w))].do = "finish"
  BY <1>1, <1>3 DEF AcControlOrder
<1>5. ASSUME NEW j \in DOMAIN Tail(w), NEW k \in DOMAIN Tail(w)
      PROVE  /\ Tail(w)[j].do \in {"component", "find"} /\ j < k => ~AcOnHandler(Tail(w)[k])
             /\ Tail(w)[j].do = "find" /\ j < k => Tail(w)[k].do = "finish"
             /\ Tail(w)[j].do = "run" /\ Tail(w)[k].do = "run" => Tail(w)[j].on.kind = Tail(w)[k].on.kind
  <2>1. j < k => j + 1 < k + 1
    BY <1>1
  <2> QED
    BY <1>3, <2>1 DEF AcControlOrder
<1>6. Tail(w) # <<>> => Tail(w)[Len(Tail(w))].do \in {"start", "parse", "finish"}
  BY <1>1 DEF AcControlOrder
<1>7. \A k \in DOMAIN Tail(w) : AcOnHandler(Tail(w)[k]) => ~AcIsLock(Tail(w)[1], AcCtl)
  BY <1>2, <1>3
<1> QED
  BY <1>2, <1>4, <1>5, <1>6, <1>7 DEF AcControlOrder

\* What a component's command adds to what is left
AcSays(r, kind) ==
    \A k \in DOMAIN r : AcOnHandler(r[k]) /\ (r[k].do = "run" => r[k].on.kind = kind)

\* What is said to the handlers of a component comes before the rest of the command.
LEMMA AcSaysOrder ==
  ASSUME NEW w, AcList(w), w # <<>>, AcControlOrder(w), w[1].do \in {"component", "find"},
         NEW r, AcList(r), NEW kind, AcSays(r, kind), NEW v, v = r \o Tail(w)
  PROVE  /\ AcList(v) /\ v # <<>> /\ AcControlOrder(v) /\ v[Len(v)] = w[Len(w)]
         /\ \A k \in DOMAIN v : \/ k \in DOMAIN r /\ v[k] = r[k]
                                \/ /\ ~AcOnHandler(v[k]) /\ ~AcIsLock(v[k], AcCtl)
                                   /\ \E j \in DOMAIN w : v[k] = w[j]
         /\ \A k \in DOMAIN r : k \in DOMAIN v /\ v[k] = r[k]
         /\ ~AcIsLock(v[1], AcCtl)
<1> DEFINE n == Len(r)  m == Len(w) - 1
<1>1. /\ Len(w) \in Nat \ {0} /\ DOMAIN w = 1 .. Len(w) /\ Len(Tail(w)) = m /\ AcList(Tail(w))
      /\ DOMAIN Tail(w) = 1 .. m
      /\ \A k \in 1 .. m : Tail(w)[k] = w[k + 1] /\ k + 1 \in DOMAIN w
      /\ Tail(w) # <<>> => Tail(w)[Len(Tail(w))] = w[Len(w)]
      /\ Tail(w) = <<>> => Len(w) = 1
  BY AcTailIs, AcListIs, Zenon
<1>2. w[Len(w)].do = "finish" /\ m \in Nat /\ m # 0 /\ Tail(w)[m] = w[Len(w)] /\ 1 \in DOMAIN w
  <2>1. w[Len(w)].do = "finish"
    BY <1>1 DEF AcControlOrder
  <2>2. Len(w) # 1
    BY <2>1
  <2> QED
    BY <1>1, <2>1, <2>2
<1>3. AcControlOrder(Tail(w)) /\ \A k \in 1 .. m : ~AcIsLock(Tail(w)[k], AcCtl)
  BY <1>1, AcControlTail
<1>4. ASSUME NEW k \in 1 .. m PROVE ~AcOnHandler(Tail(w)[k])
  <2>1. 1 < k + 1 /\ k + 1 \in DOMAIN w /\ Tail(w)[k] = w[k + 1]
    BY <1>1, <1>2
  <2> QED
    BY <1>2, <2>1 DEF AcControlOrder
<1>5. n \in Nat /\ DOMAIN r = 1 .. n
  BY AcListIs, Zenon
<1>6. /\ AcList(v) /\ Len(v) = n + m /\ DOMAIN v = 1 .. (n + m)
      /\ \A k \in DOMAIN v : v[k] = IF k <= n THEN r[k] ELSE Tail(w)[k - n]
  BY <1>1, AcConcatIs
<1>7. \A k \in 1 .. n : k \in DOMAIN v /\ v[k] = r[k]
  BY <1>2, <1>5, <1>6
<1> HIDE DEF m, n
<1>8. ASSUME NEW k \in DOMAIN v
      PROVE  \/ k \in 1 .. n /\ v[k] = r[k]
             \/ k > n /\ k - n \in 1 .. m /\ v[k] = Tail(w)[k - n]
  <2>1. k \in 1 .. (n + m) /\ n \in Nat /\ m \in Nat /\ v[k] = IF k <= n THEN r[k] ELSE Tail(w)[k - n]
    BY <1>2, <1>5, <1>6, Zenon DEF n
  <2> HIDE DEF n
  <2>2. CASE k <= n
    <3>1. k \in 1 .. n
      BY <2>1, <2>2
    <3> QED
      BY <2>1, <2>2, <3>1, Zenon
  <2>3. CASE ~(k <= n)
    <3>1. k > n /\ k - n \in 1 .. m
      BY <2>1, <2>3
    <3> QED
      BY <2>1, <2>3, <3>1, Zenon
  <2> QED
    BY <2>2, <2>3
<1>9. v # <<>> /\ Len(v) \in DOMAIN v /\ v[Len(v)] = w[Len(w)] /\ 1 \in DOMAIN v
  <2>1. Len(v) \in DOMAIN v /\ ~(n + m <= n) /\ (n + m) - n = m /\ 1 \in DOMAIN v
    BY <1>2, <1>5, <1>6
  <2> QED
    BY <1>2, <1>6, <2>1
<1>10. \A k \in DOMAIN v : ~AcIsLock(v[k], AcCtl)
  BY <1>3, <1>5, <1>8 DEF AcSays, AcOnHandler, AcIsLock
<1>11. ASSUME NEW k \in DOMAIN v PROVE v[k].do \in {"start", "parse", "finish"} => k = Len(v)
  <2>1. CASE k \in 1 .. n /\ v[k] = r[k]
    BY <1>5, <2>1 DEF AcSays, AcOnHandler
  <2>2. CASE k > n /\ k - n \in 1 .. m /\ v[k] = Tail(w)[k - n]
    <3>1. v[k].do \in {"start", "parse", "finish"} => k - n = m
      BY <1>1, <1>3, <2>2 DEF AcControlOrder
    <3>2. k \in 1 .. (n + m) /\ n \in Nat /\ m \in Nat
      BY <1>2, <1>5, <1>6, Zenon
    <3>3. ASSUME k - n = m PROVE k = n + m
      BY <3>2, <3>3
    <3> QED
      BY <1>6, <3>1, <3>3, Zenon
  <2> QED
    BY <1>8, <2>1, <2>2
<1>12. ASSUME NEW j \in DOMAIN v, NEW k \in DOMAIN v
       PROVE  /\ v[j].do \in {"component", "find"} /\ j < k => ~AcOnHandler(v[k])
              /\ v[j].do = "find" /\ j < k => v[k].do = "finish"
              /\ v[j].do = "run" /\ v[k].do = "run" => v[j].on.kind = v[k].on.kind
  <2>1. ASSUME v[j].do = "run" PROVE j \in 1 .. n /\ v[j].on.kind = kind
    BY <1>4, <1>5, <1>8, <2>1 DEF AcOnHandler, AcSays
  <2>2. ASSUME v[k].do = "run" PROVE k \in 1 .. n /\ v[k].on.kind = kind
    BY <1>4, <1>5, <1>8, <2>2 DEF AcOnHandler, AcSays
  <2>3. ASSUME v[j].do \in {"component", "find"}, j < k
        PROVE  j - n \in 1 .. m /\ k - n \in 1 .. m /\ v[j] = Tail(w)[j - n] /\ v[k] = Tail(w)[k - n]
               /\ j - n < k - n
    <3>1. j > n /\ j - n \in 1 .. m /\ v[j] = Tail(w)[j - n]
      BY <1>5, <1>8, <2>3 DEF AcSays, AcOnHandler
    <3>2. k \notin 1 .. n /\ j - n < k - n
      BY <1>5, <1>6, <2>3, <3>1
    <3> QED
      BY <1>8, <3>1, <3>2
  <2>4. v[j].do \in {"component", "find"} /\ j < k => ~AcOnHandler(v[k])
    BY <1>4, <2>3
  <2>5. v[j].do = "find" /\ j < k => v[k].do = "finish"
    <3>1. \A a, b \in 1 .. m : Tail(w)[a].do = "find" /\ a < b => Tail(w)[b].do = "finish"
      <4> DEFINE x == Tail(w)
      <4>1. AcControlOrder(x) /\ DOMAIN x = 1 .. m
        BY <1>1, <1>3
      <4> HIDE DEF x
      <4>2. \A a, b \in DOMAIN x : x[a].do = "find" /\ a < b => x[b].do = "finish"
        BY <4>1 DEF AcControlOrder
      <4>3. \A a, b \in 1 .. m : x[a].do = "find" /\ a < b => x[b].do = "finish"
        BY <4>1, <4>2, Zenon
      <4> QED
        BY <4>3 DEF x
    <3>2. ASSUME v[j].do = "find", j < k PROVE v[k].do = "finish"
      BY <2>3, <3>1, <3>2
    <3> QED
      BY <3>2
  <2> QED
    BY <2>1, <2>2, <2>4, <2>5
<1>13. AcControlOrder(v)
  <2>1. \A k \in DOMAIN v :
          /\ AcIsLock(v[k], AcCtl) => k = 1 /\ v[Len(v)].do # "start"
          /\ v[k].do \in {"start", "parse", "finish"} => k = Len(v)
          /\ AcOnHandler(v[k]) => ~AcIsLock(v[1], AcCtl)
          /\ AcOnHandler(v[k]) \/ v[k].do \in {"component", "find"} => v[Len(v)].do = "finish"
    BY <1>2, <1>9, <1>10, <1>11
  <2>2. v # <<>> => v[Len(v)].do \in {"start", "parse", "finish"}
    BY <1>2, <1>9
  <2> QED
    BY <1>12, <2>1, <2>2 DEF AcControlOrder
<1>14. ASSUME NEW k \in DOMAIN v
       PROVE  \/ k \in DOMAIN r /\ v[k] = r[k]
              \/ /\ ~AcOnHandler(v[k]) /\ ~AcIsLock(v[k], AcCtl)
                 /\ \E j \in DOMAIN w : v[k] = w[j]
  <2>1. CASE k \in 1 .. n /\ v[k] = r[k]
    BY <1>5, <2>1
  <2>2. CASE k > n /\ k - n \in 1 .. m /\ v[k] = Tail(w)[k - n]
    <3>1. ~AcOnHandler(v[k]) /\ ~AcIsLock(v[k], AcCtl)
      BY <1>4, <1>10, <2>2
    <3>2. k - n + 1 \in DOMAIN w /\ v[k] = w[k - n + 1]
      BY <1>1, <2>2
    <3> QED
      BY <3>1, <3>2
  <2> QED
    BY <1>8, <2>1, <2>2
<1>15. ~AcIsLock(v[1], AcCtl)
  BY <1>9, <1>10
<1> QED
  BY <1>5, <1>6, <1>7, <1>9, <1>13, <1>14, <1>15

\* What it means to take the lock of each of some handlers and to tell it
AcRunsFor(r, hs, kind, enable) ==
    /\ AcList(r)
    /\ \A k \in DOMAIN r : \E i \in DOMAIN hs :
          \/ r[k] = AcTakes(AcLockOf(hs[i]))
          \/ r[k] = AcDoes("run", [handler |-> hs[i], kind |-> kind, enable |-> enable], {AcLockOf(hs[i])})
    /\ \A i \in DOMAIN hs : \E k \in DOMAIN r :
          r[k] = AcDoes("run", [handler |-> hs[i], kind |-> kind, enable |-> enable], {AcLockOf(hs[i])})

\* AcRuns does so.
LEMMA AcRunsAre ==
  ASSUME NEW hs, AcList(hs), NEW kind, NEW enable, NEW r, r = AcRuns(hs, kind, enable)
  PROVE  AcRunsFor(r, hs, kind, enable)
<1> DEFINE n == Len(hs)  locks == AcTakesAll(hs)
           Act(i) == AcDoes("run", [handler |-> hs[i], kind |-> kind, enable |-> enable], {AcLockOf(hs[i])})
           acts == [k \in DOMAIN hs |-> Act(k)]
<1>1. n \in Nat /\ DOMAIN hs = 1 .. n
  BY AcListIs, Zenon
<1>2. AcList(locks) /\ Len(locks) = n /\ DOMAIN locks = 1 .. n /\ \A i \in 1 .. n : locks[i] = AcTakes(AcLockOf(hs[i]))
  <2>1. locks \in [1 .. n -> {AcTakes(AcLockOf(hs[i])) : i \in 1 .. n}]
    BY <1>1 DEF AcTakesAll
  <2>2. locks \in Seq({AcTakes(AcLockOf(hs[i])) : i \in 1 .. n}) /\ Len(locks) = n
    BY <1>1, <2>1, SeqDef
  <2> QED
    BY <1>1, <2>1, <2>2, AcSeqIsList DEF AcTakesAll
<1> HIDE DEF Act
<1>3. AcList(acts) /\ Len(acts) = n /\ \A i \in 1 .. n : acts[i] = Act(i)
  <2> DEFINE E == {Act(i) : i \in 1 .. n}
  <2>1. acts \in [1 .. n -> E] /\ \A i \in 1 .. n : acts[i] = Act(i)
    BY <1>1
  <2> HIDE DEF E, acts
  <2>2. acts \in Seq(E) /\ Len(acts) = n
    BY <1>1, <2>1, SeqDef
  <2> QED
    BY <2>1, <2>2, AcSeqIsList
<1>4. r = AcInTurn(locks, acts)
  BY DEF AcRuns, Act
<1> HIDE DEF locks, acts
<1>5. /\ AcList(r) /\ DOMAIN r = 1 .. 2 * n
      /\ \A i \in DOMAIN locks : r[2 * i] = acts[i]
      /\ \A k \in DOMAIN r : \E i \in DOMAIN locks :
            \/ k = 2 * i - 1 /\ r[k] = locks[i]
            \/ k = 2 * i /\ r[k] = acts[i]
  <2>1. AcList(locks) /\ AcList(acts) /\ Len(locks) = Len(acts)
    BY <1>2, <1>3
  <2>2. AcMixed(r, locks, acts)
    BY <1>4, <2>1, AcInTurnIs, Zenon
  <2> QED
    BY <1>2, <2>2, Zenon DEF AcMixed
<1>6. ASSUME NEW i \in DOMAIN hs PROVE \E k \in DOMAIN r : r[k] = Act(i)
  <2>1. i \in 1 .. n /\ 2 * i \in 1 .. 2 * n
    BY <1>1
  <2> QED
    BY <1>2, <1>3, <1>5, <2>1
<1>7. ASSUME NEW k \in DOMAIN r
      PROVE  \E i \in DOMAIN hs : r[k] = AcTakes(AcLockOf(hs[i])) \/ r[k] = Act(i)
  BY <1>1, <1>2, <1>3, <1>5
<1> QED
  BY <1>5, <1>6, <1>7 DEF Act, AcRunsFor

\* A step of the commands
AcByControl ==
    /\ UNCHANGED <<acFixed, acStage, acManagers, acReserved>> /\ acHalted' = FALSE /\ acRaced' \in BOOLEAN
    /\ DOMAIN acWork' = AcTasks \cup {AcControl} /\ \A s \in AcTasks : acWork'[s] = acWork[s]
    /\ AcList(acWork'[AcControl])
    /\ acController' \in {"none", "bad", "on"}
    /\ acComponent' \in [AcComponents -> [log : BOOLEAN, dump : BOOLEAN]]
    /\ acHandler' \in [AcHandlers -> AcHandlerTypes]
    /\ \A h \in AcHandlers : /\ acHandler'[h].there = acHandler[h].there
                             /\ acHandler'[h].arsi = acHandler[h].arsi

\* A step of the commands keeps what is said of the streams.
LEMMA AcByControlKeeps ==
  ASSUME AcInv, AcByControl, AcControlFits', AcOneHasCtl', \A h \in AcHandlers : AcTold(h)'
  PROVE  AcInv'
<1>0. AcTypeOK /\ acStreams' = acStreams /\ acCommands' = acCommands
  BY DEF AcInv, AcByControl, acFixed
<1>1. AcTasks' = AcTasks /\ AcHandlers' = AcHandlers /\ AcComponents' = AcComponents
  BY <1>0, AcSame
<1>2. AcTypeOK'
  <2>1. \A t \in AcTasks \cup {AcControl} : AcList(acWork'[t])
    BY <1>0 DEF AcByControl, AcTypeOK
  <2>2. \A t \in AcTasks \cup {AcControl} : AcList(acWork[t])'
    BY <2>1 DEF AcList
  <2>3. \E setup \in AcSetups : acStreams' = setup.streams /\ acCommands' = setup.commands
    BY <1>0 DEF AcTypeOK
  <2> QED
    BY <1>0, <1>1, <2>2, <2>3 DEF AcByControl, AcTypeOK, AcHandlerTypes
<1>3. ASSUME NEW u \in AcTasks PROVE AcStreamFits(u)'
  <2>1. \A h \in AcOf(u) : h \in AcHandlers
    BY <1>0, AcHandlersAre
  <2> QED
    BY <1>0, <2>1, AcOtherStream DEF AcInv, AcByControl
<1>4. AcReserves'
  BY <1>0, AcReservesSame DEF AcInv, AcByControl
<1> QED
  BY <1>1, <1>2, <1>3, <1>4 DEF AcInv

\* The commands' own steps take and free the controller's lock as they say.
LEMMA AcControlGoesOn ==
  ASSUME AcInv, acWork[AcControl] # <<>>, UNCHANGED acFixed,
         \/ /\ acWork[AcControl][1].do = "lock" /\ acWork[AcControl][1].on \notin acHeld
            /\ acWork' = [acWork EXCEPT ![AcControl] = Tail(@)]
            /\ acHeld' = acHeld \cup {acWork[AcControl][1].on}
         \/ acWork[AcControl][1].do # "lock" /\ AcGoesOn(AcControl)
  PROVE  /\ AcOneHasCtl' /\ acWork'[AcControl] = Tail(acWork[AcControl])
         /\ DOMAIN acWork' = AcTasks \cup {AcControl} /\ AcList(acWork'[AcControl])
         /\ \A s \in AcTasks : acWork'[s] = acWork[s]
<1>0. AcTypeOK /\ AcControlFits /\ AcControl \in AcTasks \cup {AcControl} /\ AcControl \notin AcTasks
      /\ acStreams' = acStreams /\ DOMAIN acWork = AcTasks \cup {AcControl}
  BY AcFixedIs DEF AcInv, AcTypeOK, acFixed
<1>1. /\ acWork'[AcControl] = Tail(acWork[AcControl]) /\ DOMAIN acWork' = DOMAIN acWork
      /\ \A u \in (AcTasks \cup {AcControl}) \ {AcControl} : acWork'[u] = acWork[u]
      /\ \A u \in AcTasks \cup {AcControl} : AcList(acWork'[u])
      /\ AcGoesOn(AcControl) => acHeld' = acHeld \ acWork[AcControl][1].frees
  BY <1>0, AcGoesOnIs
<1>2. AcCtlOrder(acWork[AcControl])
  BY <1>0, AcControlCtl
<1>3. AcOneHasCtl'
  BY <1>0, <1>1, <1>2, AcCtlGoes DEF AcInv
<1> QED
  BY <1>0, <1>1, <1>3

\* A step that leaves the components and the controller as they are
LEMMA AcControlFitsGoes ==
  ASSUME AcInv, acWork[AcControl] # <<>>, UNCHANGED <<acFixed, acComponent, acController, acStage>>,
         acWork'[AcControl] = Tail(acWork[AcControl]), \A s \in AcTasks : acWork'[s] = acWork[s],
         \A h \in AcHandlers : acHandler'[h].there = acHandler[h].there
  PROVE  AcControlFits'
<1> DEFINE w == acWork[AcControl]
<1>0. AcTypeOK /\ AcControlFits /\ AcList(w) /\ acStreams' = acStreams /\ acCommands' = acCommands
  BY DEF AcInv, AcTypeOK, acFixed
<1>1. AcTasks' = AcTasks /\ AcHandlers' = AcHandlers /\ \A h : AcComponentOf(h)' = AcComponentOf(h)
  BY <1>0, AcSame
<1>2. \A step : AcControlStep(step)' <=> AcControlStep(step)
  BY <1>1 DEF AcControlStep, AcCtl, AcLockOf
<1>3. \A step, h : AcUses(step, h)' <=> AcUses(step, h)
  BY DEF AcUses, AcLockOf
<1>4. \A k \in DOMAIN Tail(w) : Tail(w)[k] = w[k + 1] /\ k + 1 \in DOMAIN w
  BY <1>0, AcTailIs, Zenon
<1>5. AcControlOrder(Tail(w))
  BY <1>0, AcControlTail DEF AcControlFits
<1>6. AcControlOrder(acWork[AcControl])'
  <2> DEFINE v == Tail(w)
  <2>1. AcControlOrder(v) /\ acWork'[AcControl] = v
    BY <1>5
  <2> HIDE DEF v
  <2> QED
    BY <2>1 DEF AcControlOrder, AcOnHandler, AcIsLock, AcCtl
<1>7. ASSUME NEW k \in DOMAIN Tail(w)
      PROVE  /\ AcControlStep(Tail(w)[k])
             /\ \A h \in AcHandlers : AcUses(Tail(w)[k], h) => acHandler'[h].there
             /\ acController = "none" => Tail(w)[k].do = "start" \/ AcIsLock(Tail(w)[k], <<"controllers">>)
             /\ Tail(w)[k].do = "parse" => acController = "bad"
  BY <1>0, <1>4 DEF AcControlFits
<1>8. acController # "on" => \A s \in AcTasks : acStage[s] = "away" /\ acWork[s] = <<>>
  BY <1>0 DEF AcControlFits
<1> HIDE DEF w
<1>9. acWork'[AcControl] = Tail(w)
  BY DEF w
<1> QED
  BY <1>1, <1>2, <1>3, <1>6, <1>7, <1>8, <1>9 DEF AcControlFits, AcIsLock

\* What is still to be said is the same after a step that says nothing.
LEMMA AcToSayGoes ==
  ASSUME AcTypeOK, acWork[AcControl] # <<>>, acWork'[AcControl] = Tail(acWork[AcControl]), NEW h
  PROVE  /\ AcToSay(h)' => AcToSay(h)
         /\ AcToSay(h) => \/ AcToSay(h)'
                          \/ /\ acWork[AcControl][1].do = "run" /\ acWork[AcControl][1].on.handler = h
                             /\ acWork[AcControl][1].on.kind = "log"
<1> DEFINE w == acWork[AcControl]
<1>1. AcList(w)
  BY DEF AcTypeOK
<1>2. /\ Len(w) \in Nat \ {0} /\ DOMAIN w = 1 .. Len(w) /\ DOMAIN Tail(w) = 1 .. (Len(w) - 1)
      /\ \A k \in DOMAIN Tail(w) : Tail(w)[k] = w[k + 1] /\ k + 1 \in DOMAIN w
  BY <1>1, AcTailIs, AcListIs, Zenon
<1>3. ASSUME NEW k \in DOMAIN w, k # 1
      PROVE  k - 1 \in DOMAIN Tail(w) /\ Tail(w)[k - 1] = w[k]
  BY <1>2, <1>3
<1> HIDE DEF w
<1>4. /\ AcToSay(h)' <=> \E k \in DOMAIN Tail(w) : Tail(w)[k].do = "run" /\ Tail(w)[k].on.handler = h
                                                   /\ Tail(w)[k].on.kind = "log"
      /\ AcToSay(h) <=> \E k \in DOMAIN w : w[k].do = "run" /\ w[k].on.handler = h /\ w[k].on.kind = "log"
  BY DEF AcToSay, w
<1>5. AcToSay(h)' => AcToSay(h)
  BY <1>2, <1>4
<1>6. ASSUME AcToSay(h), ~(w[1].do = "run" /\ w[1].on.handler = h /\ w[1].on.kind = "log") PROVE AcToSay(h)'
  BY <1>3, <1>4, <1>6
<1> QED
  BY <1>5, <1>6 DEF w

\* A command takes a lock, or ends.
LEMMA AcControlPlain ==
  ASSUME AcInv, AcLock(AcControl) \/ AcFinish
  PROVE  AcInv'
<1> DEFINE w == acWork[AcControl]
<1>0. AcTypeOK /\ AcControl \in AcTasks \cup {AcControl}
  BY DEF AcInv
<1>1. /\ w # <<>> /\ w[1].do \in {"lock", "finish"}
      /\ \/ /\ w[1].do = "lock" /\ w[1].on \notin acHeld
            /\ acWork' = [acWork EXCEPT ![AcControl] = Tail(@)] /\ acHeld' = acHeld \cup {w[1].on}
         \/ w[1].do # "lock" /\ AcGoesOn(AcControl)
  <2>1. CASE AcLock(AcControl)
    <3>1. w # <<>> /\ w[1].do = "lock" /\ AcOn(AcControl) = w[1].on
      BY <1>0, <2>1, AcTurnIs DEF AcLock
    <3> QED
      BY <2>1, <3>1 DEF AcLock
  <2>2. CASE AcFinish
    <3>1. w # <<>> /\ w[1].do = "finish"
      BY <1>0, <2>2, AcTurnIs DEF AcFinish
    <3> QED
      BY <2>2, <3>1 DEF AcFinish
  <2> QED
    BY <2>1, <2>2
<1>2. /\ UNCHANGED <<acFixed, acController, acComponent, acStage, acManagers, acReserved, acHandler,
                     acHalted, acRaced>>
      /\ acStreams' = acStreams /\ acCommands' = acCommands
  BY DEF AcLock, AcFinish, acFixed, acLibs
<1>3. /\ AcOneHasCtl' /\ acWork'[AcControl] = Tail(w)
      /\ DOMAIN acWork' = AcTasks \cup {AcControl} /\ AcList(acWork'[AcControl])
      /\ \A s \in AcTasks : acWork'[s] = acWork[s]
  BY <1>1, <1>2, AcControlGoesOn
<1>4. AcByControl
  BY <1>0, <1>2, <1>3 DEF AcByControl, AcTypeOK
<1>5. AcControlFits'
  BY <1>1, <1>2, <1>3, AcControlFitsGoes
<1>6. ASSUME NEW h \in AcHandlers PROVE AcTold(h)'
  <2>1. AcTold(h)
    BY DEF AcInv
  <2>2. AcToSay(h)' <=> AcToSay(h)
    BY <1>0, <1>1, <1>3, AcToSayGoes
  <2> QED
    BY <1>2, <2>1, <2>2, AcToldSame
<1> QED
  BY <1>3, <1>4, <1>5, <1>6, AcByControlKeeps

\* A handler is told; who asks stops at the first answer.
LEMMA AcRunKeeps ==
  ASSUME AcInv, AcRun
  PROVE  AcInv'
<1> DEFINE w == acWork[AcControl]  on == AcOn(AcControl)  h == on.handler  old == acHandler[h]
           gets == on.kind = "get" /\ ~AcFails(old, on.kind)
<1>0. AcTypeOK /\ AcControlFits /\ AcControl \in AcTasks \cup {AcControl} /\ AcControl \notin AcTasks /\ AcList(w)
  BY AcFixedIs DEF AcInv, AcTypeOK
<1>1. w # <<>> /\ w[1].do = "run" /\ on = w[1].on /\ 1 \in DOMAIN w
  BY <1>0, AcTurnIs DEF AcRun
<1>2. /\ UNCHANGED <<acFixed, acController, acComponent, acStage, acManagers, acReserved>>
      /\ acHalted' = FALSE /\ acRaced' \in BOOLEAN
      /\ acStreams' = acStreams /\ acCommands' = acCommands
  BY <1>0 DEF AcRun, acFixed, AcTypeOK
<1>3. AcControlStep(w[1]) /\ AcControlOrder(w) /\ \A g \in AcHandlers : AcUses(w[1], g) => acHandler[g].there
  BY <1>0, <1>1 DEF AcControlFits
<1>4. /\ h \in AcHandlers /\ on.enable \in BOOLEAN /\ old.there
      /\ on.kind = "log" => on.enable = acComponent[AcComponentOf(h)].log
  BY <1>1, <1>3 DEF AcControlStep, AcUses
<1>5. acHandler' = CASE on.kind = "log" ->
                           [acHandler EXCEPT ![h].log = on.enable, ![h].told = old.arsi /\ on.enable]
                      [] on.kind = "dump" /\ old.arsi ->
                           [acHandler EXCEPT ![h].dump = TRUE, ![h].dumps = @ \/ ~old.dump]
                      [] OTHER -> acHandler
  BY DEF AcRun
<1>6. /\ gets => acWork' = [acWork EXCEPT ![AcControl] = <<Last(@)>>] /\ acHeld' = acHeld \ {AcLockOf(h)}
      /\ ~gets => AcGoesOn(AcControl)
  BY DEF AcRun
<1> HIDE DEF on, h, gets
<1>7. acHandler \in [AcHandlers -> AcHandlerTypes] /\ old.arsi \in BOOLEAN /\ old.dump \in BOOLEAN
      /\ old.dumps \in BOOLEAN
  BY <1>0, <1>4 DEF AcTypeOK, AcHandlerTypes
<1>8. /\ acHandler' \in [AcHandlers -> AcHandlerTypes]
      /\ \A g \in AcHandlers : g # h => acHandler'[g] = acHandler[g]
      /\ acHandler'[h].there = old.there /\ acHandler'[h].arsi = old.arsi
  <2>1. CASE on.kind = "log"
    <3>1. acHandler' = [acHandler EXCEPT ![h].log = on.enable, ![h].told = old.arsi /\ on.enable]
      BY <1>5, <2>1
    <3>2. PICK b \in BOOLEAN : b = (old.arsi /\ on.enable)
      OBVIOUS
    <3>3. acHandler' = [acHandler EXCEPT ![h].log = on.enable, ![h].told = b]
      BY <3>1, <3>2
    <3>4. old \in AcHandlerTypes
      BY <1>4, <1>7
    <3>5. [old EXCEPT !.log = on.enable, !.told = b] \in AcHandlerTypes
      BY <1>4, <3>4 DEF AcHandlerTypes
    <3>6. [old EXCEPT !.log = on.enable, !.told = b].there = old.there /\ [old EXCEPT !.log = on.enable, !.told = b].arsi = old.arsi
      BY <3>4 DEF AcHandlerTypes
    <3>7. acHandler' = [acHandler EXCEPT ![h] = [old EXCEPT !.log = on.enable, !.told = b]]
      BY <1>4, <1>7, <3>3, <3>4 DEF AcHandlerTypes
    <3> QED
      BY <1>4, <1>7, <3>5, <3>6, <3>7
  <2>2. CASE on.kind = "dump" /\ old.arsi
    <3>1. acHandler' = [acHandler EXCEPT ![h].dump = TRUE, ![h].dumps = @ \/ ~old.dump]
      BY <1>5, <2>2
    <3>2. PICK b \in BOOLEAN : b = (old.dumps \/ ~old.dump)
      OBVIOUS
    <3>3. acHandler' = [acHandler EXCEPT ![h].dump = TRUE, ![h].dumps = b]
      BY <3>1, <3>2
    <3>4. old \in AcHandlerTypes
      BY <1>4, <1>7
    <3>5. [old EXCEPT !.dump = TRUE, !.dumps = b] \in AcHandlerTypes
      BY <1>4, <3>4 DEF AcHandlerTypes
    <3>6. [old EXCEPT !.dump = TRUE, !.dumps = b].there = old.there /\ [old EXCEPT !.dump = TRUE, !.dumps = b].arsi = old.arsi
      BY <3>4 DEF AcHandlerTypes
    <3>7. acHandler' = [acHandler EXCEPT ![h] = [old EXCEPT !.dump = TRUE, !.dumps = b]]
      BY <1>4, <1>7, <3>3, <3>4 DEF AcHandlerTypes
    <3> QED
      BY <1>4, <1>7, <3>5, <3>6, <3>7
  <2>3. CASE on.kind # "log" /\ ~(on.kind = "dump" /\ old.arsi)
    <3>1. acHandler' = acHandler
      BY <1>5, <2>3
    <3> QED
      BY <1>4, <1>7, <3>1
  <2> QED
    BY <2>1, <2>2, <2>3
<1>9. /\ on.kind = "log" => acHandler'[h].log = on.enable /\ acHandler'[h].told = (old.arsi /\ on.enable)
                            /\ acHandler'[h].dump = old.dump /\ acHandler'[h].dumps = old.dumps
      /\ on.kind # "log" => acHandler'[h].log = old.log /\ acHandler'[h].told = old.told
      /\ on.kind # "log" => \/ acHandler'[h].dump = old.dump /\ acHandler'[h].dumps = old.dumps
                            \/ old.arsi /\ acHandler'[h].dumps = (old.dumps \/ ~old.dump)
  <2>1. CASE on.kind = "log"
    <3>1. acHandler' = [acHandler EXCEPT ![h].log = on.enable, ![h].told = old.arsi /\ on.enable]
      BY <1>5, <2>1
    <3> QED
      BY <1>4, <1>7, <2>1, <3>1 DEF AcHandlerTypes
  <2>2. CASE on.kind = "dump" /\ old.arsi
    <3>1. acHandler' = [acHandler EXCEPT ![h].dump = TRUE, ![h].dumps = @ \/ ~old.dump]
      BY <1>5, <2>2
    <3> QED
      BY <1>4, <1>7, <2>2, <3>1 DEF AcHandlerTypes
  <2>3. CASE on.kind # "log" /\ ~(on.kind = "dump" /\ old.arsi)
    <3>1. acHandler' = acHandler
      BY <1>5, <2>3
    <3> QED
      BY <2>3, <3>1
  <2> QED
    BY <2>1, <2>2, <2>3
<1>10. ASSUME NEW k \in DOMAIN w, w[k].do = "run" PROVE w[k].on.kind = on.kind
  BY <1>1, <1>3, <1>10 DEF AcControlOrder
<1>11. \A g \in AcHandlers : acHandler'[g].there = acHandler[g].there /\ acHandler'[g].arsi = acHandler[g].arsi
  BY <1>8
<1>12. w[Len(w)].do = "finish" /\ ~AcIsLock(w[1], AcCtl) /\ Len(w) \in DOMAIN w
  <2>1. AcOnHandler(w[1])
    BY <1>1 DEF AcOnHandler
  <2>2. Len(w) \in DOMAIN w
    BY <1>0, <1>1, AcListIs, Zenon
  <2> QED
    BY <1>1, <1>3, <2>1, <2>2 DEF AcControlOrder
\* What is told holds for every handler if nothing is forgotten that is still to be said.
<1>13. ASSUME \A g \in AcHandlers : AcToSay(g) => AcToSay(g)' \/ (g = h /\ on.kind = "log"),
              NEW g \in AcHandlers
       PROVE  AcTold(g)'
  <2>1. AcTold(g) /\ AcComponentOf(g)' = AcComponentOf(g) /\ acComponent' = acComponent
    BY <1>2, AcSame DEF AcInv
  <2>2. CASE g # h
    <3>1. acHandler'[g] = acHandler[g] /\ (AcToSay(g) => AcToSay(g)')
      BY <1>8, <1>13, <2>2
    <3> QED
      BY <2>1, <3>1 DEF AcTold
  <2>3. CASE g = h /\ on.kind = "log"
    <3>1. acHandler'[g].log = acComponent[AcComponentOf(g)].log
      BY <1>4, <1>9, <2>3
    <3>2. acHandler'[g].arsi => acHandler'[g].there /\ acHandler'[g].told = acHandler'[g].log
      BY <1>4, <1>8, <1>9, <2>3
    <3>3. acHandler'[g].dump => acHandler'[g].arsi /\ acHandler'[g].dumps
      BY <1>8, <1>9, <2>1, <2>3 DEF AcTold
    <3> QED
      BY <2>1, <3>1, <3>2, <3>3 DEF AcTold
  <2>4. CASE g = h /\ on.kind # "log"
    <3>1. AcToSay(g) => AcToSay(g)'
      BY <1>13, <2>4
    <3>2. acHandler'[g].dump => acHandler'[g].arsi /\ acHandler'[g].dumps
      BY <1>7, <1>8, <1>9, <2>1, <2>4 DEF AcTold
    <3>3. /\ acHandler'[g].there = acHandler[g].there /\ acHandler'[g].arsi = acHandler[g].arsi
          /\ acHandler'[g].log = acHandler[g].log /\ acHandler'[g].told = acHandler[g].told
      BY <1>8, <1>9, <2>4
    <3> QED
      BY <2>1, <3>1, <3>2, <3>3 DEF AcTold
  <2> QED
    BY <2>2, <2>3, <2>4
<1>14. CASE ~gets
  <2>1. w[1].do # "lock" /\ AcGoesOn(AcControl)
    BY <1>1, <1>6, <1>14
  <2>2. /\ AcOneHasCtl' /\ acWork'[AcControl] = Tail(w)
        /\ DOMAIN acWork' = AcTasks \cup {AcControl} /\ AcList(acWork'[AcControl])
        /\ \A s \in AcTasks : acWork'[s] = acWork[s]
    BY <1>1, <1>2, <2>1, AcControlGoesOn
  <2>3. AcByControl
    BY <1>0, <1>2, <1>8, <1>11, <2>2 DEF AcByControl, AcTypeOK
  <2>4. AcControlFits'
    BY <1>1, <1>2, <1>11, <2>2, AcControlFitsGoes
  <2>5. ASSUME NEW g \in AcHandlers PROVE AcToSay(g) => AcToSay(g)' \/ (g = h /\ on.kind = "log")
    BY <1>0, <1>1, <2>2, AcToSayGoes DEF h
  <2> QED
    BY <1>13, <2>2, <2>3, <2>4, <2>5, AcByControlKeeps
<1>15. CASE gets
  <2> DEFINE v == <<w[Len(w)]>>
  <2>1. /\ acWork'[AcControl] = v /\ DOMAIN acWork' = AcTasks \cup {AcControl}
        /\ \A s \in AcTasks : acWork'[s] = acWork[s]
        /\ acHeld' = acHeld \ {AcLockOf(h)} /\ on.kind = "get"
    BY <1>0, <1>6, <1>15 DEF AcTypeOK, Last, gets
  <2>2. AcList(v) /\ DOMAIN v = {1} /\ Len(v) = 1 /\ v[1] = w[Len(w)] /\ v # <<>>
    <3>1. v \in Seq({w[Len(w)]})
      OBVIOUS
    <3>2. AcList(v)
      BY <3>1, AcSeqIsList, Zenon
    <3> QED
      BY <3>2
  <2> HIDE DEF v
  <2>3. AcByControl
    BY <1>0, <1>2, <1>8, <1>11, <2>1, <2>2 DEF AcByControl, AcTypeOK
  <2>4. AcControlStep(w[Len(w)]) /\ AcCtl \in w[Len(w)].frees
    BY <1>0, <1>12 DEF AcControlFits, AcControlStep
  <2>5. AcHasCtl(v) /\ AcHasCtl(w)
    BY <1>1, <1>12, <2>2, <2>4 DEF AcHasCtl, AcIsLock
  <2>6. AcOneHasCtl'
    <3>1. AcCtl \in acHeld' <=> AcCtl \in acHeld
      BY <2>1, AcLocksDiffer
    <3>2. \A t \in AcTasks \cup {AcControl} : AcHasCtl(acWork'[t]) <=> AcHasCtl(acWork[t])
      BY <2>1, <2>5
    <3> QED
      BY <1>2, <3>1, <3>2, AcCtlSame DEF AcInv
  <2>7. AcControlFits'
    <3>1. AcControlOrder(acWork[AcControl])'
      BY <1>12, <2>1, <2>2 DEF AcControlOrder, AcOnHandler, AcIsLock
    <3>2. AcTasks' = AcTasks /\ AcHandlers' = AcHandlers
      BY <1>2, AcSame
    <3>3. AcControlStep(w[Len(w)])'
      BY <1>12, <2>4, <2>1, <2>2, <3>2 DEF AcControlStep, AcCtl
    <3>4. acController # "none" /\ (acController # "on" => \A s \in AcTasks : acStage[s] = "away" /\ acWork[s] = <<>>)
      BY <1>0, <1>1 DEF AcControlFits, AcIsLock
    <3> QED
      BY <1>2, <1>12, <2>1, <2>2, <3>1, <3>2, <3>3, <3>4 DEF AcControlFits, AcUses
  <2>8. \A g \in AcHandlers : ~AcToSay(g)
    BY <1>10, <2>1 DEF AcToSay
  <2> QED
    BY <1>13, <2>3, <2>6, <2>7, <2>8, AcByControlKeeps
<1> QED
  BY <1>14, <1>15
---------------------------------------------------------------------------
(* Commands *)

\* A call of the commands' task
LEMMA AcControlCallKeeps ==
  ASSUME AcInv, NEW w, AcList(w), AcCalls(AcControl, w), w # <<>>, AcControlOrder(w),
         \A k \in DOMAIN w : AcControlStep(w[k]) /\ ~AcOnHandler(w[k]) /\ w[k].do # "parse",
         acController = "none" => \A k \in DOMAIN w : w[k].do = "start" \/ AcIsLock(w[k], <<"controllers">>),
         AcIsLock(w[1], AcCtl) \/ w[Len(w)].do = "start"
  PROVE  AcInv'
<1>0. AcTypeOK /\ AcControlFits /\ AcControl \in AcTasks \cup {AcControl} /\ AcControl \notin AcTasks
  BY AcFixedIs DEF AcInv
<1>1. /\ acWork[AcControl] = <<>> /\ acWork'[AcControl] = w /\ DOMAIN acWork' = AcTasks \cup {AcControl}
      /\ \A s \in AcTasks : acWork'[s] = acWork[s]
  BY <1>0 DEF AcCalls, AcIdle, AcTypeOK
<1>2. /\ UNCHANGED <<acFixed, acController, acComponent, acStage, acManagers, acReserved, acHandler, acHeld>>
      /\ acHalted' = FALSE /\ acRaced' \in BOOLEAN
      /\ acStreams' = acStreams /\ acCommands' = acCommands
  BY <1>0 DEF AcCalls, acFixed, acLibs, AcTypeOK
<1>3. AcByControl
  BY <1>0, <1>1, <1>2 DEF AcByControl, AcTypeOK
<1>4. AcOneHasCtl'
  <2>1. ~AcHasCtl(w)
    <3>1. CASE w[Len(w)].do = "start"
      <4>1. Len(w) \in DOMAIN w
        BY AcListIs, Zenon
      <4> QED
        BY <3>1, <4>1 DEF AcHasCtl, AcControlStep
    <3>2. CASE AcIsLock(w[1], AcCtl)
      BY <3>2 DEF AcHasCtl
    <3> QED
      BY <3>1, <3>2
  <2>2. ~AcHasCtl(acWork[AcControl])
    BY <1>1 DEF AcHasCtl
  <2>3. \A t \in AcTasks \cup {AcControl} : AcHasCtl(acWork'[t]) <=> AcHasCtl(acWork[t])
    BY <1>1, <2>1, <2>2
  <2> QED
    BY <1>2, <2>3, AcCtlSame DEF AcInv
<1>5. AcControlFits'
  <2>1. AcTasks' = AcTasks /\ AcHandlers' = AcHandlers /\ \A h : AcComponentOf(h)' = AcComponentOf(h)
    BY <1>2, AcSame
  <2>2. \A step : AcControlStep(step)' <=> AcControlStep(step)
    BY <1>2, <2>1 DEF AcControlStep, AcCtl, AcLockOf
  <2>3. AcControlOrder(acWork[AcControl])'
    BY <1>1 DEF AcControlOrder, AcOnHandler, AcIsLock, AcCtl
  <2>4. \A k \in DOMAIN w : \A h \in AcHandlers : ~AcUses(w[k], h)
    BY AcLocksDiffer DEF AcUses, AcControlStep, AcOnHandler
  <2>5. \A step, h : AcUses(step, h)' <=> AcUses(step, h)
    BY DEF AcUses, AcLockOf
  <2> QED
    BY <1>0, <1>1, <1>2, <2>1, <2>2, <2>3, <2>4, <2>5 DEF AcControlFits, AcIsLock
<1>6. ASSUME NEW h \in AcHandlers PROVE AcTold(h)'
  <2>1. AcTold(h)
    BY DEF AcInv
  <2>2. ~AcToSay(h) /\ ~AcToSay(h)'
    <3>1. DOMAIN acWork[AcControl] = {}
      <4>1. Len(acWork[AcControl]) = 0 /\ DOMAIN acWork[AcControl] = 1 .. Len(acWork[AcControl])
        BY <1>0, <1>1, AcListIs, Zenon DEF AcTypeOK
      <4> QED
        BY <4>1
    <3> QED
      BY <1>1, <3>1 DEF AcToSay, AcOnHandler
  <2> QED
    BY <1>2, <2>1, <2>2, AcToldSame
<1> QED
  BY <1>3, <1>4, <1>5, <1>6, AcByControlKeeps

\* The controller is started.
LEMMA AcStartKeeps ==
  ASSUME AcInv, AcStart
  PROVE  AcInv'
<1> DEFINE x == AcTakes(<<"controllers">>)  y == AcDoes("start", AcControl, {<<"controllers">>})
           w == <<x, y>>
<1>1. AcCalls(AcControl, w)
  BY DEF AcStart
<1>2. /\ x.do = "lock" /\ x.on = <<"controllers">> /\ x.frees = {}
      /\ y.do = "start" /\ y.frees = {<<"controllers">>}
  BY DEF AcTakes, AcDoes
<1>3. AcControlStep(x) /\ AcControlStep(y) /\ ~AcOnHandler(x) /\ ~AcOnHandler(y)
      /\ ~AcIsLock(x, AcCtl) /\ ~AcIsLock(y, AcCtl) /\ AcIsLock(x, <<"controllers">>)
  BY <1>2, AcLocksDiffer DEF AcControlStep, AcOnHandler, AcIsLock
<1> HIDE DEF x, y
<1>4. w \in Seq({x, y}) /\ DOMAIN w = {1, 2} /\ Len(w) = 2 /\ w[1] = x /\ w[2] = y /\ w # <<>>
  OBVIOUS
<1>5. AcList(w)
  BY <1>4, AcSeqIsList, Zenon
<1> HIDE DEF w
<1>6. AcControlOrder(w)
  BY <1>2, <1>3, <1>4 DEF AcControlOrder
<1> QED
  BY <1>1, <1>2, <1>3, <1>4, <1>5, <1>6, AcControlCallKeeps

\* A question begins.
LEMMA AcGetKeeps ==
  ASSUME AcInv, NEW libs, NEW scenarios, AcGet(libs, scenarios)
  PROVE  AcInv'
<1> DEFINE x == AcTakes(AcCtl)  y == AcDoes("find", AcTargets(libs, scenarios), {})
           z == AcDoes("finish", "get", {AcCtl})  w == <<x, y, z>>
<1>1. acController = "on" /\ AcCalls(AcControl, w)
  BY DEF AcGet, AcCtl
<1>2. /\ x.do = "lock" /\ x.on = AcCtl /\ x.frees = {}
      /\ y.do = "find" /\ y.frees = {}
      /\ z.do = "finish" /\ z.frees = {AcCtl}
  BY DEF AcTakes, AcDoes
<1>3. AcControlStep(x) /\ AcControlStep(y) /\ AcControlStep(z)
      /\ ~AcOnHandler(x) /\ ~AcOnHandler(y) /\ ~AcOnHandler(z)
      /\ AcIsLock(x, AcCtl) /\ ~AcIsLock(y, AcCtl) /\ ~AcIsLock(z, AcCtl)
  BY <1>2, AcLocksDiffer DEF AcControlStep, AcOnHandler, AcIsLock
<1> HIDE DEF x, y, z
<1>4. /\ w \in Seq({x, y, z}) /\ DOMAIN w = {1, 2, 3} /\ Len(w) = 3
      /\ w[1] = x /\ w[2] = y /\ w[3] = z /\ w # <<>>
  OBVIOUS
<1>5. AcList(w)
  BY <1>4, AcSeqIsList, Zenon
<1> HIDE DEF w
<1>6. AcControlOrder(w)
  BY <1>2, <1>3, <1>4 DEF AcControlOrder
<1> QED
  BY <1>1, <1>2, <1>3, <1>4, <1>5, <1>6, AcControlCallKeeps

\* A command begins: its components, one after the other, under the lock of the controller.
LEMMA AcCommandKeeps ==
  ASSUME AcInv, NEW kind \in {"log", "dump", "apply", "get"}, NEW enable \in BOOLEAN, NEW libs, NEW scenarios,
         AcList(libs), AcList(scenarios), AcCommand(kind, enable, libs, scenarios)
  PROVE  AcInv'
<1> DEFINE cs == AcTargets(libs, scenarios)  n == Len(libs) * Len(scenarios)
           Does(c) == AcDoes("component", [of |-> c, kind |-> kind, enable |-> enable], {})
           x == AcTakes(AcCtl)  z == AcDoes("finish", kind, {AcCtl})
           a == <<x>>  mid == [k \in DOMAIN cs |-> Does(cs[k])]  e == <<z>>
           w == (a \o mid) \o e
<1>1. acController = "on" /\ kind # "get" /\ AcCalls(AcControl, w)
  BY DEF AcCommand, AcCtl
<1>2. n \in Nat
  <2>1. Len(libs) \in Nat /\ Len(scenarios) \in Nat
    BY AcListIs, Zenon
  <2> QED
    BY <2>1
<1>3. DOMAIN cs = 1 .. n
  BY DEF AcTargets
<1> HIDE DEF n, cs
<1>4. /\ x.do = "lock" /\ x.on = AcCtl /\ x.frees = {}
      /\ z.do = "finish" /\ z.frees = {AcCtl}
      /\ \A c : Does(c).do = "component" /\ Does(c).frees = {} /\ Does(c).on.kind = kind
                /\ Does(c).on.enable = enable
  BY DEF AcTakes, AcDoes
<1> HIDE DEF x, z, Does
<1>5. AcControlStep(x) /\ AcControlStep(z) /\ ~AcOnHandler(x) /\ ~AcOnHandler(z)
      /\ AcIsLock(x, AcCtl) /\ ~AcIsLock(z, AcCtl)
      /\ \A c : AcControlStep(Does(c)) /\ ~AcOnHandler(Does(c)) /\ ~AcIsLock(Does(c), AcCtl)
  BY <1>1, <1>4, AcLocksDiffer DEF AcControlStep, AcOnHandler, AcIsLock
<1>6. AcList(a) /\ Len(a) = 1 /\ a[1] = x /\ AcList(e) /\ Len(e) = 1 /\ e[1] = z
  <2>1. a \in Seq({x}) /\ e \in Seq({z})
    OBVIOUS
  <2>2. AcList(a) /\ AcList(e)
    BY <2>1, AcSeqIsList, Zenon
  <2> QED
    BY <2>2
<1>7. AcList(mid) /\ Len(mid) = n /\ \A k \in 1 .. n : mid[k] = Does(cs[k])
  <2> DEFINE E == {Does(cs[k]) : k \in 1 .. n}
  <2>1. mid \in [1 .. n -> E] /\ \A k \in 1 .. n : mid[k] = Does(cs[k])
    BY <1>3
  <2> HIDE DEF E, mid
  <2>2. mid \in Seq(E) /\ Len(mid) = n
    BY <1>2, <2>1, SeqDef
  <2>3. AcList(mid)
    BY <2>2, AcSeqIsList, Zenon
  <2> QED
    BY <2>1, <2>2, <2>3
<1> HIDE DEF a, mid, e
<1>8. AcAround(w, a, mid, e)
  BY <1>6, <1>7, AcAroundIs, Zenon
<1> HIDE DEF w
<1>9. /\ AcList(w) /\ Len(w) = 1 + n + 1 /\ DOMAIN w = 1 .. (1 + n + 1)
      /\ \A k \in 1 .. 1 : w[k] = a[k]
      /\ \A k \in 1 .. 1 : w[k + 1 + n] = e[k]
      /\ \A k \in DOMAIN w : \/ k \in 1 .. 1 /\ w[k] = a[k]
                             \/ k - 1 \in 1 .. n /\ w[k] = mid[k - 1]
                             \/ k - 1 - n \in 1 .. 1 /\ w[k] = e[k - 1 - n]
  BY <1>6, <1>7, <1>8, Zenon DEF AcAround
<1>10. Len(w) = n + 2 /\ DOMAIN w = 1 .. (n + 2) /\ w[1] = x /\ w[Len(w)] = z /\ w # <<>>
  <2>1. w[1 + 1 + n] = z
    BY <1>6, <1>9
  <2>2. Len(w) = n + 2 /\ 1 + 1 + n = n + 2 /\ n + 2 # 0
    BY <1>2, <1>9
  <2>3. w # <<>>
    BY <1>9, <2>2, AcListIs
  <2> QED
    BY <1>2, <1>6, <1>9, <2>1, <2>2, <2>3
<1>11. ASSUME NEW k \in DOMAIN w
       PROVE  \/ k = 1 /\ w[k] = x
              \/ k = Len(w) /\ w[k] = z
              \/ k # 1 /\ \E c : w[k] = Does(c)
  <2>1. CASE k \in 1 .. 1 /\ w[k] = a[k]
    BY <1>6, <2>1
  <2>2. CASE k - 1 \in 1 .. n /\ w[k] = mid[k - 1]
    <3>1. w[k] = Does(cs[k - 1])
      BY <1>7, <2>2
    <3>2. k # 1
      BY <1>2, <2>2
    <3> QED
      BY <3>1, <3>2
  <2>3. CASE k - 1 - n \in 1 .. 1 /\ w[k] = e[k - 1 - n]
    <3>1. k - 1 - n = 1 /\ k \in 1 .. (n + 2)
      BY <1>10, <2>3
    <3>2. k = n + 2
      BY <1>2, <3>1
    <3> QED
      BY <1>6, <1>10, <2>3, <3>1, <3>2
  <2> QED
    BY <1>9, <2>1, <2>2, <2>3
<1>12. AcControlOrder(w)
  <2>1. ASSUME NEW k \in DOMAIN w
        PROVE  /\ AcIsLock(w[k], AcCtl) => k = 1
               /\ w[k].do \in {"start", "parse", "finish"} => k = Len(w)
               /\ ~AcOnHandler(w[k]) /\ w[k].do \notin {"find", "run"}
    <3>1. CASE k = 1 /\ w[k] = x
      BY <1>4, <1>5, <3>1
    <3>2. CASE k = Len(w) /\ w[k] = z
      BY <1>4, <1>5, <3>2
    <3>3. CASE \E c : w[k] = Does(c)
      BY <1>4, <1>5, <3>3
    <3> QED
      BY <1>11, <3>1, <3>2, <3>3
  <2>2. w[Len(w)].do = "finish"
    BY <1>4, <1>10
  <2> QED
    BY <2>1, <2>2 DEF AcControlOrder
<1>13. \A k \in DOMAIN w : AcControlStep(w[k]) /\ ~AcOnHandler(w[k]) /\ w[k].do # "parse"
  BY <1>4, <1>5, <1>11
<1>14. AcIsLock(w[1], AcCtl)
  BY <1>5, <1>10
<1> QED
  BY <1>1, <1>9, <1>10, <1>12, <1>13, <1>14, AcControlCallKeeps

\* What is said of a component, or to the handlers of one
LEMMA AcSaysKeeps ==
  ASSUME AcInv, acWork[AcControl] # <<>>, acWork[AcControl][1].do \in {"component", "find"},
         NEW r, AcList(r), NEW kind, AcSays(r, kind), AcThen(AcControl, r),
         UNCHANGED <<acFixed, acController, acStage, acManagers, acHandler, acReserved, acHalted, acRaced>>,
         acComponent' \in [AcComponents -> [log : BOOLEAN, dump : BOOLEAN]],
         \A step \in ToSet(r) : AcControlStep(step)' /\ \A h \in AcHandlers : AcUses(step, h) => acHandler[h].there,
         \A h \in AcHandlers : acHandler[h].there =>
            \/ acComponent'[AcComponentOf(h)].log = acComponent[AcComponentOf(h)].log
            \/ \E k \in DOMAIN r : r[k].do = "run" /\ r[k].on.handler = h /\ r[k].on.kind = "log"
  PROVE  AcInv'
<1> DEFINE w == acWork[AcControl]  v == r \o Tail(w)
<1>0. /\ AcTypeOK /\ AcControlFits /\ AcControl \in AcTasks \cup {AcControl} /\ AcControl \notin AcTasks
      /\ acStreams' = acStreams /\ acCommands' = acCommands /\ AcList(w) /\ acHalted' = FALSE /\ acRaced' \in BOOLEAN
  BY AcFixedIs DEF AcInv, AcTypeOK, acFixed
<1>1. /\ AcControlOrder(w) /\ \A k \in DOMAIN w : AcControlStep(w[k])
      /\ 1 \in DOMAIN w /\ Len(w) \in DOMAIN w /\ Head(w) = w[1]
  BY <1>0, AcListIs DEF AcControlFits
<1>2. /\ acWork'[AcControl] = v /\ DOMAIN acWork' = AcTasks \cup {AcControl}
      /\ \A s \in AcTasks : acWork'[s] = acWork[s]
      /\ acHeld' = acHeld \ w[1].frees
  BY <1>0, <1>1 DEF AcThen, AcTypeOK
<1> HIDE DEF v
<1>3. /\ AcList(v) /\ v # <<>> /\ AcControlOrder(v) /\ v[Len(v)] = w[Len(w)]
      /\ \A k \in DOMAIN v : \/ k \in DOMAIN r /\ v[k] = r[k]
                             \/ /\ ~AcOnHandler(v[k]) /\ ~AcIsLock(v[k], AcCtl)
                                /\ \E j \in DOMAIN w : v[k] = w[j]
      /\ \A k \in DOMAIN r : k \in DOMAIN v /\ v[k] = r[k]
      /\ ~AcIsLock(v[1], AcCtl)
  BY <1>0, <1>1, AcSaysOrder DEF v
<1> HIDE DEF w
<1>4. AcByControl
  BY <1>0, <1>2, <1>3 DEF AcByControl, AcTypeOK, AcInv
<1>5. AcOneHasCtl'
  <2>1. AcCtl \notin w[1].frees
    BY <1>1 DEF AcControlStep, w
  <2>2. AcHasCtl(v) <=> AcHasCtl(w)
    BY <1>1, <1>3 DEF AcHasCtl, AcIsLock, w
  <2>3. \A t \in AcTasks \cup {AcControl} : AcHasCtl(acWork'[t]) <=> AcHasCtl(acWork[t])
    BY <1>2, <2>2 DEF w
  <2> QED
    BY <1>0, <1>2, <2>1, <2>3, AcCtlSame DEF AcInv
<1>6. AcControlFits'
  <2>1. AcTasks' = AcTasks /\ AcHandlers' = AcHandlers /\ \A h : AcComponentOf(h)' = AcComponentOf(h)
    BY <1>0, AcSame
  <2>2. \A step : ~AcOnHandler(step) /\ AcControlStep(step) => AcControlStep(step)'
    BY <1>0, <2>1 DEF AcControlStep, AcOnHandler, AcCtl, AcLockOf
  <2>3. AcControlOrder(acWork[AcControl])'
    BY <1>2, <1>3 DEF AcControlOrder, AcOnHandler, AcIsLock, AcCtl
  <2>4. acController # "none"
    BY <1>0, <1>1 DEF AcControlFits, AcIsLock, w
  <2>5. ASSUME NEW k \in DOMAIN v, NEW step, step = v[k]
        PROVE  /\ AcControlStep(step)'
               /\ \A h \in AcHandlers : AcUses(v[k], h) => acHandler[h].there
               /\ v[k].do = "parse" => acController = "bad"
    <3>1. CASE k \in DOMAIN r /\ v[k] = r[k]
      <4>1. step \in ToSet(r) /\ AcOnHandler(step)
        BY <2>5, <3>1 DEF AcSays, ToSet
      <4> QED
        BY <2>5, <4>1 DEF AcOnHandler
    <3>2. CASE ~AcOnHandler(v[k]) /\ \E j \in DOMAIN w : v[k] = w[j]
      <4>1. AcControlStep(v[k]) /\ (v[k].do = "parse" => acController = "bad")
        BY <1>0, <1>1, <3>2 DEF AcControlFits, w
      <4>2. \A h \in AcHandlers : ~AcUses(v[k], h)
        BY <3>2, <4>1, AcLocksDiffer DEF AcUses, AcControlStep, AcOnHandler
      <4> QED
        BY <2>2, <2>5, <3>2, <4>1, <4>2
    <3> QED
      BY <1>3, <3>1, <3>2
  <2>6. \A step, h : AcUses(step, h)' <=> AcUses(step, h)
    BY DEF AcUses, AcLockOf
  <2>7. acController # "on" => \A s \in AcTasks : acStage[s] = "away" /\ acWork[s] = <<>>
    BY <1>0 DEF AcControlFits
  <2>8. \A step \in {v[k] : k \in DOMAIN v} : AcControlStep(step)'
    BY <2>5
  <2> QED
    BY <1>2, <2>1, <2>3, <2>4, <2>5, <2>6, <2>7, <2>8 DEF AcControlFits, AcIsLock
<1>7. ASSUME NEW h \in AcHandlers PROVE AcTold(h)'
  <2>1. AcTold(h) /\ AcComponentOf(h)' = AcComponentOf(h) /\ acHandler' = acHandler
    BY <1>0, AcSame DEF AcInv
  <2>2. ~AcToSay(h)
    <3>1. \A k \in DOMAIN w : w[k].do # "run"
      <4> SUFFICES ASSUME NEW k \in DOMAIN w, w[k].do = "run" PROVE FALSE
        OBVIOUS
      <4>1. AcOnHandler(w[k])
        BY DEF AcOnHandler
      <4>2. k # 1
        BY DEF w
      <4>3. 1 < k
        BY <1>0, <4>2, AcListIs DEF w
      <4> QED
        BY <1>1, <4>1, <4>3 DEF AcControlOrder, w
    <3> QED
      BY <3>1 DEF AcToSay, w
  <2>3. CASE ~AcToSay(h)'
    <3>1. ~\E k \in DOMAIN r : r[k].do = "run" /\ r[k].on.handler = h /\ r[k].on.kind = "log"
      BY <1>2, <1>3, <2>3 DEF AcToSay
    <3> QED
      BY <2>1, <2>2, <3>1 DEF AcTold
  <2>4. CASE AcToSay(h)'
    BY <2>1, <2>4 DEF AcTold
  <2> QED
    BY <2>3, <2>4
<1> QED
  BY <1>4, <1>5, <1>6, <1>7, AcByControlKeeps

\* What is said to a component's handlers reaches each of them, and all of them are there.
LEMMA AcRunsSay ==
  ASSUME AcTypeOK, acStreams' = acStreams, acCommands' = acCommands, acHandler' = acHandler,
         NEW c, NEW kind, NEW enable \in BOOLEAN, NEW r,
         r = AcRuns(SetToSeq(AcListed(c)), kind, enable), kind = "log" => acComponent'[c].log = enable
  PROVE  /\ AcList(r) /\ AcSays(r, kind)
         /\ \A step \in ToSet(r) : AcControlStep(step)' /\ \A h \in AcHandlers : AcUses(step, h) => acHandler[h].there
         /\ \A h \in AcListed(c) :
               \E k \in DOMAIN r : r[k].do = "run" /\ r[k].on.handler = h /\ r[k].on.kind = kind
<1> DEFINE hs == SetToSeq(AcListed(c))
           Act(h) == AcDoes("run", [handler |-> h, kind |-> kind, enable |-> enable], {AcLockOf(h)})
<1>1. AcListed(c) \subseteq AcHandlers /\ \A h \in AcListed(c) : acHandler[h].there /\ AcComponentOf(h) = c
  BY DEF AcListed
<1>2. /\ AcList(hs) /\ \A i \in DOMAIN hs : hs[i] \in AcListed(c)
      /\ \A h \in AcListed(c) : \E i \in DOMAIN hs : hs[i] = h
  BY <1>1, AcSetToSeqIs
<1> HIDE DEF hs
<1>3. /\ AcList(r)
      /\ \A k \in DOMAIN r : \E i \in DOMAIN hs : r[k] = AcTakes(AcLockOf(hs[i])) \/ r[k] = Act(hs[i])
      /\ \A i \in DOMAIN hs : \E k \in DOMAIN r : r[k] = Act(hs[i])
  <2>1. r = AcRuns(hs, kind, enable)
    BY DEF hs
  <2>2. AcRunsFor(r, hs, kind, enable)
    BY <1>2, <2>1, AcRunsAre, Zenon
  <2> QED
    BY <2>2 DEF Act, AcRunsFor
<1>4. \A h : /\ Act(h).do = "run" /\ Act(h).on.handler = h /\ Act(h).on.kind = kind
             /\ Act(h).on.enable = enable /\ Act(h).frees = {AcLockOf(h)}
             /\ AcTakes(AcLockOf(h)).do = "lock" /\ AcTakes(AcLockOf(h)).on = AcLockOf(h)
             /\ AcTakes(AcLockOf(h)).frees = {}
  BY DEF AcDoes, AcTakes
<1> HIDE DEF Act
<1>5. AcHandlers' = AcHandlers /\ \A h : AcComponentOf(h)' = AcComponentOf(h)
  BY AcSame
<1>6. ASSUME NEW h \in AcListed(c), NEW step, step = Act(h) \/ step = AcTakes(AcLockOf(h))
      PROVE  /\ AcControlStep(step)'
             /\ AcOnHandler(Act(h)) /\ AcOnHandler(AcTakes(AcLockOf(h)))
             /\ \A g : AcUses(Act(h), g) \/ AcUses(AcTakes(AcLockOf(h)), g) => g = h
  <2>1. h \in AcHandlers /\ AcComponentOf(h) = c /\ AcCtl # AcLockOf(h)
    BY <1>1, AcLocksDiffer
  <2>2. AcOnHandler(Act(h)) /\ AcOnHandler(AcTakes(AcLockOf(h)))
    BY <1>4, AcLocksDiffer DEF AcOnHandler
  <2>3. \A g : AcUses(Act(h), g) \/ AcUses(AcTakes(AcLockOf(h)), g) => g = h
    BY <1>4, AcLocksDiffer DEF AcUses
  <2>4. \/ step.do = "run" /\ step.on.handler = h /\ step.on.kind = kind /\ step.on.enable = enable
           /\ step.frees = {AcLockOf(h)}
        \/ step.do = "lock" /\ step.on = AcLockOf(h) /\ step.frees = {}
    BY <1>4, <1>6
  <2>5. AcControlStep(step)'
    BY <1>5, <2>1, <2>4 DEF AcControlStep, AcCtl, AcLockOf
  <2> QED
    BY <2>2, <2>3, <2>5
<1>7. ASSUME NEW k \in DOMAIN r, NEW step, step = r[k]
      PROVE  /\ AcOnHandler(r[k]) /\ (r[k].do = "run" => r[k].on.kind = kind)
             /\ AcControlStep(step)' /\ \A h \in AcHandlers : AcUses(step, h) => acHandler[h].there
  <2>1. PICK h \in AcListed(c) : r[k] = AcTakes(AcLockOf(h)) \/ r[k] = Act(h)
    BY <1>2, <1>3
  <2> QED
    BY <1>1, <1>4, <1>6, <1>7, <2>1
<1>8. ASSUME NEW h \in AcListed(c)
      PROVE  \E k \in DOMAIN r : r[k].do = "run" /\ r[k].on.handler = h /\ r[k].on.kind = kind
  BY <1>2, <1>3, <1>4
<1> QED
  BY <1>3, <1>7, <1>8 DEF AcSays, ToSet

\* The component is set, and its handlers are going to be told.
LEMMA AcSetComponentKeeps ==
  ASSUME AcInv, AcSetComponent
  PROVE  AcInv'
<1> DEFINE on == AcOn(AcControl)  c == on.of
           skipped == c \notin AcComponents \/ c[1] = acFailed
           done == skipped \/ (on.kind = "dump" /\ acComponent[c].dump = on.enable)
           r == IF done THEN <<>> ELSE AcRuns(SetToSeq(AcListed(c)), on.kind, on.enable)
<1>0. /\ AcTypeOK /\ AcControlFits /\ AcControl \in AcTasks \cup {AcControl}
      /\ acComponent \in [AcComponents -> [log : BOOLEAN, dump : BOOLEAN]]
  BY DEF AcInv, AcTypeOK
<1>1. /\ acWork[AcControl] # <<>> /\ acWork[AcControl][1].do = "component" /\ on = acWork[AcControl][1].on
      /\ 1 \in DOMAIN acWork[AcControl]
  BY <1>0, AcTurnIs DEF AcSetComponent
<1>2. on.kind \in {"log", "dump", "apply"} /\ on.enable \in BOOLEAN
  BY <1>0, <1>1 DEF AcControlFits, AcControlStep
<1>3. /\ acComponent' = IF skipped THEN acComponent
                        ELSE CASE on.kind = "log" -> [acComponent EXCEPT ![c].log = on.enable]
                               [] on.kind = "dump" -> [acComponent EXCEPT ![c].dump = on.enable]
                               [] OTHER -> acComponent
      /\ AcThen(AcControl, r)
      /\ UNCHANGED <<acFixed, acController, acManagers, acHandler, acReserved, acStage, acHalted, acRaced>>
      /\ acStreams' = acStreams /\ acCommands' = acCommands /\ acHandler' = acHandler
  BY DEF AcSetComponent, acFixed
<1> HIDE DEF on
<1>4. /\ acComponent' \in [AcComponents -> [log : BOOLEAN, dump : BOOLEAN]]
      /\ \A d \in AcComponents : \/ acComponent'[d].log = acComponent[d].log
                                 \/ d = c /\ on.kind = "log" /\ ~skipped
      /\ on.kind = "log" /\ ~skipped => acComponent'[c].log = on.enable
  <2>1. CASE skipped
    BY <1>0, <1>3, <2>1
  <2>2. CASE ~skipped /\ on.kind = "log"
    <3>1. acComponent' = [acComponent EXCEPT ![c].log = on.enable] /\ c \in AcComponents
      BY <1>3, <2>2
    <3> QED
      BY <1>0, <1>2, <2>2, <3>1
  <2>3. CASE ~skipped /\ on.kind = "dump"
    <3>1. acComponent' = [acComponent EXCEPT ![c].dump = on.enable] /\ c \in AcComponents
      BY <1>3, <2>3
    <3> QED
      BY <1>0, <1>2, <2>3, <3>1
  <2>4. CASE ~skipped /\ on.kind = "apply"
    <3>1. acComponent' = acComponent
      BY <1>3, <2>4
    <3> QED
      BY <1>0, <2>4, <3>1
  <2> QED
    BY <1>2, <2>1, <2>2, <2>3, <2>4
<1>5. AcList(<<>>) /\ DOMAIN <<>> = {}
  <2>1. \A S : <<>> \in Seq(S)
    OBVIOUS
  <2> QED
    BY <2>1 DEF AcList
<1>6. /\ AcList(r) /\ AcSays(r, on.kind)
      /\ \A step \in ToSet(r) : AcControlStep(step)' /\ \A h \in AcHandlers : AcUses(step, h) => acHandler[h].there
      /\ ~done => \A h \in AcListed(c) :
            \E k \in DOMAIN r : r[k].do = "run" /\ r[k].on.handler = h /\ r[k].on.kind = on.kind
  <2>1. CASE done
    <3>1. r = <<>> /\ ToSet(r) = {} /\ DOMAIN r = {}
      BY <1>5, <2>1 DEF ToSet
    <3> QED
      BY <1>5, <2>1, <3>1 DEF AcSays
  <2>2. CASE ~done
    <3>1. r = AcRuns(SetToSeq(AcListed(c)), on.kind, on.enable)
      BY <2>2
    <3>2. on.kind = "log" => acComponent'[c].log = on.enable
      BY <1>4, <2>2
    <3> HIDE DEF r
    <3> QED
      BY <1>0, <1>2, <1>3, <3>1, <3>2, AcRunsSay
  <2> QED
    BY <2>1, <2>2
<1>7. ASSUME NEW h \in AcHandlers, acHandler[h].there
      PROVE  \/ acComponent'[AcComponentOf(h)].log = acComponent[AcComponentOf(h)].log
             \/ \E k \in DOMAIN r : r[k].do = "run" /\ r[k].on.handler = h /\ r[k].on.kind = "log"
  <2>1. AcComponentOf(h) \in AcComponents
    BY DEF AcComponents
  <2>2. CASE AcComponentOf(h) = c /\ on.kind = "log" /\ ~skipped
    <3>1. ~done /\ h \in AcListed(c)
      BY <1>7, <2>2 DEF AcListed
    <3> QED
      BY <1>6, <2>2, <3>1
  <2> QED
    BY <1>4, <2>1, <2>2
<1> HIDE DEF r, done, skipped, c
<1>8. PICK kind : kind = on.kind
  OBVIOUS
<1>9. AcSays(r, kind)
  BY <1>6, <1>8
<1> QED
  BY <1>1, <1>3, <1>4, <1>6, <1>7, <1>9, AcSaysKeeps

\* The first component with handlers is going to be asked.
LEMMA AcFindKeeps ==
  ASSUME AcInv, AcFind
  PROVE  AcInv'
<1> DEFINE cs == AcOn(AcControl)
           busy == {k \in DOMAIN cs : AcListed(cs[k]) # {}}
           first == CHOOSE k \in busy : \A j \in busy : k <= j
           c == cs[first]
           r == IF busy = {} THEN <<>> ELSE AcRuns(SetToSeq(AcListed(c)), "get", TRUE)
<1>0. /\ AcTypeOK /\ AcControlFits /\ AcControl \in AcTasks \cup {AcControl}
      /\ acComponent \in [AcComponents -> [log : BOOLEAN, dump : BOOLEAN]]
  BY DEF AcInv, AcTypeOK
<1>1. acWork[AcControl] # <<>> /\ acWork[AcControl][1].do = "find"
  BY <1>0, AcTurnIs DEF AcFind
<1>2. /\ AcThen(AcControl, r) /\ acComponent' = acComponent
      /\ UNCHANGED <<acFixed, acController, acManagers, acHandler, acReserved, acStage, acHalted, acRaced>>
      /\ acStreams' = acStreams /\ acCommands' = acCommands /\ acHandler' = acHandler
  BY DEF AcFind, acFixed, acLibs
<1> HIDE DEF c, busy
<1>3. AcList(<<>>) /\ DOMAIN <<>> = {}
  <2>1. \A S : <<>> \in Seq(S)
    OBVIOUS
  <2> QED
    BY <2>1 DEF AcList
<1>4. /\ AcList(r) /\ AcSays(r, "get")
      /\ \A step \in ToSet(r) : AcControlStep(step)' /\ \A h \in AcHandlers : AcUses(step, h) => acHandler[h].there
  <2>1. CASE busy = {}
    <3>1. r = <<>> /\ ToSet(r) = {} /\ DOMAIN r = {}
      BY <1>3, <2>1 DEF ToSet
    <3> QED
      BY <1>3, <3>1 DEF AcSays
  <2>2. CASE busy # {}
    <3>1. PICK kind \in {"get"}, enable \in BOOLEAN : kind = "get" /\ enable = TRUE
      OBVIOUS
    <3>2. r = AcRuns(SetToSeq(AcListed(c)), kind, enable) /\ kind # "log"
      BY <2>2, <3>1
    <3> HIDE DEF r
    <3>3. /\ AcList(r) /\ AcSays(r, kind)
          /\ \A step \in ToSet(r) : AcControlStep(step)' /\ \A h \in AcHandlers : AcUses(step, h) => acHandler[h].there
      BY <1>0, <1>2, <3>2, AcRunsSay
    <3> QED
      BY <3>1, <3>3
  <2> QED
    BY <2>1, <2>2
<1>5. acComponent' \in [AcComponents -> [log : BOOLEAN, dump : BOOLEAN]]
  BY <1>0, <1>2
<1>6. \A h \in AcHandlers : acComponent'[AcComponentOf(h)].log = acComponent[AcComponentOf(h)].log
  BY <1>2
<1> HIDE DEF r
<1> QED
  BY <1>1, <1>2, <1>4, <1>5, <1>6, AcSaysKeeps
---------------------------------------------------------------------------
(* The controller's start and end *)

\* Nothing is left to be said when no command is on.
LEMMA AcNoRun ==
  ASSUME AcTypeOK, AcControlFits, NEW h,
         \/ acWork[AcControl] = <<>>
         \/ acWork[AcControl] # <<>> /\ acWork[AcControl][1].do \in {"start", "parse"}
  PROVE  ~AcToSay(h)
<1> DEFINE w == acWork[AcControl]
<1>1. AcList(w) /\ AcControlOrder(w)
  BY DEF AcTypeOK, AcControlFits
<1>2. Len(w) \in Nat /\ DOMAIN w = 1 .. Len(w) /\ (w = <<>> <=> Len(w) = 0)
  BY <1>1, AcListIs, Zenon
<1> SUFFICES ASSUME NEW k \in DOMAIN w, w[k].do = "run" PROVE FALSE
  BY DEF AcToSay
<1>3. w # <<>> /\ 1 \in DOMAIN w /\ w[1].do \in {"start", "parse"}
  BY <1>2
<1>4. 1 = Len(w)
  BY <1>1, <1>3 DEF AcControlOrder
<1> QED
  BY <1>2, <1>3, <1>4

\* The controller is made, or there is one already.
LEMMA AcStartsKeeps ==
  ASSUME AcInv, AcStarts
  PROVE  AcInv'
<1> DEFINE w == acWork[AcControl]  x == AcTakes(AcCtl)  y == AcDoes("parse", AcControl, {AcCtl})
           first == acController = "none"  v == IF first THEN <<x, y>> ELSE <<>>
<1>0. /\ AcTypeOK /\ AcControlFits /\ AcControl \in AcTasks \cup {AcControl} /\ AcControl \notin AcTasks
  BY AcFixedIs DEF AcInv
<1>1. w # <<>> /\ w[1].do = "start" /\ AcList(w) /\ 1 \in DOMAIN w /\ Head(w) = w[1]
  <2>1. w # <<>> /\ w[1].do = "start" /\ AcList(w) /\ 1 \in DOMAIN w
    BY <1>0, AcTurnIs DEF AcStarts
  <2> QED
    BY <2>1, AcListIs, Zenon
<1>2. AcControlOrder(w) /\ AcControlStep(w[1]) /\ Len(w) = 1 /\ Tail(w) = <<>>
  <2>1. AcControlOrder(w) /\ AcControlStep(w[1])
    BY <1>0, <1>1 DEF AcControlFits
  <2>2. Len(w) = 1
    BY <1>1, <2>1 DEF AcControlOrder
  <2>3. Tail(w) # <<>> => Len(w) > 1
    BY <1>1, AcTailIs, Zenon
  <2> QED
    BY <2>1, <2>2, <2>3
<1>3. /\ acController' = (IF first THEN "bad" ELSE acController) /\ AcThen(AcControl, v)
      /\ UNCHANGED <<acFixed, acManagers, acHandler, acReserved, acComponent, acStage, acRaced>>
      /\ acHalted' = FALSE /\ acRaced' \in BOOLEAN /\ acStreams' = acStreams /\ acCommands' = acCommands
  BY <1>0 DEF AcStarts, acLibs, acFixed, AcTypeOK, AcCtl
<1>4. /\ x.do = "lock" /\ x.on = AcCtl /\ x.frees = {}
      /\ y.do = "parse" /\ y.frees = {AcCtl}
  BY DEF AcTakes, AcDoes
<1>5. /\ AcControlStep(x) /\ AcControlStep(y) /\ ~AcOnHandler(x) /\ ~AcOnHandler(y)
      /\ AcIsLock(x, AcCtl) /\ ~AcIsLock(y, AcCtl)
      /\ \A h : ~AcUses(x, h) /\ ~AcUses(y, h)
  BY <1>4, AcLocksDiffer DEF AcControlStep, AcOnHandler, AcIsLock, AcUses
<1> HIDE DEF x, y, w
<1>6. /\ first => v \in Seq({x, y}) /\ DOMAIN v = {1, 2} /\ Len(v) = 2 /\ v[1] = x /\ v[2] = y /\ v # <<>>
      /\ ~first => v = <<>> /\ DOMAIN v = {} /\ v \in Seq({x, y})
  <2>1. /\ <<x, y>> \in Seq({x, y}) /\ DOMAIN <<x, y>> = {1, 2} /\ Len(<<x, y>>) = 2
        /\ <<x, y>>[1] = x /\ <<x, y>>[2] = y /\ <<x, y>> # <<>>
    OBVIOUS
  <2>2. DOMAIN <<>> = {} /\ \A S : <<>> \in Seq(S)
    OBVIOUS
  <2>3. CASE first
    <3>1. v = <<x, y>>
      BY <2>3
    <3> HIDE DEF v
    <3> QED
      BY <2>1, <2>3, <3>1
  <2>4. CASE ~first
    <3>1. v = <<>>
      BY <2>4
    <3> HIDE DEF v
    <3> QED
      BY <2>2, <2>4, <3>1
  <2> QED
    BY <2>3, <2>4
<1>7. AcList(v) /\ v \o <<>> = v
  <2>1. v \in Seq({x, y})
    BY <1>6
  <2> HIDE DEF v
  <2> QED
    BY <2>1, AcSeqIsList, ConcatEmptySeq
<1>8. /\ acWork'[AcControl] = v /\ DOMAIN acWork' = AcTasks \cup {AcControl}
      /\ \A s \in AcTasks : acWork'[s] = acWork[s]
      /\ acHeld' = acHeld \ w[1].frees
  <2>1. acWork' = [acWork EXCEPT ![AcControl] = v]
    BY <1>2, <1>3, <1>7 DEF AcThen, w
  <2> HIDE DEF v
  <2> QED
    BY <1>0, <1>1, <1>3, <2>1 DEF AcThen, AcTypeOK, w
<1> HIDE DEF v
<1>9. AcByControl
  BY <1>0, <1>3, <1>7, <1>8 DEF AcByControl, AcTypeOK
<1>10. AcOneHasCtl'
  <2>1. AcCtl \notin w[1].frees
    BY <1>1, <1>2 DEF AcControlStep
  <2>2. ~AcHasCtl(v)
    BY <1>5, <1>6 DEF AcHasCtl
  <2>3. ~AcHasCtl(w)
    BY <1>2, <2>1 DEF AcHasCtl
  <2>4. \A t \in AcTasks \cup {AcControl} : AcHasCtl(acWork'[t]) <=> AcHasCtl(acWork[t])
    BY <1>8, <2>2, <2>3 DEF w
  <2> QED
    BY <1>3, <1>8, <2>1, <2>4, AcCtlSame DEF AcInv
<1>11. AcControlFits'
  <2>1. AcTasks' = AcTasks /\ AcHandlers' = AcHandlers /\ \A h : AcComponentOf(h)' = AcComponentOf(h)
    BY <1>3, AcSame
  <2>2. \A step : AcControlStep(step)' <=> AcControlStep(step)
    BY <1>3, <2>1 DEF AcControlStep, AcCtl, AcLockOf
  <2>3. AcControlOrder(v)
    <3>1. CASE first
      BY <1>4, <1>5, <1>6, <3>1 DEF AcControlOrder
    <3>2. CASE ~first
      BY <1>6, <3>2 DEF AcControlOrder
    <3> QED
      BY <3>1, <3>2
  <2>4. AcControlOrder(acWork[AcControl])'
    BY <1>8, <2>3 DEF AcControlOrder, AcOnHandler, AcIsLock, AcCtl
  <2>5. ASSUME NEW k \in DOMAIN v
        PROVE  /\ AcControlStep(v[k]) /\ \A h : ~AcUses(v[k], h)
               /\ acController' = "bad"
    BY <1>3, <1>5, <1>6
  <2>6. acController' # "on" => \A s \in AcTasks : acStage[s] = "away" /\ acWork[s] = <<>>
    BY <1>0, <1>3 DEF AcControlFits
  <2>7. \A step, h : AcUses(step, h)' <=> AcUses(step, h)
    BY DEF AcUses, AcLockOf
  <2> QED
    BY <1>3, <1>8, <2>1, <2>2, <2>4, <2>5, <2>6, <2>7 DEF AcControlFits, AcIsLock
<1>12. ASSUME NEW h \in AcHandlers PROVE AcTold(h)'
  <2>1. AcTold(h)
    BY DEF AcInv
  <2>2. ~AcToSay(h)
    BY <1>0, <1>1, AcNoRun DEF w
  <2>3. ~AcToSay(h)'
    BY <1>4, <1>6, <1>8 DEF AcToSay
  <2> QED
    BY <1>3, <2>1, <2>2, <2>3, AcToldSame
<1> QED
  BY <1>9, <1>10, <1>11, <1>12, AcByControlKeeps

\* While the configuration is read there are no handlers.
LEMMA AcParseKeeps ==
  ASSUME AcInv, AcParse
  PROVE  AcInv'
<1> DEFINE w == acWork[AcControl]
<1>0. AcTypeOK /\ AcControlFits /\ AcControl \in AcTasks \cup {AcControl}
  BY DEF AcInv
<1>1. w # <<>> /\ w[1].do = "parse" /\ AcList(w) /\ 1 \in DOMAIN w
  BY <1>0, AcTurnIs DEF AcParse
<1>2. AcControlOrder(w) /\ AcControlStep(w[1]) /\ Len(w) = 1 /\ Tail(w) = <<>> /\ acController = "bad"
  <2>1. AcControlOrder(w) /\ AcControlStep(w[1]) /\ acController = "bad"
    BY <1>0, <1>1 DEF AcControlFits
  <2>2. Len(w) = 1
    BY <1>1, <2>1 DEF AcControlOrder
  <2>3. Tail(w) # <<>> => Len(w) > 1
    BY <1>1, AcTailIs, Zenon
  <2> QED
    BY <2>1, <2>2, <2>3
<1>3. /\ acController' \in {"on", "bad"} /\ acComponent' = AcNew /\ AcGoesOn(AcControl)
      /\ UNCHANGED <<acFixed, acManagers, acHandler, acReserved, acStage, acRaced>>
      /\ acHalted' = FALSE /\ acRaced' \in BOOLEAN /\ acStreams' = acStreams /\ acCommands' = acCommands
  BY <1>0 DEF AcParse, acFixed, AcTypeOK
<1>4. /\ AcOneHasCtl' /\ acWork'[AcControl] = <<>>
      /\ DOMAIN acWork' = AcTasks \cup {AcControl} /\ AcList(acWork'[AcControl])
      /\ \A s \in AcTasks : acWork'[s] = acWork[s]
  <2>1. acWork[AcControl][1].do # "lock" /\ acWork[AcControl] # <<>> /\ UNCHANGED acFixed
    BY <1>1, <1>3
  <2> QED
    BY <1>2, <1>3, <2>1, AcControlGoesOn
<1>5. \A s \in AcTasks : acStage[s] = "away" /\ acWork[s] = <<>>
  BY <1>0, <1>2 DEF AcControlFits
<1>6. AcByControl
  BY <1>0, <1>3, <1>4 DEF AcByControl, AcTypeOK, AcNew
<1>7. DOMAIN <<>> = {}
  OBVIOUS
<1>8. AcControlFits'
  <2>1. AcTasks' = AcTasks
    BY <1>3, AcSame
  <2> QED
    BY <1>3, <1>4, <1>5, <1>7, <2>1 DEF AcControlFits, AcControlOrder
<1>9. ASSUME NEW h \in AcHandlers PROVE AcTold(h)'
  <2>1. AcTold(h) /\ h[1] \in AcTasks /\ h \in AcOf(h[1])
    BY <1>0, AcHandlersAre DEF AcInv
  <2>2. ~acHandler[h].there
    BY <1>5, <2>1 DEF AcInv, AcStreamFits, AcStands
  <2>3. ~acHandler[h].arsi /\ ~acHandler[h].dump
    BY <2>1, <2>2 DEF AcTold
  <2> QED
    BY <1>3, <2>2, <2>3 DEF AcTold
<1> QED
  BY <1>4, <1>6, <1>8, <1>9, AcByControlKeeps

\* The controller ends when nobody is in a call, or nothing happens.
LEMMA AcDeinitKeeps ==
  ASSUME AcInv,
         UNCHANGED <<acFixed, acManagers, acLibs, acWork, acHeld, acStage, acHalted, acRaced>>,
         \/ acController' = acController
         \/ /\ acController' = "none" /\ acWork[AcControl] = <<>>
            /\ \A s \in AcTasks : acStage[s] = "away" /\ acWork[s] = <<>>
  PROVE  AcInv'
<1>0. /\ AcTypeOK /\ AcControlFits /\ AcControl \in AcTasks \cup {AcControl}
      /\ acStreams' = acStreams /\ acCommands' = acCommands /\ acHalted' = FALSE /\ acRaced' \in BOOLEAN
      /\ acWork' = acWork /\ acHandler' = acHandler /\ acComponent' = acComponent /\ acHeld' = acHeld
      /\ acStage' = acStage
  BY DEF AcInv, acFixed, acLibs, AcTypeOK
<1>1. AcByControl
  BY <1>0 DEF AcByControl, AcTypeOK, acLibs
<1>2. AcOneHasCtl'
  BY <1>0, AcCtlSame DEF AcInv
<1>3. AcControlFits'
  <2>1. AcTasks' = AcTasks /\ AcHandlers' = AcHandlers /\ \A h : AcComponentOf(h)' = AcComponentOf(h)
    BY <1>0, AcSame
  <2>2. \A step : AcControlStep(step)' <=> AcControlStep(step)
    BY <1>0, <2>1 DEF AcControlStep, AcCtl, AcLockOf
  <2>3. AcControlOrder(acWork[AcControl])'
    BY <1>0 DEF AcControlFits, AcControlOrder, AcOnHandler, AcIsLock, AcCtl
  <2>4. \A step, h : AcUses(step, h)' <=> AcUses(step, h)
    BY DEF AcUses, AcLockOf
  <2>5. CASE acController' = acController
    BY <1>0, <2>1, <2>2, <2>3, <2>4, <2>5 DEF AcControlFits, AcIsLock
  <2>6. CASE /\ acController' = "none" /\ acWork[AcControl] = <<>>
             /\ \A s \in AcTasks : acStage[s] = "away" /\ acWork[s] = <<>>
    <3>1. DOMAIN acWork[AcControl] = {}
      BY <2>6
    <3> QED
      BY <1>0, <2>1, <2>3, <2>6, <3>1 DEF AcControlFits
  <2> QED
    BY <2>5, <2>6
<1>4. ASSUME NEW h \in AcHandlers PROVE AcTold(h)'
  <2>1. AcTold(h) /\ (AcToSay(h)' <=> AcToSay(h))
    BY <1>0 DEF AcInv, AcToSay
  <2> QED
    BY <1>0, <2>1, AcToldSame
<1> QED
  BY <1>1, <1>2, <1>3, <1>4, AcByControlKeeps
---------------------------------------------------------------------------
(* What holds in every state *)

\* Nothing is there at the beginning.
LEMMA AcInitInv == AcInit => AcInv
<1> SUFFICES ASSUME AcInit PROVE AcInv
  OBVIOUS
<1>1. AcList(<<>>) /\ DOMAIN <<>> = {}
  <2>1. \A S : <<>> \in Seq(S)
    OBVIOUS
  <2> QED
    BY <2>1 DEF AcList
<1>2. /\ DOMAIN acWork = AcTasks \cup {AcControl} /\ \A t \in AcTasks \cup {AcControl} : acWork[t] = <<>>
      /\ acStage = [s \in AcTasks |-> "away"] /\ acHandler = [h \in AcHandlers |-> AcNoHandler]
      /\ acController = "none" /\ acHeld = {} /\ acReserved = {}
  BY DEF AcInit
<1>3. /\ AcNoHandler \in AcHandlerTypes /\ ~AcNoHandler.there /\ ~AcNoHandler.arsi /\ ~AcNoHandler.dump
  BY DEF AcNoHandler, AcHandlerTypes
<1>4. AcTypeOK
  BY <1>1, <1>2, <1>3 DEF AcInit, AcTypeOK, AcNew
<1>5. AcControlFits
  BY <1>1, <1>2 DEF AcControlFits, AcControlOrder
<1>6. AcOneHasCtl
  BY <1>2 DEF AcOneHasCtl, AcHasCtl
<1>7. \A h \in AcHandlers : ~acHandler[h].there /\ ~acHandler[h].arsi /\ ~acHandler[h].dump
  BY <1>2, <1>3
<1>8. AcReserves
  BY <1>2, <1>7 DEF AcReserves
<1>9. ASSUME NEW s \in AcTasks PROVE AcStreamFits(s)
  <2>1. acWork[s] = <<>> /\ acStage[s] = "away"
    BY <1>2
  <2>2. \A h \in AcOf(s) : h \in AcHandlers
    BY <1>4, AcHandlersAre
  <2> QED
    BY <1>1, <1>7, <2>1, <2>2 DEF AcStreamFits, AcShape, AcStreamOrder, AcStands, AcLeft, AcSafe
<1>10. \A h \in AcHandlers : AcTold(h)
  BY <1>7 DEF AcTold
<1> QED
  BY <1>4, <1>5, <1>6, <1>8, <1>9, <1>10 DEF AcInv

\* Every action keeps the invariant.
LEMMA AcNextInv == AcInv /\ [AcNext]_acVars => AcInv'
<1> SUFFICES ASSUME AcInv, [AcNext]_acVars PROVE AcInv'
  OBVIOUS
<1>0. AcTypeOK
  BY DEF AcInv
<1>1. CASE \E t \in DOMAIN acWork : AcLock(t)
  <2>1. PICK t \in AcTasks \cup {AcControl} : AcLock(t)
    BY <1>0, <1>1 DEF AcTypeOK
  <2> QED
    BY <2>1, AcLockKeeps, AcControlPlain
<1>2. ASSUME NEW s \in AcTasks,
             \/ AcCreateManager(s) \/ AcCreate(s) \/ AcDestroyManager(s) \/ AcUnlink(s) \/ AcFree(s)
             \/ AcCreateArsi(s) \/ AcMake(s) \/ AcDestroyArsi(s) \/ AcUnmake(s)
             \/ AcProcess(s) \/ AcUse(s) \/ AcApplyParam(s) \/ AcMove(s) \/ AcCopy(s) \/ AcEnd(s)
      PROVE  AcInv'
  <2>1. CASE AcCreateManager(s) \/ AcCreate(s) \/ AcDestroyManager(s) \/ AcUnlink(s) \/ AcFree(s)
    BY <2>1, AcCreateManagerKeeps, AcCreateKeeps, AcDestroyManagerKeeps, AcUnlinkKeeps, AcFreeKeeps
  <2>2. CASE AcCreateArsi(s)
    BY <2>2, AcManagedKeeps DEF AcCreateArsi
  <2>3. CASE AcDestroyArsi(s)
    BY <2>3, AcManagedKeeps DEF AcDestroyArsi
  <2>4. CASE AcProcess(s)
    BY <2>4, AcManagedKeeps DEF AcProcess
  <2>5. CASE AcMake(s) \/ AcUnmake(s) \/ AcUse(s)
    BY <2>5, AcMakeKeeps, AcUnmakingKeeps, AcUseKeeps
  <2>6. CASE AcApplyParam(s) \/ AcMove(s) \/ AcCopy(s) \/ AcEnd(s)
    BY <2>6, AcApplyParamKeeps, AcMoveKeeps, AcEndKeeps
  <2> QED
    BY <1>2, <2>1, <2>2, <2>3, <2>4, <2>5, <2>6
<1>3. CASE \E h \in AcHandlers : AcSet(h[1], h)
  BY <1>3, AcSetKeeps
<1>4. CASE \E c \in acCommands : \/ AcGet(c.libs, c.scenarios)
                                 \/ AcCommand(c.kind, c.enable, c.libs, c.scenarios)
  <2>1. PICK c \in acCommands : \/ AcGet(c.libs, c.scenarios)
                                \/ AcCommand(c.kind, c.enable, c.libs, c.scenarios)
    BY <1>4
  <2>2. /\ AcList(c.libs) /\ AcList(c.scenarios)
        /\ c.kind \in {"log", "dump", "apply", "get"} /\ c.enable \in BOOLEAN
    BY <1>0, AcFixedIs
  <2> QED
    BY <2>1, <2>2, AcGetKeeps, AcCommandKeeps
<1>5. CASE AcSetComponent \/ AcFind \/ AcRun \/ AcFinish
  BY <1>5, AcSetComponentKeeps, AcFindKeeps, AcRunKeeps, AcControlPlain
<1>6. CASE AcStart \/ AcStarts \/ AcParse
  BY <1>6, AcStartKeeps, AcStartsKeeps, AcParseKeeps
<1>7. CASE AcDeinit
  <2>1. acWork[AcControl] = <<>> /\ \A s \in AcTasks : acWork[s] = <<>>
    BY <1>0, <1>7 DEF AcDeinit, AcIdle, AcTypeOK
  <2> QED
    BY <1>7, <2>1, AcDeinitKeeps DEF AcDeinit
<1>8. CASE AcStopped \/ UNCHANGED acVars
  <2>1. UNCHANGED acVars
    BY <1>8 DEF AcStopped
  <2> QED
    BY <2>1, AcDeinitKeeps DEF acVars
<1> QED
  BY <1>1, <1>2, <1>3, <1>4, <1>5, <1>6, <1>7, <1>8 DEF AcNext

\* Who is told is told before the controller's lock is free again.
LEMMA AcInvServes == AcInv => AcServes
<1> SUFFICES ASSUME AcInv PROVE AcServes
  OBVIOUS
<1>0. AcTypeOK /\ AcControlFits /\ AcControl \in AcTasks \cup {AcControl} /\ ~acHalted
  BY DEF AcInv, AcTypeOK
<1>1. AcAlive
  <2> SUFFICES ASSUME NEW t \in DOMAIN acWork, acWork[t] # <<>>, NEW step, step = Head(acWork[t])
               PROVE  /\ \A h \in AcHandlers : AcUses(step, h) => acHandler[h].there
                      /\ \A s \in AcTasks : step.do = "lock" /\ step.on = AcManagerLock(s) => s \in acManagers
                      /\ step.do = "lock" /\ step.on = AcCtl => acController # "none"
    BY DEF AcAlive, AcCtl
  <2>1. t \in AcTasks \cup {AcControl} /\ AcList(acWork[t]) /\ 1 \in DOMAIN acWork[t] /\ step = acWork[t][1]
    <3>1. t \in AcTasks \cup {AcControl} /\ AcList(acWork[t])
      BY <1>0 DEF AcTypeOK
    <3> QED
      BY <3>1, AcListIs
  <2>2. CASE t = AcControl
    <3>1. /\ AcControlStep(step) /\ \A h \in AcHandlers : AcUses(step, h) => acHandler[h].there
          /\ acController = "none" => step.do = "start" \/ AcIsLock(step, <<"controllers">>)
      BY <1>0, <2>1, <2>2 DEF AcControlFits
    <3>2. \A s : ~(step.do = "lock" /\ step.on = AcManagerLock(s))
      <4>1. \A s : <<"controllers">> # AcManagerLock(s)
        BY DEF AcManagerLock
      <4> QED
        BY <3>1, <4>1, AcLocksDiffer DEF AcControlStep
    <3>3. step.do = "lock" /\ step.on = AcCtl => acController # "none"
      BY <3>1, AcLocksDiffer DEF AcIsLock
    <3> QED
      BY <3>1, <3>2, <3>3
  <2>3. CASE t \in AcTasks
    <3>1. AcStreamFits(t) /\ acController = "on"
      BY <1>0, <2>3 DEF AcInv, AcControlFits
    <3>2. /\ \A h \in AcHandlers : AcUses(step, h) => acHandler[h].there
          /\ AcIsLock(step, AcManagerLock(t)) => t \in acManagers
          /\ AcStreamStep(t, acStage[t], step)
      BY <2>1, <3>1 DEF AcStreamFits, AcSafe, AcShape
    <3>3. \A s \in AcTasks : step.do = "lock" /\ step.on = AcManagerLock(s) => s = t
      BY <3>2, AcLocksDiffer DEF AcStreamStep, AcManagerLock, AcLockOf
    <3> QED
      BY <3>1, <3>2, <3>3 DEF AcIsLock
  <2> QED
    BY <2>1, <2>2, <2>3
<1>2. ASSUME NEW h \in AcHandlers, acHandler[h].there, AcCtl \notin acHeld
      PROVE  acHandler[h].log = acComponent[AcComponentOf(h)].log
  <2> DEFINE w == acWork[AcControl]
  <2>1. ~AcHasCtl(w)
    BY <1>0, <1>2 DEF AcInv, AcOneHasCtl
  <2>2. ~AcToSay(h)
    <3> SUFFICES ASSUME NEW k \in DOMAIN w, w[k].do = "run" PROVE FALSE
      BY DEF AcToSay
    <3>1. AcList(w) /\ AcControlOrder(w) /\ AcOnHandler(w[k])
      BY <1>0 DEF AcControlFits, AcTypeOK, AcOnHandler
    <3>2. w # <<>> /\ Len(w) \in DOMAIN w
      <4>1. w # <<>>
        OBVIOUS
      <4> QED
        BY <3>1, <4>1, AcListIs, Zenon
    <3>3. ~AcIsLock(w[1], AcCtl) /\ w[Len(w)].do = "finish"
      BY <3>1 DEF AcControlOrder
    <3>4. AcCtl \in w[Len(w)].frees
      BY <1>0, <3>2, <3>3 DEF AcControlFits, AcControlStep
    <3> QED
      BY <2>1, <3>2, <3>3, <3>4 DEF AcHasCtl
  <2> QED
    BY <1>2, <2>2 DEF AcInv, AcTold
<1>3. \A h \in AcHandlers : /\ acHandler[h].arsi => acHandler[h].told = acHandler[h].log
                            /\ acHandler[h].dump => acHandler[h].arsi /\ acHandler[h].dumps
  BY DEF AcInv, AcTold
<1>4. ASSUME NEW r \in {"dl", "ul"}, NEW users, users = {h \in AcHandlers : acHandler[h].arsi /\ r \in AcRegions(h)}
      PROVE  Cardinality(users) <= 1 /\ (r \in acReserved <=> users # {})
  <2>1. r \in acReserved <=> users # {}
    BY <1>4 DEF AcInv, AcReserves
  <2>2. CASE users = {}
    BY <2>1, <2>2, FS_EmptySet
  <2>3. CASE users # {}
    <3>1. PICK g : g \in users
      BY <2>3
    <3>2. \A h \in users : h = g
      BY <1>0, <1>4, <3>1, AcRegionsApart
    <3>3. users = {g}
      BY <3>1, <3>2
    <3>4. Cardinality({g}) = 1
      BY FS_Singleton
    <3> QED
      BY <2>1, <3>3, <3>4
  <2> QED
    BY <2>2, <2>3
<1> QED
  BY <1>0, <1>1, <1>2, <1>3, <1>4 DEF AcServes, AcCtl

(* AcServes holds for any streams, libraries and commands (AcAssumption):  *)
(* nothing is used that another task has freed, the handlers and their     *)
(* libraries log as the last command has said, reserved memory has one     *)
(* user, and a dump goes with its library.                                 *)
THEOREM AcServesHolds == AcSpec => []AcServes
<1>1. AcInit => AcInv
  BY AcInitInv
<1>2. AcInv /\ [AcNext]_acVars => AcInv'
  BY AcNextInv
<1>3. AcInv => AcServes
  BY AcInvServes
<1> QED
  BY <1>1, <1>2, <1>3, PTL DEF AcSpec
---------------------------------------------------------------------------
\* What comes at time p of a stream that is d times late
AuValue(d, p) == IF p <= d THEN 0 ELSE p - d

\* data holds the times a+1 to b of such a stream, in c channels
AuHolds(data, c, a, b, d) ==
    /\ data \in Seq(Nat) /\ Len(data) = (b - a) * c
    /\ \A p \in 1..(b - a), j \in 1..c : data[(p - 1) * c + j] = AuValue(d, a + p)

\* The channel and the time of an entry
LEMMA AuDivides ==
  ASSUME NEW k \in Nat, NEW c \in Nat \ {0}
  PROVE  /\ k \div c \in Nat /\ k % c \in Nat /\ k % c < c
         /\ k = c * (k \div c) + (k % c)
  OBVIOUS

\* Multiplying keeps the order
LEMMA AuTimesUp ==
  ASSUME NEW a \in Nat, NEW b \in Nat, NEW c \in Nat, a <= b
  PROVE  a * c <= b * c /\ a * c \in Nat /\ b * c \in Nat
<1>1. b - a \in Nat /\ (b - a) * c \in Nat /\ a * c \in Nat /\ b * c \in Nat
  OBVIOUS
<1>2. b * c = a * c + (b - a) * c
  OBVIOUS
<1> QED
  BY <1>1, <1>2

\* ... and can be undone.
LEMMA AuTimesCancel ==
  ASSUME NEW a \in Nat, NEW b \in Nat, NEW c \in Nat \ {0}, a * c = b * c
  PROVE  a = b
<1>1. CASE a < b
  <2>1. (a + 1) * c <= b * c
    BY <1>1, AuTimesUp
  <2>2. (a + 1) * c = a * c + c
    OBVIOUS
  <2>3. a * c \in Nat
    OBVIOUS
  <2> QED
    BY <2>1, <2>2, <2>3
<1>2. CASE b < a
  <2>1. (b + 1) * c <= a * c
    BY <1>2, AuTimesUp
  <2>2. (b + 1) * c = b * c + c
    OBVIOUS
  <2>3. b * c \in Nat
    OBVIOUS
  <2> QED
    BY <2>1, <2>2, <2>3
<1> QED
  BY <1>1, <1>2

\* Dividing undoes multiplying
LEMMA AuDivIs ==
  ASSUME NEW n \in Nat, NEW c \in Nat \ {0}, NEW r \in Nat, r < c
  PROVE  (n * c + r) \div c = n /\ (n * c + r) % c = r
<1> DEFINE k == n * c + r
<1>1. k \in Nat /\ n * c \in Nat
  OBVIOUS
<1>2. k \div c \in Nat /\ k % c \in Nat /\ k % c < c /\ k = c * (k \div c) + (k % c)
  BY <1>1, AuDivides
<1> DEFINE q == k \div c  s == k % c
<1>3. q \in Nat /\ s \in Nat /\ s < c /\ n * c + r = q * c + s
  BY <1>2
<1> HIDE DEF q, s
<1>4. q * c \in Nat
  BY <1>3
<1>5. ~(q < n)
  <2>1. ASSUME q < n PROVE FALSE
    <3>1. (q + 1) * c <= n * c
      BY <1>3, <2>1, AuTimesUp
    <3>2. (q + 1) * c = q * c + c
      BY <1>3
    <3> QED
      BY <1>1, <1>3, <1>4, <3>1, <3>2
  <2> QED
    BY <2>1
<1>6. ~(n < q)
  <2>1. ASSUME n < q PROVE FALSE
    <3>1. (n + 1) * c <= q * c
      BY <1>3, <2>1, AuTimesUp
    <3>2. (n + 1) * c = n * c + c
      BY <1>3
    <3> QED
      BY <1>1, <1>3, <1>4, <3>1, <3>2
  <2> QED
    BY <2>1
<1>7. q = n
  BY <1>3, <1>5, <1>6
<1>8. s = r
  BY <1>1, <1>3, <1>7
<1> QED
  BY <1>7, <1>8 DEF q, s
\* A sum of times, in bytes
LEMMA AuDistributes ==
  ASSUME NEW x \in Nat, NEW n \in Nat, NEW c \in Nat
  PROVE  (x + n) * c = x * c + n * c /\ x * c \in Nat /\ n * c \in Nat
  OBVIOUS

\* Whole units divide.
LEMMA AuDivMul ==
  ASSUME NEW n \in Nat, NEW c \in Nat \ {0}
  PROVE  (n * c) \div c = n /\ (n * c) % c = 0 /\ n * c \in Nat
<1>1. n * c + 0 = n * c /\ n * c \in Nat
  OBVIOUS
<1> QED
  BY <1>1, AuDivIs

\* Where channel j of the p-th time is
LEMMA AuPlace ==
  ASSUME NEW n \in Nat, NEW c \in Nat \ {0}, NEW p \in 1..n, NEW j \in 1..c
  PROVE  (p - 1) * c + j \in 1..(n * c)
<1>1. p - 1 \in Nat /\ p \in Nat /\ p <= n /\ j - 1 \in Nat /\ j - 1 < c
  OBVIOUS
<1>2. p * c <= n * c /\ p * c \in Nat /\ n * c \in Nat
  BY <1>1, AuTimesUp
<1>3. p * c = (p - 1) * c + c /\ (p - 1) * c \in Nat
  BY <1>1
<1> QED
  BY <1>2, <1>3

\* And of which time an entry is
LEMMA AuTimeOf ==
  ASSUME NEW n \in Nat, NEW c \in Nat \ {0}, NEW k \in 1..(n * c)
  PROVE  (k - 1) \div c \in 0..(n - 1) /\ n > 0
<1> DEFINE q == (k - 1) \div c  r == (k - 1) % c
<1>1. k - 1 \in Nat /\ n * c \in Nat
  OBVIOUS
<1>2. q \in Nat /\ r \in Nat /\ k - 1 = c * q + r
  BY <1>1, AuDivides
<1> HIDE DEF q, r
<1>3. q * c \in Nat /\ c * q = q * c
  BY <1>2
<1>4. q < n
  <2> SUFFICES ASSUME n <= q PROVE FALSE
    BY <1>2
  <2>1. n * c <= q * c
    BY <1>2, AuTimesUp
  <2> QED
    BY <1>1, <1>2, <1>3, <2>1
<1> QED
  BY <1>2, <1>4 DEF q
---------------------------------------------------------------------------
\* A formatter keeps the times.
LEMMA AuConvertedHolds ==
  ASSUME NEW data, NEW from \in Nat \ {0}, NEW to \in Nat \ {0},
         NEW a \in Nat, NEW b \in Nat, NEW d \in Nat, a <= b, AuHolds(data, from, a, b, d)
  PROVE  AuHolds(Converted(data, from, to), to, a, b, d)
<1> DEFINE n == b - a  x == Converted(data, from, to)
<1>1. n \in Nat /\ data \in Seq(Nat) /\ Len(data) = n * from /\ n * from \in Nat
  BY DEF AuHolds
<1>2. \A p \in 1..n, j \in 1..from : data[(p - 1) * from + j] = AuValue(d, a + p)
  BY DEF AuHolds
<1>3. Len(data) \div from = n
  BY <1>1, AuDivMul
<1>4. n * to \in Nat /\ x = [k \in 1..(n * to) |-> data[((k - 1) \div to) * from + 1]]
  <2>1. n * to \in Nat
    BY <1>1, AuDivMul
  <2>2. x = [k \in 1..((Len(data) \div from) * to) |-> data[((k - 1) \div to) * from + 1]]
    BY DEF Converted
  <2> HIDE DEF n, x
  <2> QED
    BY <1>3, <2>1, <2>2, Zenon
<1> HIDE DEF n, x
<1>5. ASSUME NEW k \in 1..(n * to)
      PROVE  data[((k - 1) \div to) * from + 1] \in Nat
  <2> DEFINE q == (k - 1) \div to
  <2>1. q \in 0..(n - 1)
    BY <1>1, AuTimeOf
  <2> HIDE DEF q
  <2>2. q + 1 \in 1..n /\ 1 \in 1..from /\ (q + 1) - 1 = q
    BY <1>1, <2>1
  <2>3. q * from + 1 \in 1..(n * from)
    BY <1>1, <2>2, AuPlace
  <2>4. q * from + 1 \in DOMAIN data
    BY <1>1, <2>3
  <2>5. data[q * from + 1] \in Nat
    BY <1>1, <2>4
  <2> QED
    BY <2>5 DEF q
<1>6. x \in Seq(Nat) /\ Len(x) = n * to /\ DOMAIN x = 1..(n * to)
  <2> DEFINE len == n * to
  <2>1. x \in [1..len -> Nat] /\ len \in Nat
    BY <1>4, <1>5
  <2> HIDE DEF len
  <2>2. x \in Seq(Nat) /\ Len(x) = len /\ DOMAIN x = 1..len
    BY <2>1
  <2> QED
    BY <2>2 DEF len
<1>7. ASSUME NEW p \in 1..n, NEW j \in 1..to
      PROVE  x[(p - 1) * to + j] = AuValue(d, a + p)
  <2>1. (p - 1) * to + j \in 1..(n * to)
    BY <1>1, AuPlace
  <2>4. (((p - 1) * to + j) - 1) \div to = p - 1
    <3> DEFINE o == ((p - 1) * to + j) - 1
    <3>1. p - 1 \in Nat /\ j - 1 \in Nat /\ j - 1 < to /\ o = (p - 1) * to + (j - 1)
      BY <1>1
    <3>2. ((p - 1) * to + (j - 1)) \div to = p - 1
      BY <3>1, AuDivIs
    <3> HIDE DEF o
    <3> QED
      BY <3>1, <3>2 DEF o
  <2>2. x[(p - 1) * to + j] = data[(p - 1) * from + 1]
    BY <1>4, <2>1, <2>4
  <2>3. 1 \in 1..from
    OBVIOUS
  <2> QED
    BY <1>2, <2>2, <2>3
<1> QED
  BY <1>6, <1>7 DEF AuHolds, n, x

\* Two pieces that follow each other
LEMMA AuJoined ==
  ASSUME NEW x, NEW y, NEW c \in Nat \ {0}, NEW a \in Nat, NEW m \in Nat, NEW b \in Nat, NEW d \in Nat,
         a <= m, m <= b, AuHolds(x, c, a, m, d), AuHolds(y, c, m, b, d)
  PROVE  AuHolds(x \o y, c, a, b, d)
<1> DEFINE n == m - a  k == b - m  z == x \o y
<1>1. /\ n \in Nat /\ k \in Nat /\ b - a = n + k
      /\ x \in Seq(Nat) /\ y \in Seq(Nat) /\ Len(x) = n * c /\ Len(y) = k * c
      /\ n * c \in Nat /\ k * c \in Nat
  BY DEF AuHolds
<1>2. /\ \A p \in 1..n, j \in 1..c : x[(p - 1) * c + j] = AuValue(d, a + p)
      /\ \A p \in 1..k, j \in 1..c : y[(p - 1) * c + j] = AuValue(d, m + p)
  BY DEF AuHolds
<1>3. m = a + n
  OBVIOUS
<1> HIDE DEF n, k
<1>4. (n + k) * c = n * c + k * c
  BY <1>1
<1>5. z \in Seq(Nat) /\ Len(z) = n * c + k * c
  BY <1>1, ConcatProperties, Zenon
<1>6. ASSUME NEW p \in 1..(n + k), NEW j \in 1..c
      PROVE  z[(p - 1) * c + j] = AuValue(d, a + p)
  <2>1. CASE p \in 1..n
    <3>1. (p - 1) * c + j \in 1..(n * c)
      BY <1>1, <2>1, AuPlace
    <3>2. z[(p - 1) * c + j] = x[(p - 1) * c + j]
      BY <1>1, <3>1
    <3> QED
      BY <1>2, <2>1, <3>2
  <2>2. CASE p \notin 1..n
    <3>1. p - n \in 1..k /\ p \in Nat
      BY <1>1, <2>2
    <3>2. ((p - n) - 1) * c + j \in 1..(k * c)
      BY <1>1, <3>1, AuPlace
    <3>3. (p - 1) * c + j = n * c + (((p - n) - 1) * c + j)
      BY <1>1, <3>1
    <3>4. z[n * c + (((p - n) - 1) * c + j)] = y[((p - n) - 1) * c + j]
      <4> DEFINE i == ((p - n) - 1) * c + j
      <4>1. i \in 1..Len(y)
        BY <1>1, <3>2
      <4> HIDE DEF i
      <4>2. Len(x) \in Nat /\ i \in Nat /\ Len(y) \in Nat /\ n * c = Len(x)
        BY <1>1, <4>1
      <4>3. Len(x) + i \in 1..(Len(x) + Len(y)) /\ ~(Len(x) + i <= Len(x)) /\ (Len(x) + i) - Len(x) = i
        BY <4>1, <4>2
      <4>6. \A e \in 1 .. Len(x) + Len(y) : z[e] = IF e <= Len(x) THEN x[e] ELSE y[e - Len(x)]
        BY <1>1, ConcatProperties, Zenon
      <4>4. z[Len(x) + i] = y[i]
        BY <4>3, <4>6
      <4>5. z[n * c + i] = y[i]
        BY <4>2, <4>4
      <4> QED
        BY <4>5 DEF i
    <3>5. m + (p - n) = a + p
      BY <1>1, <1>3, <3>1
    <3> QED
      BY <1>2, <3>1, <3>3, <3>4, <3>5
  <2> QED
    BY <2>1, <2>2
<1> QED
  BY <1>1, <1>4, <1>5, <1>6 DEF AuHolds

\* The first times of a piece, and the others
LEMMA AuFirst ==
  ASSUME NEW x, NEW c \in Nat \ {0}, NEW a \in Nat, NEW m \in Nat, NEW b \in Nat, NEW d \in Nat,
         a <= m, m <= b, AuHolds(x, c, a, b, d)
  PROVE  /\ AuHolds(SubSeq(x, 1, (m - a) * c), c, a, m, d)
         /\ AuHolds(SubSeq(x, (m - a) * c + 1, Len(x)), c, m, b, d)
<1> DEFINE n == m - a  k == b - m  f == SubSeq(x, 1, n * c)  g == SubSeq(x, n * c + 1, Len(x))
<1>1. /\ n \in Nat /\ k \in Nat /\ b - a = n + k /\ m = a + n
      /\ x \in Seq(Nat) /\ n * c \in Nat /\ k * c \in Nat /\ (n + k) * c = n * c + k * c
  BY DEF AuHolds
<1>2. \A p \in 1..(n + k), j \in 1..c : x[(p - 1) * c + j] = AuValue(d, a + p)
  BY <1>1 DEF AuHolds
<1>3. Len(x) = n * c + k * c
  BY <1>1 DEF AuHolds
<1> HIDE DEF n, k
<1> DEFINE s == n * c  r == k * c
<1>4. s \in Nat /\ r \in Nat /\ Len(x) = s + r /\ x \in Seq(Nat)
  BY <1>1, <1>3
<1>5. /\ f \in Seq(Nat) /\ Len(f) = s /\ \A i \in 1..s : f[i] = x[i]
      /\ g \in Seq(Nat) /\ Len(g) = r /\ \A i \in 1..r : g[i] = x[s + i]
  <2> HIDE DEF s, r
  <2> DEFINE f0 == SubSeq(x, 1, s)  g0 == SubSeq(x, s + 1, Len(x))
  <2>1. f0 \in Seq(Nat) /\ Len(f0) = s /\ \A i \in 1..s : f0[i] = x[i]
    BY <1>4
  <2>2. g0 \in Seq(Nat) /\ Len(g0) = r
    BY <1>4
  <2>3. \A i \in 1..r : g0[i] = x[s + i]
    BY <1>4
  <2> QED
    BY <2>1, <2>2, <2>3 DEF s
<1>6. ASSUME NEW p \in 1..n, NEW j \in 1..c
      PROVE  f[(p - 1) * c + j] = AuValue(d, a + p)
  <2>1. (p - 1) * c + j \in 1..s
    BY <1>1, AuPlace
  <2>2. p \in 1..(n + k)
    BY <1>1
  <2> QED
    BY <1>2, <1>5, <2>1, <2>2
<1>7. ASSUME NEW p \in 1..k, NEW j \in 1..c
      PROVE  g[(p - 1) * c + j] = AuValue(d, m + p)
  <2>1. (p - 1) * c + j \in 1..r
    BY <1>1, AuPlace
  <2>2. p + n \in 1..(n + k) /\ a + (p + n) = m + p
    BY <1>1
  <2>3. s + ((p - 1) * c + j) = ((p + n) - 1) * c + j
    BY <1>1, <2>2
  <2>4. g[(p - 1) * c + j] = x[s + ((p - 1) * c + j)]
    BY <1>5, <2>1
  <2> QED
    BY <1>2, <2>2, <2>3, <2>4
<1>8. AuHolds(f, c, a, m, d)
  BY <1>5, <1>6 DEF AuHolds, n
<1>9. AuHolds(g, c, m, b, d)
  BY <1>5, <1>7 DEF AuHolds, k
<1> QED
  BY <1>8, <1>9 DEF n

\* An empty pool holds no time.
LEMMA AuEmptyHolds ==
  ASSUME NEW c \in Nat \ {0}, NEW a \in Nat, NEW d
  PROVE  AuHolds(<<>>, c, a, a, d)
<1>1. a - a = 0 /\ 0 * c = 0 /\ Len(<<>>) = 0 /\ <<>> \in Seq(Nat)
  OBVIOUS
<1> QED
  BY <1>1 DEF AuHolds

\* Nothing holds no time, whatever the delay.
LEMMA AuNothingHolds ==
  ASSUME NEW x, NEW c \in Nat \ {0}, NEW a \in Nat, NEW d, NEW e, AuHolds(x, c, a, a, d)
  PROVE  AuHolds(x, c, a, a, e)
<1>1. a - a = 0
  OBVIOUS
<1> QED
  BY <1>1 DEF AuHolds

\* Silence is the first times of a stream that is late enough.
LEMMA AuSilenceHolds ==
  ASSUME NEW c \in Nat \ {0}, NEW n \in Nat, NEW d \in Nat, n <= d
  PROVE  AuHolds(Silence(n * c), c, 0, n, d)
<1> DEFINE s == n * c  x == Silence(s)
<1>1. s \in Nat /\ n - 0 = n
  OBVIOUS
<1>2. ASSUME NEW p \in 1..n, NEW j \in 1..c
      PROVE  x[(p - 1) * c + j] = AuValue(d, 0 + p)
  <2>1. (p - 1) * c + j \in 1..s
    BY AuPlace
  <2> HIDE DEF s
  <2> DEFINE i == (p - 1) * c + j
  <2>2. i \in 1..s
    BY <2>1
  <2> HIDE DEF i
  <2>3. x[i] = 0
    BY <2>2 DEF Silence
  <2>4. AuValue(d, 0 + p) = 0
    BY DEF AuValue
  <2> QED
    BY <2>3, <2>4 DEF i
<1>3. x \in Seq(Nat) /\ Len(x) = s
  <2> HIDE DEF s
  <2> QED
    BY <1>1 DEF Silence
<1> QED
  BY <1>1, <1>2, <1>3 DEF AuHolds

\* A stream behind some silence is one that is later.
LEMMA AuLater ==
  ASSUME NEW x, NEW c \in Nat \ {0}, NEW a \in Nat, NEW b \in Nat, NEW d \in Nat, NEW s \in Nat,
         a <= b, AuHolds(x, c, a, b, d)
  PROVE  AuHolds(x, c, a + s, b + s, d + s)
<1>1. (b + s) - (a + s) = b - a /\ b - a \in Nat
  OBVIOUS
<1>2. \A p \in 1..(b - a) : AuValue(d, a + p) = AuValue(d + s, (a + s) + p)
  BY DEF AuValue
<1> QED
  BY <1>1, <1>2 DEF AuHolds

\* What divides is so many units.
LEMMA AuDividesWell ==
  ASSUME NEW k \in Nat, NEW c \in Nat \ {0}, k % c = 0
  PROVE  k \div c \in Nat /\ k = (k \div c) * c
  BY AuDivides

\* What is whole units has nothing over.
LEMMA AuWholeUnits ==
  ASSUME NEW l \in Nat, NEW k \in Nat, NEW r \in Nat, NEW u \in Nat \ {0}, r < u, l * u = k * u + r
  PROVE  r = 0 /\ l = k
<1>1. (l * u + 0) \div u = l
  BY AuDivIs
<1>2. (k * u + r) \div u = k
  BY AuDivIs
<1>3. l * u + 0 = l * u /\ l * u \in Nat /\ k * u \in Nat
  OBVIOUS
<1>4. l = k
  BY <1>1, <1>2, <1>3
<1> QED
  BY <1>3, <1>4

\* The times of a library's unit
AuUnit(lib) == lib.unit \div lib.in

\* A number of units, and what is left of the next one
LEMMA AuUnits ==
  ASSUME NEW lib \in AuLibTypes, AuUnit(lib) \in Nat \ {0}, lib.unit = AuUnit(lib) * lib.in, NEW m \in Nat
  PROVE  \E k \in Nat, r \in Nat :
            /\ m = k * AuUnit(lib) + r /\ r < AuUnit(lib)
            /\ (m * lib.in) \div lib.unit = k /\ (m * lib.in) % lib.unit = r * lib.in
<1> DEFINE c == lib.in  u == AuUnit(lib)  w == lib.unit
<1>0. c \in Nat \ {0} /\ u \in Nat \ {0} /\ w \in Nat \ {0} /\ w = u * c
  BY DEF AuLibTypes
<1> HIDE DEF c, u, w
<1> DEFINE k == m \div u  r == m % u
<1>1. k \in Nat /\ r \in Nat /\ r < u /\ m = u * k + r
  BY <1>0, AuDivides
<1> HIDE DEF k, r
<1>2. m * c = k * (u * c) + r * c
  BY <1>0, <1>1
<1>3. r * c \in Nat /\ u * c \in Nat /\ u * c = (u - 1) * c + c /\ (u - 1) * c \in Nat
  BY <1>0, <1>1
<1>4. r * c < u * c
  <2>1. (r + 1) * c <= u * c /\ (r + 1) * c = r * c + c
    BY <1>0, <1>1, AuTimesUp
  <2> QED
    BY <1>0, <1>3, <2>1
<1>5. (k * w + r * c) \div w = k /\ (k * w + r * c) % w = r * c
  <2> DEFINE s == r * c
  <2>1. s \in Nat /\ s < w
    BY <1>0, <1>3, <1>4
  <2> HIDE DEF s
  <2>2. (k * w + s) \div w = k /\ (k * w + s) % w = s
    BY <1>0, <1>1, <2>1, AuDivIs
  <2> QED
    BY <2>2 DEF s
<1>6. m * c = k * w + r * c
  BY <1>0, <1>2
<1>7. m = k * u + r /\ r < u /\ k \in Nat /\ r \in Nat
  BY <1>0, <1>1
<1>8. (m * c) \div w = k /\ (m * c) % w = r * c
  BY <1>5, <1>6
<1> QED
  BY <1>7, <1>8 DEF c, u, w
---------------------------------------------------------------------------
\* The times that a library is late
AuNeverShort(lib, sizes) == \A n \in sizes : (n * lib.in) % lib.unit = 0
AuSilent(lib, sizes) ==
    IF AuNeverShort(lib, sizes) THEN 0 ELSE IF lib.frame THEN AuUnit(lib) ELSE lib.unit \div lib.out

\* What AuAssumption says of a library
LEMMA AuLibIs ==
  ASSUME NEW s \in AuSetups, NEW i \in DOMAIN s.libs
  PROVE  LET lib == s.libs[i]  u == AuUnit(lib)  late == AuSilent(lib, s.sizes) IN
         /\ lib \in AuLibTypes /\ lib.in \in Nat \ {0} /\ lib.out \in Nat \ {0}
         /\ u \in Nat \ {0} /\ lib.unit = u * lib.in /\ late \in Nat
         /\ lib.ref => i = 1
         /\ AuNeverShort(lib, s.sizes) => late = 0 /\ \A n \in s.sizes : \E k \in Nat : n = k * u
         /\ ~AuNeverShort(lib, s.sizes) =>
               /\ late >= u /\ \A n \in s.sizes : ~\E k \in Nat : n = k * u
               /\ (IF lib.frame THEN OutSize(lib, lib.unit) ELSE lib.unit) = late * lib.out
<1> DEFINE lib == s.libs[i]  u == AuUnit(lib)  late == AuSilent(lib, s.sizes)
           never == AuNeverShort(lib, s.sizes)
<1>1. s.sizes \subseteq Nat \ {0} /\ s.libs \in Seq(AuLibTypes)
  BY AuAssumption DEF AuAssumption
<1>2. lib \in AuLibTypes
  BY <1>1
<1>3. lib.in \in Nat \ {0} /\ lib.out \in Nat \ {0} /\ lib.unit \in Nat \ {0} /\ lib.frame \in BOOLEAN
  BY <1>2 DEF AuLibTypes
<1>11. lib.unit % lib.in = 0
  BY AuAssumption DEF AuAssumption
<1>4. /\ lib.ref => i = 1
      /\ never \/ \A n \in s.sizes : (n * lib.in) % lib.unit # 0
      /\ lib.frame \/ (lib.out <= lib.in /\ lib.unit % lib.out = 0)
  BY AuAssumption DEF AuAssumption, AuNeverShort
<1> HIDE DEF lib, never
<1>5. u \in Nat \ {0} /\ lib.unit = u * lib.in
  <2> DEFINE w == lib.unit  c == lib.in
  <2>1. w \in Nat \ {0} /\ c \in Nat \ {0} /\ w % c = 0 /\ u = w \div c
    BY <1>3, <1>11 DEF AuUnit
  <2> HIDE DEF w, c, u
  <2>2. u \in Nat /\ w = u * c
    BY <2>1, AuDividesWell
  <2>3. u # 0
    BY <2>1, <2>2
  <2> QED
    BY <2>2, <2>3 DEF w, c
<1> DEFINE c == lib.in  o == lib.out
<1>6. ASSUME NEW n \in s.sizes
      PROVE  (n * c) % lib.unit = 0 <=> \E k \in Nat : n = k * u
  <2> DEFINE w == lib.unit
  <2>1. n \in Nat /\ c \in Nat \ {0} /\ u \in Nat \ {0} /\ w \in Nat \ {0} /\ w = u * c
    BY <1>1, <1>3, <1>5
  <2>5. lib \in AuLibTypes /\ u \in Nat \ {0} /\ lib.unit = u * lib.in
    BY <1>2, <1>5
  <2> HIDE DEF u, c, w
  <2>2. PICK k \in Nat, r \in Nat : n = k * u + r /\ r < u /\ (n * c) % w = r * c
    BY <2>1, <2>5, AuUnits DEF u, c, w
  <2>3. CASE r = 0
    <3>1. n = k * u /\ (n * c) % w = 0
      BY <2>1, <2>2, <2>3
    <3> QED
      BY <3>1 DEF w
  <2>4. CASE r # 0
    <3>1. (n * c) % w # 0
      BY <2>1, <2>2, <2>4
    <3>2. ASSUME NEW l \in Nat, n = l * u PROVE FALSE
      <4>1. l * u = k * u + r /\ u \in Nat \ {0} /\ r < u
        BY <2>1, <2>2, <3>2
      <4> QED
        BY <2>4, <4>1, AuWholeUnits
    <3> QED
      BY <3>1, <3>2 DEF w
  <2> QED
    BY <2>3, <2>4
<1>7. ASSUME never PROVE late = 0 /\ \A n \in s.sizes : \E k \in Nat : n = k * u
  <2>1. late = 0
    BY <1>7 DEF AuSilent, never
  <2>2. \A n \in s.sizes : (n * lib.in) % lib.unit = 0
    BY <1>7, Zenon DEF never, AuNeverShort
  <2> QED
    BY <1>6, <2>1, <2>2, Zenon
<1>8. ASSUME ~never PROVE /\ late \in Nat /\ late >= u /\ \A n \in s.sizes : ~\E k \in Nat : n = k * u
                          /\ (IF lib.frame THEN OutSize(lib, lib.unit) ELSE lib.unit) = late * lib.out
  <2>1. ASSUME NEW n \in s.sizes PROVE ~\E k \in Nat : n = k * u
    BY <1>4, <1>6, <1>8, Zenon
  <2>2. CASE lib.frame
    <3>1. late = u
      BY <1>8, <2>2 DEF AuSilent, never
    <3>2. OutSize(lib, lib.unit) = ((u * o) * c) \div c
      BY <1>3, <1>5 DEF OutSize
    <3>3. u * o \in Nat
      BY <1>3, <1>5
    <3>4. ((u * o) * c) \div c = u * o
      BY <1>3, <3>3, AuDivMul
    <3> QED
      BY <1>5, <2>1, <2>2, <3>1, <3>2, <3>4
  <2>3. CASE ~lib.frame
    <3>1. late = lib.unit \div lib.out
      BY <1>8, <2>3 DEF AuSilent, never
    <3>2. late \in Nat /\ lib.unit = o * late
      <4>1. lib.unit \div o \in Nat /\ lib.unit = o * (lib.unit \div o) + (lib.unit % o)
        BY <1>3, AuDivides
      <4>2. lib.unit % o = 0
        BY <1>4, <2>3
      <4> QED
        BY <1>3, <3>1, <4>1, <4>2
    <3> HIDE DEF late, u
    <3>3. u <= late
      <4> SUFFICES ASSUME late + 1 <= u PROVE FALSE
        BY <1>5, <3>2
      <4>1. (late + 1) * c <= u * c
        BY <1>3, <1>5, <3>2, AuTimesUp
      <4>2. late * o <= late * c
        <5>1. o * late <= c * late
          BY <1>3, <1>4, <2>3, <3>2, AuTimesUp
        <5> QED
          BY <1>3, <3>2, <5>1
      <4>3. (late + 1) * c = late * c + c /\ late * c \in Nat /\ late * o = u * c /\ u * c \in Nat
        BY <1>3, <1>5, <3>2
      <4> QED
        BY <1>3, <4>1, <4>2, <4>3
    <3> QED
      BY <1>3, <2>1, <2>3, <3>2, <3>3
  <2> QED
    BY <2>2, <2>3
<1>9. late \in Nat
  BY <1>7, <1>8
<1> HIDE DEF u, late
<1>10. /\ lib \in AuLibTypes /\ lib.in \in Nat \ {0} /\ lib.out \in Nat \ {0}
       /\ u \in Nat \ {0} /\ lib.unit = u * lib.in /\ late \in Nat
       /\ lib.ref => i = 1
       /\ never => late = 0 /\ \A n \in s.sizes : \E k \in Nat : n = k * u
       /\ ~never =>
             /\ late >= u /\ \A n \in s.sizes : ~\E k \in Nat : n = k * u
             /\ (IF lib.frame THEN OutSize(lib, lib.unit) ELSE lib.unit) = late * lib.out
  BY <1>2, <1>3, <1>4, <1>5, <1>7, <1>8, <1>9
<1> QED
  BY <1>10 DEF lib, never, u, late
---------------------------------------------------------------------------
\* The whole units of a pool and what stays there for the next call
LEMMA AuPoolRound ==
  ASSUME NEW lib \in AuLibTypes, AuUnit(lib) \in Nat \ {0}, lib.unit = AuUnit(lib) * lib.in,
         NEW done \in Nat, NEW t \in Nat, done <= t, NEW d \in Nat,
         NEW pool, AuHolds(pool, lib.in, done, t, d)
  PROVE  LET k == Len(pool) \div lib.unit  next == done + k * AuUnit(lib) IN
         /\ k \in Nat /\ next \in Nat /\ next <= t /\ t < next + AuUnit(lib)
         /\ AuHolds(SubSeq(pool, 1, k * lib.unit), lib.in, done, next, d)
         /\ AuHolds(SubSeq(pool, k * lib.unit + 1, Len(pool)), lib.in, next, t, d)
         /\ k * lib.unit \in 0..Len(pool)
<1> DEFINE c == lib.in  u == AuUnit(lib)  w == lib.unit
<1>0. c \in Nat \ {0} /\ u \in Nat \ {0} /\ w \in Nat \ {0} /\ w = u * c /\ AuHolds(pool, c, done, t, d)
  BY DEF AuLibTypes
<1> HIDE DEF c, u, w
<1> DEFINE m == t - done
<1>1. m \in Nat /\ Len(pool) = m * c /\ t = done + m
  BY <1>0 DEF AuHolds
<1> HIDE DEF m
<1>2. PICK k \in Nat, r \in Nat : m = k * u + r /\ r < u /\ (m * c) \div w = k
  BY <1>0, <1>1, AuUnits DEF c, u, w
<1> DEFINE next == done + k * u
<1>3. k * u \in Nat /\ next \in Nat /\ next <= t /\ t < next + u /\ done <= next
  BY <1>0, <1>1, <1>2
<1>4. k * w = (next - done) * c
  <2>1. next - done = k * u
    BY <1>3
  <2> QED
    BY <1>0, <1>2, <2>1
<1>5. Len(pool) \div w = k
  BY <1>1, <1>2, Zenon
<1> HIDE DEF next
<1>6. /\ AuHolds(SubSeq(pool, 1, (next - done) * c), c, done, next, d)
      /\ AuHolds(SubSeq(pool, (next - done) * c + 1, Len(pool)), c, next, t, d)
  BY <1>0, <1>3, AuFirst
<1>7. /\ AuHolds(SubSeq(pool, 1, k * w), c, done, next, d)
      /\ AuHolds(SubSeq(pool, k * w + 1, Len(pool)), c, next, t, d)
  BY <1>4, <1>6, Zenon
<1>9. Len(pool) - k * w = (t - next) * c
  <2>1. t - next = m - (next - done)
    BY <1>1, <1>3
  <2> QED
    BY <1>0, <1>1, <1>3, <1>4, <2>1
<1>8. k * w \in 0..Len(pool)
  <2>1. k * w \in Nat /\ m * c \in Nat /\ (t - next) * c \in Nat
    BY <1>0, <1>1, <1>2, <1>3
  <2> QED
    BY <1>1, <1>9, <2>1
<1> QED
  BY <1>3, <1>5, <1>7, <1>8 DEF next, c, u, w

\* A smoother that gets what has been processed has enough for the call.
LEMMA AuSmoothRound ==
  ASSUME NEW o \in Nat \ {0}, NEW done \in Nat, NEW next \in Nat, NEW t \in Nat, NEW n \in Nat,
         NEW late \in Nat, NEW d \in Nat, done <= next, t <= done + late, t + n <= next + late,
         NEW old, AuHolds(old, o, t, done + late, d + late),
         NEW new, AuHolds(new, o, done, next, d)
  PROVE  LET x == old \o new IN
         /\ ~(Len(x) < n * o)
         /\ AuHolds(SubSeq(x, 1, n * o), o, t, t + n, d + late)
         /\ AuHolds(SubSeq(x, n * o + 1, Len(x)), o, t + n, next + late, d + late)
<1> DEFINE x == old \o new
<1>1. AuHolds(new, o, done + late, next + late, d + late)
  BY AuLater
<1>2. AuHolds(x, o, t, next + late, d + late)
  BY <1>1, AuJoined
<1> HIDE DEF x
<1>3. (t + n) - t = n
  OBVIOUS
<1> DEFINE z == (t + n) - t
<1>4. /\ AuHolds(SubSeq(x, 1, z * o), o, t, t + n, d + late)
      /\ AuHolds(SubSeq(x, z * o + 1, Len(x)), o, t + n, next + late, d + late)
  <2>1. t + n \in Nat /\ next + late \in Nat /\ d + late \in Nat /\ t <= t + n /\ t + n <= next + late
    OBVIOUS
  <2> QED
    BY <1>2, <2>1, AuFirst, Zenon
<1>5. z = n
  OBVIOUS
<1>6. ~(Len(x) < n * o)
  <2>1. Len(x) = ((next + late) - t) * o
    BY <1>2 DEF AuHolds
  <2>2. n * o <= ((next + late) - t) * o /\ n * o \in Nat /\ ((next + late) - t) * o \in Nat
    BY AuTimesUp
  <2> QED
    BY <2>1, <2>2
<1> HIDE DEF z
<1> QED
  BY <1>4, <1>5, <1>6 DEF x
---------------------------------------------------------------------------
\* The rings of a library before the first call, and when t times have gone into it
\* from a stream that is din late and comes out dout late.
AuFresh(r) == r.padded = FALSE /\ r.pool = <<>> /\ r.left = 0 /\ r.smooth = <<>>
AuServed(lib, sizes, r, t, din, dout) ==
    LET u == AuUnit(lib)  late == AuSilent(lib, sizes) IN
    /\ r.padded = TRUE /\ dout = din + late
    /\ r.left = Len(r.pool)
    /\ \E done \in Nat :
          /\ done <= t /\ t < done + u /\ t <= done + late
          /\ AuNeverShort(lib, sizes) => t = done
          /\ AuHolds(r.pool, lib.in, done, t, din)
          /\ AuHolds(r.smooth, lib.out, t, done + late, dout)

AuBefore(i) == IF auTurn = 0 \/ i < auTurn THEN auGone ELSE Len(auOut)
AuFrom(i) == IF i = 1 THEN 1 ELSE auSetup.libs[i - 1].out

AuLibFits(i, din, dout) ==
    LET lib == auSetup.libs[i]  r == auLibs[i]  t == AuBefore(i) IN
    /\ \/ t = 0 /\ AuFresh(r)
       \/ t > 0 /\ AuServed(lib, auSetup.sizes, r, t, din, dout)
    /\ lib.ref => r.ref = r.pool

\* delays: how late the stream is behind each library
AuFits(delays) ==
    /\ delays \in [0..Len(auSetup.libs) -> Nat] /\ delays[0] = 0
    /\ \A i \in DOMAIN auSetup.libs : AuLibFits(i, delays[i - 1], delays[i])
    /\ auTurn # 0 => AuHolds(auSource, AuFrom(auTurn), Len(auOut), auGone, delays[auTurn - 1])
    /\ AuHolds(auOut, 1, 0, Len(auOut), delays[Len(auSetup.libs)])

AuInv ==
    /\ auSetup \in AuSetups /\ auTurn \in 0..(Len(auSetup.libs) + 1)
    /\ auGone \in Nat /\ Len(auOut) \in Nat /\ ~auFailed
    /\ IF auTurn = 0 THEN auGone = Len(auOut)
       ELSE auGone >= Len(auOut) /\ auGone - Len(auOut) \in auSetup.sizes
    /\ auTurn = 1 /\ auSetup.libs[1].ref => auRef = auSource
    /\ DOMAIN auLibs = DOMAIN auSetup.libs
    /\ \E delays : AuFits(delays)

\* A library that n more times come to takes its units and has n times to give.
LEMMA AuServes ==
  ASSUME NEW s \in AuSetups, NEW i \in DOMAIN s.libs, NEW n \in s.sizes,
         NEW t \in Nat, NEW din \in Nat, NEW dout \in Nat, NEW r,
         \/ t = 0 /\ AuFresh(r)
         \/ t > 0 /\ AuServed(s.libs[i], s.sizes, r, t, din, dout),
         NEW new, AuHolds(new, s.libs[i].in, t, t + n, din)
  PROVE  LET lib == s.libs[i]
             pool == r.pool \o new
             units == Len(pool) \div lib.unit
             taken == units * lib.unit
             expect == OutSize(lib, Len(pool) - r.left)
             processed == Converted(SubSeq(pool, 1, taken), lib.in, lib.out)
             smooth == FirstSilence(lib, r.padded, Len(processed), expect) \o r.smooth \o processed
             late == din + AuSilent(lib, s.sizes)
         IN  /\ ~(Len(smooth) < expect) /\ ~(Len(pool) < taken)
             /\ AuHolds(SubSeq(smooth, 1, expect), lib.out, t, t + n, late)
             /\ \A rings : /\ rings.padded = TRUE
                           /\ rings.pool = SubSeq(pool, taken + 1, Len(pool))
                           /\ rings.left = Len(pool) - taken
                           /\ rings.smooth = SubSeq(smooth, expect + 1, Len(smooth))
                           => AuServed(lib, s.sizes, rings, t + n, din, late)
<1> DEFINE lib == s.libs[i]  u == AuUnit(lib)  silent == AuSilent(lib, s.sizes)  c == lib.in  o == lib.out
           never == AuNeverShort(lib, s.sizes)  w == lib.unit
<1>1. /\ c \in Nat \ {0} /\ o \in Nat \ {0} /\ u \in Nat \ {0} /\ w = u * c /\ silent \in Nat
      /\ never => silent = 0 /\ \E k \in Nat : n = k * u
      /\ ~never => /\ silent >= u /\ ~\E k \in Nat : n = k * u
                   /\ (IF lib.frame THEN OutSize(lib, lib.unit) ELSE lib.unit) = silent * o
  <2>1. c \in Nat \ {0} /\ o \in Nat \ {0} /\ u \in Nat \ {0} /\ silent \in Nat
    BY AuLibIs, Zenon
  <2>2. w = u * c
    BY AuLibIs, Zenon
  <2>3. never => silent = 0 /\ \E k \in Nat : n = k * u
    <3>1. never => silent = 0 /\ \A e \in s.sizes : \E k \in Nat : e = k * u
      BY AuLibIs
    <3> QED
      BY <3>1, Zenon
  <2>4. ~never => silent >= u /\ ~\E k \in Nat : n = k * u
    <3>1. ~never => silent >= u /\ \A e \in s.sizes : ~\E k \in Nat : e = k * u
      BY AuLibIs
    <3> QED
      BY <3>1, Zenon
  <2>5. ~never => (IF lib.frame THEN OutSize(lib, lib.unit) ELSE lib.unit) = silent * o
    BY AuLibIs, Zenon
  <2> HIDE DEF c, o, u, w, silent, never, lib
  <2> QED
    BY <2>1, <2>2, <2>3, <2>4, <2>5
<1>2. n \in Nat \ {0} /\ w \in Nat \ {0}
  <2>1. n \in Nat \ {0}
    BY AuAssumption DEF AuAssumption
  <2>2. lib \in AuLibTypes
    BY AuLibIs, Zenon
  <2> QED
    BY <2>1, <2>2 DEF AuLibTypes
<1>18. lib \in AuLibTypes
  BY AuLibIs, Zenon
<1> HIDE DEF lib, u, silent, never, c, o, w
\* What was in the pool
<1>3. PICK done \in Nat :
         /\ done <= t /\ t < done + u
         /\ never => t = done
         /\ AuHolds(r.pool, c, done, t, din) /\ r.left = Len(r.pool)
         /\ \/ t = 0 /\ AuFresh(r)
            \/ t > 0 /\ t <= done + silent /\ r.padded = TRUE /\ AuHolds(r.smooth, o, t, done + silent, din + silent)
  <2>1. CASE t = 0 /\ AuFresh(r)
    <3>1. AuHolds(r.pool, c, 0, t, din) /\ r.left = Len(r.pool)
      BY <1>1, <2>1, AuEmptyHolds DEF AuFresh
    <3>2. 0 \in Nat /\ 0 <= t /\ t < 0 + u /\ (never => t = 0)
      BY <1>1, <2>1
    <3> QED
      BY <2>1, <3>1, <3>2, Zenon
  <2>2. CASE t > 0 /\ AuServed(lib, s.sizes, r, t, din, dout)
    <3>1. /\ r.padded = TRUE /\ dout = din + silent /\ r.left = Len(r.pool)
          /\ \E done \in Nat :
                /\ done <= t /\ t < done + u /\ t <= done + silent
                /\ never => t = done
                /\ AuHolds(r.pool, c, done, t, din)
                /\ AuHolds(r.smooth, o, t, done + silent, dout)
      BY <2>2 DEF AuServed, u, silent, never, c, o
    <3> QED
      BY <2>2, <3>1
  <2> QED
    BY <2>1, <2>2 DEF lib
<1>4. /\ done \in Nat /\ t \in Nat /\ n \in Nat /\ t + n \in Nat /\ done <= t /\ t <= t + n /\ done <= t + n
      /\ AuHolds(new, c, t, t + n, din)
  BY <1>2, <1>3 DEF c, lib
<1> DEFINE pool == r.pool \o new  units == Len(pool) \div w
<1>5. AuHolds(pool, c, done, t + n, din)
  BY <1>1, <1>3, <1>4, AuJoined
<1> HIDE DEF pool, units
<1>6. /\ units \in Nat
      /\ done + units * u \in Nat /\ done + units * u <= t + n /\ t + n < done + units * u + u
      /\ AuHolds(SubSeq(pool, 1, units * w), c, done, done + units * u, din)
      /\ AuHolds(SubSeq(pool, units * w + 1, Len(pool)), c, done + units * u, t + n, din)
      /\ units * w \in 0..Len(pool)
  <2>1. lib \in AuLibTypes /\ u \in Nat \ {0} /\ w = u * c
    BY <1>1, <1>18
  <2>2. LET k == Len(pool) \div w  next == done + k * u IN
        /\ k \in Nat /\ next \in Nat /\ next <= t + n /\ t + n < next + u
        /\ AuHolds(SubSeq(pool, 1, k * w), c, done, next, din)
        /\ AuHolds(SubSeq(pool, k * w + 1, Len(pool)), c, next, t + n, din)
        /\ k * w \in 0..Len(pool)
    <3> DEFINE end == t + n
    <3>1. end \in Nat /\ done <= end /\ AuHolds(pool, c, done, end, din)
      BY <1>4, <1>5
    <3> HIDE DEF end
    <3>2. LET k == Len(pool) \div w  next == done + k * u IN
          /\ k \in Nat /\ next \in Nat /\ next <= end /\ end < next + u
          /\ AuHolds(SubSeq(pool, 1, k * w), c, done, next, din)
          /\ AuHolds(SubSeq(pool, k * w + 1, Len(pool)), c, next, end, din)
          /\ k * w \in 0..Len(pool)
      <4> DEFINE k == Len(pool) \div w  next == done + k * u
      <4>1. k \in Nat /\ next \in Nat /\ next <= end /\ end < next + u
        BY <2>1, <3>1, AuPoolRound, Zenon DEF c, u, w
      <4>2. AuHolds(SubSeq(pool, 1, k * w), c, done, next, din)
        BY <2>1, <3>1, AuPoolRound, Zenon DEF c, u, w
      <4>3. AuHolds(SubSeq(pool, k * w + 1, Len(pool)), c, next, end, din)
        BY <2>1, <3>1, AuPoolRound, Zenon DEF c, u, w
      <4>4. k * w \in 0..Len(pool)
        BY <2>1, <3>1, AuPoolRound, Zenon DEF c, u, w
      <4> QED
        BY <4>1, <4>2, <4>3, <4>4
    <3> QED
      BY <3>2 DEF end
  <2> QED
    BY <2>2 DEF units
<1> DEFINE next == done + units * u  taken == units * w
           expect == OutSize(lib, Len(pool) - r.left)
           processed == Converted(SubSeq(pool, 1, taken), c, o)
           first == FirstSilence(lib, r.padded, Len(processed), expect)
           smooth == first \o r.smooth \o processed
<1>7. Len(pool) = ((t + n) - done) * c /\ r.left = (t - done) * c
  BY <1>3, <1>5 DEF AuHolds
<1>8. expect = n * o
  <2>1. Len(pool) - r.left = n * c
    <3> DEFINE x == t - done
    <3>1. x \in Nat /\ (t + n) - done = x + n /\ t - done = x
      BY <1>4
    <3> HIDE DEF x
    <3>2. Len(pool) = (x + n) * c /\ r.left = x * c
      BY <1>7, <3>1
    <3>3. (x + n) * c = x * c + n * c /\ x * c \in Nat /\ n * c \in Nat
      BY <1>1, <1>4, <3>1, AuDistributes
    <3> DEFINE a == x * c  b == n * c
    <3>4. a \in Nat /\ b \in Nat /\ Len(pool) = a + b /\ r.left = a
      BY <3>2, <3>3
    <3> HIDE DEF a, b
    <3>5. Len(pool) - r.left = b
      BY <3>4
    <3> QED
      BY <3>5 DEF b
  <2>2. (n * c) * o = (n * o) * c /\ n * o \in Nat
    BY <1>1, <1>4
  <2>3. ((n * o) * c) \div c = n * o
    BY <1>1, <2>2, AuDivMul
  <2>4. expect = ((n * c) * o) \div c
    BY <2>1 DEF OutSize, c, o
  <2> QED
    BY <2>2, <2>3, <2>4, Zenon
<1>9. AuHolds(processed, o, done, next, din) /\ done <= next
  <2>1. AuHolds(SubSeq(pool, 1, taken), c, done, next, din)
    BY <1>6
  <2>2. done <= next
    BY <1>1, <1>4, <1>6
  <2> QED
    BY <1>1, <1>4, <1>6, <2>1, <2>2, AuConvertedHolds
<1>10. never => next = t + n
  <2>1. ASSUME never PROVE next = t + n
    <3>1. t = done
      BY <1>3, <2>1
    <3>2. PICK k \in Nat : n = k * u
      BY <1>1, <2>1
    <3> DEFINE x == units * u
    <3>6. x \in Nat /\ done + x <= t + n /\ t + n < done + x + u
      <4>1. units \in Nat /\ u \in Nat
        BY <1>1, <1>6
      <4>2. x \in Nat
        BY <4>1
      <4>3. done + x <= t + n /\ t + n < done + x + u
        BY <1>6, Zenon
      <4> QED
        BY <4>2, <4>3
    <3> DEFINE rest == n - x
    <3> HIDE DEF x
    <3>3. x <= n /\ n < x + u
      BY <1>1, <1>4, <3>1, <3>6
    <3>7. rest \in Nat /\ rest < u /\ n = x + rest
      BY <1>1, <1>4, <3>3, <3>6
    <3>4. rest \in Nat /\ rest < u /\ k * u = units * u + rest
      BY <3>2, <3>7 DEF x
    <3> HIDE DEF rest
    <3>5. k = units
      BY <1>1, <1>6, <3>2, <3>4, AuWholeUnits
    <3> QED
      BY <3>1, <3>2, <3>5
  <2> QED
    BY <2>1
<1> HIDE DEF next, taken, expect, processed
<1>12. next \in Nat /\ next <= t + n /\ t + n < next + u
  BY <1>6 DEF next
<1>11. t + n <= next + silent
  <2>1. CASE never
    BY <1>1, <1>4, <1>10, <1>12, <2>1
  <2>2. CASE ~never
    <3>1. silent >= u
      BY <1>1, <2>2
    <3> QED
      BY <1>1, <1>4, <1>12, <3>1
  <2> QED
    BY <2>1, <2>2
<1>13. AuHolds(first \o r.smooth, o, t, done + silent, din + silent) /\ t <= done + silent
  <2>1. CASE t = 0 /\ AuFresh(r)
    <3>1. done = 0 /\ r.smooth = <<>> /\ r.padded = FALSE /\ 0 + silent = silent
      BY <1>1, <1>4, <2>1 DEF AuFresh
    <3>2. Len(processed) = next * o
      <4>1. Len(processed) = (next - done) * o
        BY <1>9 DEF AuHolds
      <4> QED
        BY <1>12, <3>1, <4>1
    <3>3. CASE never
      <4>1. next = n /\ silent = 0
        BY <1>1, <1>2, <1>10, <2>1, <3>3
      <4>2. Len(processed) = expect /\ expect \in Nat
        BY <1>1, <1>2, <1>8, <3>2, <4>1
      <4>3. first = <<>>
        BY <4>2 DEF FirstSilence
      <4>4. first \o r.smooth = <<>>
        BY <3>1, <4>3
      <4>5. AuHolds(<<>>, o, 0, 0, din)
        BY <1>1, AuEmptyHolds
      <4> QED
        BY <2>1, <3>1, <4>1, <4>4, <4>5
    <3>4. CASE ~never
      <4>1. next < n
        <5>1. next # n
          <6>1. ASSUME next = n PROVE FALSE
            <7>1. n = units * u
              BY <1>1, <1>6, <3>1, <6>1 DEF next
            <7> QED
              BY <1>1, <1>6, <3>4, <7>1
          <6> QED
            BY <6>1
        <5> QED
          BY <1>2, <1>12, <2>1, <5>1
      <4>2. Len(processed) < expect
        <5>1. (next + 1) * o <= n * o /\ (next + 1) * o = next * o + o /\ next * o \in Nat /\ n * o \in Nat
          BY <1>1, <1>2, <1>12, <4>1, AuTimesUp
        <5> DEFINE a == next * o  b == n * o
        <5>2. a \in Nat /\ b \in Nat /\ a + o <= b /\ Len(processed) = a /\ expect = b
          BY <1>8, <3>2, <5>1
        <5> HIDE DEF a, b
        <5> QED
          BY <1>1, <5>2
      <4>3. first = Silence(IF lib.frame THEN OutSize(lib, lib.unit) ELSE lib.unit)
        BY <3>1, <4>2 DEF FirstSilence
      <4>4. first = Silence(silent * o)
        BY <1>1, <3>4, <4>3
      <4>5. AuHolds(first, o, 0, silent, din + silent)
        <5>1. silent <= din + silent /\ din + silent \in Nat
          BY <1>1
        <5> QED
          BY <1>1, <4>4, <5>1, AuSilenceHolds
      <4>6. first \o r.smooth = first
        <5>1. first \in Seq(Nat)
          BY <4>5 DEF AuHolds
        <5> QED
          BY <3>1, <5>1
      <4> QED
        BY <1>1, <2>1, <3>1, <4>5, <4>6
    <3> QED
      BY <3>3, <3>4
  <2>2. CASE t > 0 /\ t <= done + silent /\ r.padded = TRUE /\ AuHolds(r.smooth, o, t, done + silent, din + silent)
    <3>1. first = <<>>
      BY <2>2 DEF FirstSilence
    <3>2. r.smooth \in Seq(Nat)
      BY <2>2 DEF AuHolds
    <3>3. first \o r.smooth = r.smooth
      BY <3>1, <3>2
    <3> QED
      BY <2>2, <3>3
  <2> QED
    BY <1>3, <2>1, <2>2
<1> DEFINE old == first \o r.smooth
<1> HIDE DEF first
<1>14. /\ ~(Len(old \o processed) < n * o)
       /\ AuHolds(SubSeq(old \o processed, 1, n * o), o, t, t + n, din + silent)
       /\ AuHolds(SubSeq(old \o processed, n * o + 1, Len(old \o processed)), o, t + n, next + silent, din + silent)
  <2> HIDE DEF old
  <2>1. AuHolds(old, o, t, done + silent, din + silent) /\ t <= done + silent
    BY <1>13 DEF old
  <2> QED
    BY <1>1, <1>4, <1>9, <1>11, <1>12, <2>1, AuSmoothRound
<1>15. /\ taken \in Nat /\ ~(Len(pool) < taken)
       /\ Len(pool) - taken = Len(SubSeq(pool, taken + 1, Len(pool)))
  <2>1. pool \in Seq(Nat) /\ taken \in 0..Len(pool)
    BY <1>5, <1>6 DEF AuHolds, taken
  <2> QED
    BY <2>1
<1>16. ASSUME NEW rings, rings.padded = TRUE, rings.pool = SubSeq(pool, taken + 1, Len(pool)),
              rings.left = Len(pool) - taken, rings.smooth = SubSeq(smooth, expect + 1, Len(smooth))
       PROVE  AuServed(lib, s.sizes, rings, t + n, din, din + silent)
  <2>1. rings.left = Len(rings.pool) /\ AuHolds(rings.pool, c, next, t + n, din)
    BY <1>6, <1>15, <1>16 DEF taken, next
  <2>2. AuHolds(rings.smooth, o, t + n, next + silent, din + silent)
    BY <1>8, <1>14, <1>16
  <2>3. /\ next <= t + n /\ t + n < next + u /\ t + n <= next + silent
        /\ never => t + n = next
    BY <1>10, <1>11, <1>12
  <2> QED
    BY <1>12, <1>16, <2>1, <2>2, <2>3 DEF AuServed, c, o, u, silent, never
<1>17. ~(Len(smooth) < expect) /\ AuHolds(SubSeq(smooth, 1, expect), o, t, t + n, din + silent)
  BY <1>8, <1>14
<1> QED
  BY <1>15, <1>16, <1>17, Zenon DEF lib, c, o, w, silent, pool, units, taken, expect, processed, first
---------------------------------------------------------------------------
\* What AuAssumption says of a chain
LEMMA AuSetupIs ==
  ASSUME auSetup \in AuSetups
  PROVE  /\ auSetup.libs \in Seq(AuLibTypes) /\ Len(auSetup.libs) \in Nat \ {0}
         /\ DOMAIN auSetup.libs = 1..Len(auSetup.libs)
         /\ auSetup.sizes \subseteq Nat \ {0}
<1>1. auSetup.libs \in Seq(AuLibTypes) /\ auSetup.libs # <<>> /\ auSetup.sizes \subseteq Nat \ {0}
  BY AuAssumption DEF AuAssumption
<1> QED
  BY <1>1

\* Nothing has come into a new chain.
LEMMA AuInitInv == AuInit => AuInv
<1> SUFFICES ASSUME AuInit PROVE AuInv
  OBVIOUS
<1> DEFINE l == Len(auSetup.libs)  delays == [i \in 0..l |-> 0]
<1>1. auSetup \in AuSetups /\ auTurn = 0 /\ auGone = 0 /\ auOut = <<>> /\ Len(auOut) = 0 /\ auFailed = FALSE
      /\ auLibs = [i \in DOMAIN auSetup.libs |->
                    [pool |-> <<>>, left |-> 0, smooth |-> <<>>, ref |-> <<>>, padded |-> FALSE]]
  BY DEF AuInit
<1>2. l \in Nat \ {0} /\ DOMAIN auSetup.libs = 1..l
  BY <1>1, AuSetupIs
<1>3. delays \in [0..l -> Nat] /\ delays[0] = 0
  BY <1>2
<1>4. ASSUME NEW i \in DOMAIN auSetup.libs PROVE AuLibFits(i, delays[i - 1], delays[i])
  <2>1. AuBefore(i) = 0
    BY <1>1 DEF AuBefore
  <2>2. AuFresh(auLibs[i]) /\ auLibs[i].ref = auLibs[i].pool
    BY <1>1 DEF AuFresh
  <2> QED
    BY <2>1, <2>2 DEF AuLibFits
<1>5. AuHolds(auOut, 1, 0, Len(auOut), delays[l])
  <2>1. AuHolds(<<>>, 1, 0, 0, delays[l])
    BY <1>3, AuEmptyHolds
  <2> QED
    BY <1>1, <2>1
<1>6. AuFits(delays)
  BY <1>1, <1>3, <1>4, <1>5, Zenon DEF AuFits
<1>7. \E d : AuFits(d)
  BY <1>6
<1>8. auTurn \in 0..(l + 1) /\ DOMAIN auLibs = DOMAIN auSetup.libs
  BY <1>1, <1>2
<1> QED
  BY <1>1, <1>7, <1>8 DEF AuInv

\* A call begins: the source has its times.
LEMMA AuCallKeeps ==
  ASSUME AuInv, NEW n, AuCall(n)
  PROVE  AuInv'
<1> DEFINE l == Len(auSetup.libs)
<1>1. /\ auSetup \in AuSetups /\ auTurn = 0 /\ auGone \in Nat /\ auGone = Len(auOut) /\ Len(auOut) \in Nat
      /\ ~auFailed /\ DOMAIN auLibs = DOMAIN auSetup.libs
  BY DEF AuInv, AuCall
<1>2. /\ n \in auSetup.sizes /\ auGone' = auGone + n /\ auTurn' = 1
      /\ auSource' = [k \in 1..n |-> auGone + k]
      /\ auRef' = IF auSetup.libs[1].ref THEN auSource' ELSE <<>>
      /\ auSetup' = auSetup /\ auLibs' = auLibs /\ auOut' = auOut /\ auFailed' = auFailed
  BY DEF AuCall
<1>3. n \in Nat \ {0} /\ l \in Nat \ {0} /\ DOMAIN auSetup.libs = 1..l
  BY <1>1, <1>2, AuSetupIs
<1>4. PICK delays : AuFits(delays)
  BY DEF AuInv
<1>5. /\ delays \in [0..l -> Nat] /\ delays[0] = 0
      /\ \A i \in DOMAIN auSetup.libs : AuLibFits(i, delays[i - 1], delays[i])
      /\ AuHolds(auOut, 1, 0, Len(auOut), delays[l])
  BY <1>4 DEF AuFits
<1>6. ASSUME NEW i \in DOMAIN auSetup.libs PROVE AuLibFits(i, delays[i - 1], delays[i])'
  <2>1. AuBefore(i)' = AuBefore(i)
    BY <1>1, <1>2, <1>3 DEF AuBefore
  <2>2. AuLibFits(i, delays[i - 1], delays[i])
    BY <1>5
  <2> QED
    BY <1>2, <2>1, <2>2 DEF AuLibFits
<1>7. AuHolds(auSource', 1, auGone, auGone + n, 0)
  <2> DEFINE x == [k \in 1..n |-> auGone + k]
  <2>1. x \in Seq(Nat) /\ Len(x) = n /\ \A k \in 1..n : x[k] = auGone + k
    BY <1>1, <1>3
  <2>2. (auGone + n) - auGone = n /\ n * 1 = n
    BY <1>1, <1>3
  <2> HIDE DEF x
  <2>3. ASSUME NEW p \in 1..n, NEW j \in 1..1
        PROVE  x[(p - 1) * 1 + j] = AuValue(0, auGone + p)
    <3>1. (p - 1) * 1 + j = p
      BY <1>3
    <3>2. auGone + p > 0
      BY <1>1, <1>3
    <3> QED
      BY <1>1, <2>1, <3>1, <3>2 DEF AuValue
  <2>4. AuHolds(x, 1, auGone, auGone + n, 0)
    BY <2>1, <2>2, <2>3 DEF AuHolds
  <2> QED
    BY <1>2, <2>4 DEF x
<1>8. (auTurn # 0 => AuHolds(auSource, AuFrom(auTurn), Len(auOut), auGone, delays[auTurn - 1]))'
  <2>1. AuFrom(auTurn)' = 1 /\ delays[auTurn' - 1] = 0
    BY <1>2, <1>5 DEF AuFrom
  <2> QED
    BY <1>1, <1>2, <1>7, <2>1
<1>9. AuFits(delays)'
  BY <1>2, <1>5, <1>6, <1>8, Zenon DEF AuFits
<1>10. (\E d : AuFits(d))'
  BY <1>9
<1>11. auTurn' \in 0..(l + 1) /\ auGone' \in Nat /\ auGone' >= Len(auOut) /\ auGone' - Len(auOut) = n
  BY <1>1, <1>2, <1>3
<1> QED
  BY <1>1, <1>2, <1>10, <1>11 DEF AuInv

\* The caller takes what comes out.
LEMMA AuOutKeeps ==
  ASSUME AuInv, AuOut
  PROVE  AuInv'
<1> DEFINE l == Len(auSetup.libs)  more == Converted(auSource, auSetup.libs[auTurn - 1].out, 1)
<1>1. /\ auSetup \in AuSetups /\ auTurn = l + 1 /\ auGone \in Nat /\ Len(auOut) \in Nat /\ ~auFailed
      /\ DOMAIN auLibs = DOMAIN auSetup.libs
  BY DEF AuInv, AuOut
<1>2. /\ auOut' = auOut \o more /\ auTurn' = 0 /\ auSetup' = auSetup /\ auLibs' = auLibs
      /\ auGone' = auGone /\ auFailed' = auFailed
  BY DEF AuOut
<1>3. l \in Nat \ {0} /\ DOMAIN auSetup.libs = 1..l /\ l \in DOMAIN auSetup.libs
  BY <1>1, AuSetupIs
<1>4. auTurn # 0 /\ auGone >= Len(auOut) /\ auTurn - 1 = l /\ auTurn # 1
  BY <1>1, <1>3 DEF AuInv
<1>5. PICK delays : AuFits(delays)
  BY DEF AuInv
<1>6. /\ delays \in [0..l -> Nat] /\ delays[0] = 0 /\ delays[l] \in Nat
      /\ \A i \in DOMAIN auSetup.libs : AuLibFits(i, delays[i - 1], delays[i])
      /\ AuHolds(auOut, 1, 0, Len(auOut), delays[l])
      /\ AuHolds(auSource, auSetup.libs[l].out, Len(auOut), auGone, delays[l])
  <2>1. AuFrom(auTurn) = auSetup.libs[l].out
    BY <1>4 DEF AuFrom
  <2>2. /\ delays \in [0..l -> Nat] /\ delays[0] = 0
        /\ \A i \in DOMAIN auSetup.libs : AuLibFits(i, delays[i - 1], delays[i])
        /\ AuHolds(auOut, 1, 0, Len(auOut), delays[l])
        /\ AuHolds(auSource, AuFrom(auTurn), Len(auOut), auGone, delays[auTurn - 1])
    BY <1>4, <1>5, Zenon DEF AuFits
  <2> QED
    BY <1>3, <1>4, <2>1, <2>2
<1>7. ASSUME NEW i \in DOMAIN auSetup.libs PROVE AuLibFits(i, delays[i - 1], delays[i])'
  <2>1. AuBefore(i)' = auGone /\ AuBefore(i) = auGone
    BY <1>1, <1>2, <1>3 DEF AuBefore
  <2>2. AuLibFits(i, delays[i - 1], delays[i])
    BY <1>6
  <2> QED
    BY <1>2, <2>1, <2>2 DEF AuLibFits
<1>8. auSetup.libs[l].out \in Nat \ {0}
  BY <1>1, <1>3, AuLibIs, Zenon
<1>9. AuHolds(more, 1, Len(auOut), auGone, delays[l])
  BY <1>1, <1>4, <1>6, <1>8, AuConvertedHolds
<1> HIDE DEF more
<1>10. AuHolds(auOut', 1, 0, auGone, delays[l])
  BY <1>1, <1>2, <1>4, <1>6, <1>9, AuJoined
<1>11. Len(auOut') = auGone
  BY <1>1, <1>10 DEF AuHolds
<1>12. AuFits(delays)'
  <2>1. AuHolds(auOut', 1, 0, Len(auOut'), delays[l])
    BY <1>10, <1>11
  <2> QED
    BY <1>2, <1>6, <1>7, <2>1, Zenon DEF AuFits
<1>13. (\E d : AuFits(d))'
  BY <1>12
<1>14. auTurn' \in 0..(l + 1)
  BY <1>2, <1>3
<1> QED
  BY <1>1, <1>2, <1>11, <1>13, <1>14 DEF AuInv

\* A library processes what its formatter brings.
LEMMA AuProcessKeeps ==
  ASSUME AuInv, AuProcess
  PROVE  AuInv'
<1> DEFINE l == Len(auSetup.libs)  i == auTurn  lib == auSetup.libs[i]  old == auLibs[i]  before == Len(auOut)
           n == auGone - before
           new == Converted(auSource, AuFrom(i), lib.in)
           pool == old.pool \o new
           ref == IF lib.ref THEN old.ref \o Converted(auRef, 1, lib.in) ELSE <<>>
           units == Len(pool) \div lib.unit
           taken == units * lib.unit
           expect == OutSize(lib, Len(pool) - old.left)
           processed == Converted(SubSeq(pool, 1, taken), lib.in, lib.out)
           smooth == FirstSilence(lib, old.padded, Len(processed), expect) \o old.smooth \o processed
<1>1. /\ auSetup \in AuSetups /\ auGone \in Nat /\ before \in Nat /\ ~auFailed
      /\ DOMAIN auLibs = DOMAIN auSetup.libs /\ i \in DOMAIN auSetup.libs
  BY DEF AuInv, AuProcess
<1>2. l \in Nat \ {0} /\ DOMAIN auSetup.libs = 1..l /\ i \in 1..l /\ i # 0
  BY <1>1, AuSetupIs
<1>3. n \in auSetup.sizes /\ n \in Nat \ {0} /\ auGone = before + n /\ before <= auGone
  <2>1. auGone >= before /\ n \in auSetup.sizes
    BY <1>2 DEF AuInv
  <2>2. n \in Nat \ {0}
    BY <1>1, <2>1, AuSetupIs
  <2> QED
    BY <1>1, <2>1, <2>2
<1>4. PICK delays : AuFits(delays)
  BY DEF AuInv
<1> DEFINE din == delays[i - 1]  late == din + AuSilent(lib, auSetup.sizes)
<1>5. /\ delays \in [0..l -> Nat] /\ delays[0] = 0 /\ din \in Nat
      /\ \A j \in DOMAIN auSetup.libs : AuLibFits(j, delays[j - 1], delays[j])
      /\ AuHolds(auOut, 1, 0, before, delays[l])
      /\ AuHolds(auSource, AuFrom(i), before, auGone, din)
  <2>1. /\ delays \in [0..l -> Nat] /\ delays[0] = 0
        /\ \A j \in DOMAIN auSetup.libs : AuLibFits(j, delays[j - 1], delays[j])
        /\ AuHolds(auOut, 1, 0, before, delays[l])
        /\ AuHolds(auSource, AuFrom(i), before, auGone, din)
    BY <1>2, <1>4, Zenon DEF AuFits
  <2> QED
    BY <1>2, <2>1
<1>6. /\ lib.in \in Nat \ {0} /\ lib.out \in Nat \ {0} /\ AuSilent(lib, auSetup.sizes) \in Nat
      /\ lib.ref => i = 1
  <2>1. lib.in \in Nat \ {0} /\ lib.out \in Nat \ {0}
    BY <1>1, AuLibIs, Zenon
  <2>2. AuSilent(lib, auSetup.sizes) \in Nat /\ (lib.ref => i = 1)
    BY <1>1, AuLibIs, Zenon
  <2> QED
    BY <2>1, <2>2
<1>7. AuFrom(i) \in Nat \ {0}
  <2>1. CASE i = 1
    BY <2>1 DEF AuFrom
  <2>2. CASE i # 1
    <3>1. i - 1 \in DOMAIN auSetup.libs
      BY <1>2, <2>2
    <3>2. auSetup.libs[i - 1].out \in Nat \ {0}
      BY <1>1, <3>1, AuLibIs, Zenon
    <3> QED
      BY <2>2, <3>2 DEF AuFrom
  <2> QED
    BY <2>1, <2>2
<1>8. AuHolds(new, lib.in, before, before + n, din)
  BY <1>1, <1>3, <1>5, <1>6, <1>7, AuConvertedHolds
\* The rings of the library
<1>9. AuBefore(i) = before
  BY <1>2 DEF AuBefore
<1>10. /\ \/ before = 0 /\ AuFresh(old)
          \/ before > 0 /\ AuServed(lib, auSetup.sizes, old, before, din, delays[i])
       /\ lib.ref => old.ref = old.pool
  BY <1>1, <1>5, <1>9 DEF AuLibFits
<1>11. /\ ~(Len(smooth) < expect) /\ ~(Len(pool) < taken)
       /\ AuHolds(SubSeq(smooth, 1, expect), lib.out, before, before + n, late)
       /\ \A rings : /\ rings.padded = TRUE
                     /\ rings.pool = SubSeq(pool, taken + 1, Len(pool))
                     /\ rings.left = Len(pool) - taken
                     /\ rings.smooth = SubSeq(smooth, expect + 1, Len(smooth))
                     => AuServed(lib, auSetup.sizes, rings, before + n, din, late)
  <2>1. n \in auSetup.sizes /\ before \in Nat /\ din \in Nat /\ delays[i] \in Nat
    BY <1>1, <1>2, <1>3, <1>5
  <2>2. ~(Len(smooth) < expect) /\ ~(Len(pool) < taken)
    BY <1>1, <1>8, <1>10, <2>1, AuServes, Zenon
  <2>3. AuHolds(SubSeq(smooth, 1, expect), lib.out, before, before + n, late)
    BY <1>1, <1>8, <1>10, <2>1, AuServes, Zenon
  <2>4. ASSUME NEW rings, rings.padded = TRUE, rings.pool = SubSeq(pool, taken + 1, Len(pool)),
               rings.left = Len(pool) - taken, rings.smooth = SubSeq(smooth, expect + 1, Len(smooth))
        PROVE  AuServed(lib, auSetup.sizes, rings, before + n, din, late)
    BY <1>1, <1>8, <1>10, <2>1, <2>4, AuServes, Zenon
  <2> QED
    BY <2>2, <2>3, <2>4
<1>12. lib.ref => ref = pool
  <2>1. ASSUME lib.ref PROVE ref = pool
    <3>1. i = 1 /\ auRef = auSource /\ old.ref = old.pool
      BY <1>6, <1>10, <2>1 DEF AuInv
    <3>2. AuFrom(i) = 1
      BY <3>1 DEF AuFrom
    <3> QED
      BY <2>1, <3>1, <3>2
  <2> QED
    BY <2>1
<1> DEFINE rings == [pool |-> SubSeq(pool, taken + 1, Len(pool)), left |-> Len(pool) - taken,
                     smooth |-> SubSeq(smooth, expect + 1, Len(smooth)),
                     ref |-> SubSeq(ref, taken + 1, Len(ref)), padded |-> TRUE]
<1>13. /\ auFailed' = FALSE /\ auLibs' = [auLibs EXCEPT ![i] = rings]
       /\ auSource' = SubSeq(smooth, 1, expect) /\ auTurn' = i + 1
       /\ auSetup' = auSetup /\ auGone' = auGone /\ auOut' = auOut
  <2> DEFINE pool0 == Formatted(i)  taken0 == Units(lib, pool0, ref) * lib.unit
             expect0 == OutSize(lib, Len(pool0) - old.left)
             processed0 == Converted(SubSeq(pool0, 1, taken0), lib.in, lib.out)
             smooth0 == FirstSilence(lib, old.padded, Len(processed0), expect0) \o old.smooth \o processed0
             short == \/ Len(smooth0) < expect0
                      \/ lib.ref /\ (Len(ref) < taken0 \/ SubSeq(pool0, 1, taken0) # SubSeq(ref, 1, taken0))
  <2> DEFINE rings0 ==
              [pool |-> SubSeq(pool0, taken0 + 1, Len(pool0)),
               left |-> Len(pool0) - taken0,
               smooth |-> IF short THEN smooth0 ELSE SubSeq(smooth0, expect0 + 1, Len(smooth0)),
               ref |-> IF short THEN ref ELSE SubSeq(ref, taken0 + 1, Len(ref)),
               padded |-> TRUE]
  <2>1. /\ auFailed' = short
        /\ auLibs' = [auLibs EXCEPT ![i] = rings0]
        /\ auSource' = IF short THEN <<>> ELSE SubSeq(smooth0, 1, expect0)
        /\ auTurn' = i + 1
        /\ auSetup' = auSetup /\ auGone' = auGone /\ auOut' = auOut
    BY DEF AuProcess
  <2>2. pool0 = pool
    BY DEF Formatted, AuFrom
  <2>3. Units(lib, pool, ref) = units
    BY <1>12 DEF Units
  <2> HIDE DEF pool, ref, units, short
  <2>4. taken0 = taken
    BY <2>2, <2>3
  <2>5. expect0 = expect
    BY <2>2
  <2>6. processed0 = processed
    BY <2>2, <2>4
  <2> HIDE DEF pool0, taken0, expect0, processed0, taken, expect, processed
  <2>7. smooth0 = smooth
    BY <2>5, <2>6
  <2> HIDE DEF smooth0, smooth, rings0, rings
  <2>8. ~short
    BY <1>11, <1>12, <2>2, <2>4, <2>5, <2>7 DEF short
  <2> HIDE DEF short
  <2>9. rings0 = rings
    BY <2>2, <2>4, <2>5, <2>7, <2>8 DEF rings0, rings
  <2>10. auLibs' = [auLibs EXCEPT ![i] = rings]
    BY <2>1, <2>9
  <2>11. auSource' = SubSeq(smooth, 1, expect)
    BY <2>1, <2>5, <2>7, <2>8
  <2>12. auFailed' = FALSE
    <3>1. short \in BOOLEAN
      BY DEF short
    <3> QED
      BY <2>1, <2>8, <3>1
  <2> QED
    BY <2>1, <2>10, <2>11, <2>12
<1> HIDE DEF smooth, expect, taken, units, processed, ref, pool, new
<1>22. PICK delaysNow : delaysNow = [delays EXCEPT ![i] = late]
  OBVIOUS
<1>14. /\ AuServed(lib, auSetup.sizes, auLibs'[i], auGone, din, late)
       /\ lib.ref => auLibs'[i].ref = auLibs'[i].pool
       /\ \A j \in DOMAIN auSetup.libs : j # i => auLibs'[j] = auLibs[j]
       /\ DOMAIN auLibs' = DOMAIN auSetup.libs
  <2>1. auLibs'[i] = rings
    BY <1>1, <1>13
  <2>2. AuServed(lib, auSetup.sizes, rings, auGone, din, late)
    BY <1>3, <1>11
  <2>3. lib.ref => rings.ref = rings.pool
    BY <1>12
  <2> HIDE DEF rings
  <2>4. \A j \in DOMAIN auSetup.libs : j # i => auLibs'[j] = auLibs[j]
    BY <1>1, <1>13
  <2>5. DOMAIN auLibs' = DOMAIN auSetup.libs
    BY <1>1, <1>13
  <2> QED
    BY <2>1, <2>2, <2>3, <2>4, <2>5
<1>15. /\ delaysNow \in [0..l -> Nat] /\ delaysNow[0] = 0 /\ delaysNow[i - 1] = din /\ delaysNow[i] = late
       /\ \A j \in 0..l : j # i => delaysNow[j] = delays[j]
       /\ before > 0 => delaysNow = delays
  <2>1. late \in Nat
    BY <1>5, <1>6
  <2> HIDE DEF late
  <2>2. i \in 0..l /\ i - 1 \in 0..l /\ i - 1 # i /\ 0 # i
    BY <1>2
  <2>3. before > 0 => delays[i] = late
    BY <1>10 DEF AuServed, late
  <2>4. before > 0 => delaysNow = delays
    BY <1>5, <1>22, <2>2, <2>3
  <2> QED
    BY <1>5, <1>22, <2>1, <2>2, <2>4
<1> HIDE DEF late, din
<1>16. ASSUME NEW j \in DOMAIN auSetup.libs PROVE AuLibFits(j, delaysNow[j - 1], delaysNow[j])'
  <2>1. CASE j = i
    <3>1. AuBefore(j)' = auGone /\ auGone > 0
      BY <1>1, <1>2, <1>3, <1>13, <2>1 DEF AuBefore
    <3> QED
      BY <1>13, <1>14, <1>15, <2>1, <3>1 DEF AuLibFits
  <2>2. CASE j # i
    <3>1. AuBefore(j)' = AuBefore(j)
      BY <1>2, <1>13, <2>2 DEF AuBefore
    <3>2. auLibs'[j] = auLibs[j] /\ AuLibFits(j, delays[j - 1], delays[j])
      BY <1>5, <1>14, <2>2
    <3>3. CASE before > 0
      <4>1. delaysNow = delays
        BY <1>15, <3>3
      <4> QED
        BY <1>13, <3>1, <3>2, <4>1 DEF AuLibFits
    <3>4. CASE j > i /\ before = 0
      <4>1. AuBefore(j) = 0
        BY <1>2, <3>4 DEF AuBefore
      <4>2. AuFresh(auLibs[j]) /\ (auSetup.libs[j].ref => auLibs[j].ref = auLibs[j].pool)
        BY <3>2, <4>1 DEF AuLibFits
      <4>3. AuFresh(auLibs[j])'
        BY <3>2, <4>2 DEF AuFresh
      <4> QED
        BY <1>13, <3>1, <3>2, <4>1, <4>2, <4>3 DEF AuLibFits
    <3>5. CASE j < i
      <4>1. delaysNow[j] = delays[j] /\ delaysNow[j - 1] = delays[j - 1]
        BY <1>2, <1>15, <3>5
      <4>2. AuLibFits(j, delays[j - 1], delays[j])'
        BY <1>13, <3>1, <3>2 DEF AuLibFits
      <4> QED
        BY <4>1, <4>2
    <3> QED
      BY <1>1, <1>2, <2>2, <3>3, <3>4, <3>5
  <2> QED
    BY <2>1, <2>2
<1>17. AuHolds(auSource', AuFrom(auTurn)', before, auGone, delaysNow[auTurn' - 1])
  <2>1. auTurn' - 1 = i /\ AuFrom(auTurn)' = lib.out
    <3>1. i + 1 # 1 /\ (i + 1) - 1 = i
      BY <1>2
    <3> QED
      BY <1>13, <3>1 DEF AuFrom
  <2> QED
    BY <1>3, <1>11, <1>13, <1>15, <2>1
<1>18. AuHolds(auOut', 1, 0, before, delaysNow[l])
  <2>1. CASE before = 0
    <3>1. AuHolds(auOut, 1, 0, 0, delays[l])
      BY <1>5, <2>1
    <3>2. AuHolds(auOut, 1, 0, 0, delaysNow[l])
      BY <3>1, AuNothingHolds
    <3> QED
      BY <1>13, <2>1, <3>2
  <2>2. CASE before > 0
    BY <1>5, <1>13, <1>15, <2>2
  <2> QED
    BY <1>1, <2>1, <2>2
<1>19. AuFits(delaysNow)'
  BY <1>13, <1>15, <1>16, <1>17, <1>18, Zenon DEF AuFits
<1>20. (\E d : AuFits(d))'
  BY <1>19
<1>21. auTurn' \in 0..(l + 1) /\ auTurn' # 0 /\ auTurn' # 1
  BY <1>2, <1>13
<1> QED
  BY <1>1, <1>3, <1>13, <1>14, <1>20, <1>21 DEF AuInv

\* What has come out of the last library is what the caller gets.
LEMMA AuInvSteady == AuInv => AuSteady
<1> SUFFICES ASSUME AuInv PROVE AuSteady
  OBVIOUS
<1> DEFINE l == Len(auSetup.libs)
<1>1. /\ auSetup \in AuSetups /\ ~auFailed /\ Len(auOut) \in Nat /\ (auTurn = 0 => Len(auOut) = auGone)
  BY DEF AuInv
<1>2. PICK delays : AuFits(delays)
  BY DEF AuInv
<1>3. delays[l] \in Nat /\ AuHolds(auOut, 1, 0, Len(auOut), delays[l])
  <2>1. l \in 0..l
    BY <1>1, AuSetupIs
  <2> QED
    BY <1>2, <2>1 DEF AuFits
<1> DEFINE d == delays[l]  silent == IF d <= Len(auOut) THEN d ELSE Len(auOut)
<1>4. silent \in 0..Len(auOut)
  BY <1>1, <1>3
<1>5. ASSUME NEW k \in DOMAIN auOut PROVE auOut[k] = IF k <= silent THEN 0 ELSE k - silent
  <2>1. auOut \in Seq(Nat) /\ k \in 1..(Len(auOut) - 0) /\ 1 \in 1..1 /\ (k - 1) * 1 + 1 = k /\ 0 + k = k
    BY <1>1, <1>3 DEF AuHolds
  <2>2. auOut[(k - 1) * 1 + 1] = AuValue(d, 0 + k)
    BY <1>3, <2>1, Zenon DEF AuHolds
  <2>3. auOut[k] = AuValue(d, k)
    BY <2>1, <2>2
  <2> HIDE DEF d
  <2> QED
    BY <1>1, <1>3, <2>1, <2>3 DEF AuValue, d
<1> HIDE DEF silent
<1>6. \E s \in 0..Len(auOut) : \A k \in DOMAIN auOut : auOut[k] = IF k <= s THEN 0 ELSE k - s
  BY <1>4, <1>5
<1> QED
  BY <1>1, <1>6, Zenon DEF AuSteady

(* Whatever the chain, its units and the sizes of its calls, as far as     *)
(* AuAssumption admits them: every call of aurisys_process_ul_only and     *)
(* aurisys_process_dl_only gets as much as it brings, and in the course of *)
(* time some silence once and then all that went in, in order and without  *)
(* a gap, and every frame of an uplink meets its own echo reference.       *)
THEOREM AuSteadyHolds == AuSpec => []AuSteady
<1>1. AuInit => AuInv
  BY AuInitInv
<1>2. AuInv /\ [AuNext]_auVars => AuInv'
  <2> SUFFICES ASSUME AuInv, [AuNext]_auVars PROVE AuInv'
    OBVIOUS
  <2>1. CASE \E n \in 1..AuTimes : AuCall(n)
    BY <2>1, AuCallKeeps
  <2>2. CASE AuProcess
    BY <2>2, AuProcessKeeps
  <2>3. CASE AuOut
    BY <2>3, AuOutKeeps
  <2>4. CASE UNCHANGED auVars
    <3>1. /\ auSetup' = auSetup /\ auLibs' = auLibs /\ auTurn' = auTurn /\ auSource' = auSource
          /\ auRef' = auRef /\ auGone' = auGone /\ auOut' = auOut /\ auFailed' = auFailed
      BY <2>4 DEF auVars
    <3>2. \A i, a, b : AuLibFits(i, a, b)' <=> AuLibFits(i, a, b)
      BY <3>1 DEF AuLibFits, AuBefore
    <3>3. \A d : AuFits(d)' <=> AuFits(d)
      BY <3>1, <3>2 DEF AuFits, AuFrom
    <3> QED
      BY <3>1, <3>3 DEF AuInv
  <2> QED
    BY <2>1, <2>2, <2>3, <2>4 DEF AuNext
<1>3. AuInv => AuSteady
  BY AuInvSteady
<1> QED
  BY <1>1, <1>2, <1>3, PTL DEF AuSpec
=============================================================================
