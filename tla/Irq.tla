--------------------------------- MODULE Irq ---------------------------------
(***************************************************************************)
(* Dispatch and migration of interrupts on two harts,                      *)
(* drivers/irq/v3/irq_smp.c.  An interrupt belongs to a group, and a group *)
(* to a hart; intc_irq_bitmap says which hart is to have it.  The dispatch *)
(* that finds itself on the other hart takes the interrupt out of its      *)
(* group, runs the handler, and puts it into the group of the other hart.  *)
(*                                                                         *)
(* The enable register, the registers of the groups and intc_irq_bitmap    *)
(* have one bit for each interrupt, and are changed by reading and writing *)
(* the whole word.  A critical section keeps off what runs on the same     *)
(* hart only, and intc_migrate_irq and the dispatch have none; so any two  *)
(* changes by different harts may overlap.                                 *)
(*                                                                         *)
(* A hart takes one interrupt at a time, and on each one task and one      *)
(* handler is in a call.                                                   *)
(***************************************************************************)
EXTENDS Integers

IrqOffset == 7   \* INTC_GROUP_MAP_OFFSET
IrqGroups == (1 .. 6) \cup (8 .. 13)
Harts == {0, 1}
HartOf(g) == IF g < IrqOffset THEN 0 ELSE 1
Target(g) == IF HartOf(g) = 0 THEN g + IrqOffset ELSE g - IrqOffset

CONSTANTS
    Irqs,       \* interrupts of one word, by number
    IrqGroup,   \* [Irqs -> IrqGroups]: the group each is requested with
    IrqCallers, \* who calls: among <<h, "task">> and <<h, "isr">> for a hart h
    IrqMaxCalls \* bound: calls that are made

Dispatch(h) == <<h, "dispatch">>
Dispatches == {Dispatch(h) : h \in Harts}
IrqRunners == IrqCallers \cup Dispatches

ASSUME IrqAssumption ==
    /\ Irqs \subseteq Nat /\ IrqGroup \in [Irqs -> IrqGroups]
    /\ IrqCallers \subseteq Harts \X {"task", "isr"}

\* The words: INTC_IRQ_EN, intc_irq_bitmap, and INTC_IRQ_GRP of each group.
EnWord == 0
MapWord == 14
IrqWords == {EnWord, MapWord} \cup IrqGroups

VARIABLES
    irqWord,      \* [IrqWords -> SUBSET Irqs]
    irqHandler,   \* interrupts with a handler
    irqAt,        \* [IrqRunners -> what it does, with its local variables]
    irqHas,       \* runners that have read a word and not written it back
    irqSeen,      \* [IrqRunners -> what they have read]
    irqCalls,     \* calls that have been made
    irqPut,       \* history: interrupts that an enable has put into their group,
    irqTwice,     \* those that were elsewhere then,
    irqTorn       \* those that a group lost or got by a write of what was read too early

irqVars == <<irqWord, irqHandler, irqAt, irqHas, irqSeen, irqCalls, irqPut, irqTwice, irqTorn>>
irqPast == <<irqCalls, irqPut, irqTwice, irqTorn>>

IrqIdle == [step |-> "idle", irq |-> 0, group |-> 1, moves |-> FALSE, to |-> 0, critical |-> FALSE]

\* A task is interrupted by the dispatch of its hart; a handler runs in one.
IrqMayRun(r) ==
    CASE r[2] = "task" -> irqAt[Dispatch(r[1])].step = "idle"
      [] r[2] = "isr" -> irqAt[Dispatch(r[1])].step = "handler"
      [] OTHER -> TRUE

\* A dispatch has taken i out of its group and not put it into the other one.
InTransit(d, i) == irqAt[d].irq = i /\ irqAt[d].moves /\ irqAt[d].step \in {"handler", "enter"}
IrqInTransit(i) == \E d \in Dispatches : InTransit(d, i)
---------------------------------------------------------------------------
(* The change of a word: DRV_SetReg32, DRV_ClrReg32, |= and &=             *)

IrqAccesses == {"mask", "group", "unmask", "map", "disable", "leave", "enter"}
WordOf(a) == CASE a.step \in {"mask", "unmask", "disable"} -> EnWord
               [] a.step = "map" -> MapWord
               [] a.step = "enter" -> Target(a.group)
               [] OTHER -> a.group
Sets(a) == a.step \in {"group", "unmask", "enter"} \/ (a.step = "map" /\ a.to = 1)

\* What the runner does when it has changed the word.
AfterAccess(a) ==
    CASE a.step = "mask" -> [a EXCEPT !.step = "group"]
      [] a.step = "group" -> [a EXCEPT !.step = "unmask"]
      [] a.step = "unmask" -> [a EXCEPT !.step = "map"]
      [] a.step = "leave" -> [a EXCEPT !.step = "handler"]
      [] OTHER -> IrqIdle

IrqRead(r) ==
    /\ irqAt[r].step \in IrqAccesses /\ r \notin irqHas /\ IrqMayRun(r)
    /\ irqHas' = irqHas \cup {r}
    /\ irqSeen' = [irqSeen EXCEPT ![r] = irqWord[WordOf(irqAt[r])]]
    /\ UNCHANGED <<irqWord, irqHandler, irqAt, irqPast>>

\* Interrupt i is in another group than that of its request, or on its way.
Elsewhere(i) == IrqInTransit(i) \/ \E g \in IrqGroups \ {IrqGroup[i]} : i \in irqWord[g]

\* The interrupts whose bit of the word has changed since r has read it.
Stale(r) == {j \in Irqs \ {irqAt[r].irq} :
                (j \in irqSeen[r]) # (j \in irqWord[WordOf(irqAt[r])])}

IrqWrite(r) ==
    LET a == irqAt[r] IN
    /\ r \in irqHas /\ IrqMayRun(r)
    /\ irqHas' = irqHas \ {r}
    /\ irqWord' = [irqWord EXCEPT ![WordOf(a)] = IF Sets(a) THEN irqSeen[r] \cup {a.irq}
                                                 ELSE irqSeen[r] \ {a.irq}]
    /\ irqAt' = [irqAt EXCEPT ![r] = AfterAccess(a)]
    /\ irqPut' = irqPut \cup (IF a.step = "group" THEN {a.irq} ELSE {})
    /\ irqTwice' = irqTwice \cup (IF a.step = "group" /\ Elsewhere(a.irq) THEN {a.irq} ELSE {})
    /\ irqTorn' = irqTorn \cup (IF WordOf(a) \in IrqGroups THEN Stale(r) ELSE {})
    /\ irqSeen' = [irqSeen EXCEPT ![r] = {}]
    /\ UNCHANGED <<irqHandler, irqCalls>>
---------------------------------------------------------------------------
(* The calls *)

IrqCall(r, a) ==
    /\ irqAt[r] = IrqIdle /\ IrqMayRun(r)
    /\ irqCalls < IrqMaxCalls
    /\ irqCalls' = irqCalls + 1
    /\ irqAt' = [irqAt EXCEPT ![r] = a]
    /\ UNCHANGED <<irqWord, irqHas, irqSeen, irqPut, irqTwice, irqTorn>>

\* _intc_irq_enable: masked, put into the group of the request, unmasked, and
\* the bitmap set to the hart of that group.
IrqEnabling(i) == [step |-> "mask", irq |-> i, group |-> IrqGroup[i], moves |-> FALSE,
                   to |-> HartOf(IrqGroup[i]), critical |-> TRUE]

\* intc_irq_request
IrqRequest(r, i) ==
    /\ i \notin irqHandler
    /\ irqHandler' = irqHandler \cup {i}
    /\ IrqCall(r, IrqEnabling(i))

\* intc_irq_enable, intc_irq_disable, and the same from an interrupt
IrqEnable(r, i) == IrqCall(r, IrqEnabling(i)) /\ UNCHANGED irqHandler
IrqDisable(r, i) ==
    /\ IrqCall(r, [IrqIdle EXCEPT !.step = "disable", !.irq = i, !.critical = TRUE])
    /\ UNCHANGED irqHandler

\* intc_migrate_irq, which has no critical section
IrqMigrate(r, i, h) ==
    /\ IrqCall(r, [IrqIdle EXCEPT !.step = "map", !.irq = i, !.to = h])
    /\ UNCHANGED irqHandler
---------------------------------------------------------------------------
(* intc_isr_dispatch *)

Critical(h) == \E r \in IrqCallers : r[1] = h /\ irqAt[r].critical
Mapped(i) == IF i \in irqWord[MapWord] THEN 1 ELSE 0

\* _intc_get_pending_irq: the highest of those that are raised, and any may be; one
\* without a handler is left alone.
IrqTake(h, g) ==
    /\ HartOf(g) = h /\ irqAt[Dispatch(h)] = IrqIdle /\ ~Critical(h)
    /\ \E i \in irqWord[g] \cap irqWord[EnWord] \cap irqHandler :
          irqAt' = [irqAt EXCEPT ![Dispatch(h)] =
                       [IrqIdle EXCEPT !.step = "check", !.irq = i, !.group = g]]
    /\ UNCHANGED <<irqWord, irqHandler, irqHas, irqSeen, irqPast>>

\* _intc_check_migrate_and_disabe_intr, whose change of the group is "leave".
IrqCheck(h) ==
    LET d == Dispatch(h)  move == Mapped(irqAt[d].irq) # h IN
    /\ irqAt[d].step = "check"
    /\ irqAt' = [irqAt EXCEPT ![d] = [@ EXCEPT !.step = IF move THEN "leave" ELSE "handler",
                                               !.moves = move]]
    /\ UNCHANGED <<irqWord, irqHandler, irqHas, irqSeen, irqPast>>

\* Mutant: whether it is to be moved is looked up again.
MovesNow(h) == Mapped(irqAt[Dispatch(h)].irq) # h

Moves(h) == irqAt[Dispatch(h)].moves

\* The handler returns.  Then _intc_do_intr_migrate, whose change of the other
\* group is "enter".
IrqHandled(h) ==
    LET d == Dispatch(h) IN
    /\ irqAt[d].step = "handler"
    /\ \A r \in IrqCallers : r = <<h, "isr">> => irqAt[r] = IrqIdle
    /\ irqAt' = [irqAt EXCEPT ![d] = IF Moves(h) THEN [@ EXCEPT !.step = "enter"] ELSE IrqIdle]
    /\ UNCHANGED <<irqWord, irqHandler, irqHas, irqSeen, irqPast>>

---------------------------------------------------------------------------
\* intc_init
IrqInit ==
    /\ irqWord = [w \in IrqWords |-> {}]
    /\ irqHandler = {}
    /\ irqAt = [r \in IrqRunners |-> IrqIdle]
    /\ irqHas = {} /\ irqSeen = [r \in IrqRunners |-> {}]
    /\ irqCalls = 0 /\ irqPut = {} /\ irqTwice = {} /\ irqTorn = {}

IrqNext ==
    \/ \E r \in IrqRunners : IrqRead(r) \/ IrqWrite(r)
    \/ \E r \in IrqCallers, i \in Irqs :
          \/ IrqRequest(r, i) \/ IrqEnable(r, i) \/ IrqDisable(r, i)
          \/ \E h \in Harts : IrqMigrate(r, i, h)
    \/ \E h \in Harts : \/ IrqCheck(h) \/ IrqHandled(h)
                        \/ \E g \in IrqGroups : IrqTake(h, g)
IrqSpec == IrqInit /\ [][IrqNext]_irqVars
---------------------------------------------------------------------------
(* Correctness *)

Places(i) == {IrqGroup[i], Target(IrqGroup[i])}

\* Wherever interrupts are sent in the middle of which dispatch, and however the
\* changes of both harts overlap:
\*   an interrupt is never in a group but that of its request and the one of the
\*   other hart that stands for it;
\*   one that has been enabled is in a group, or in the hands of the dispatch that
\*   moves it, unless a group lost it because a change of another interrupt wrote
\*   back a word read too early (irqTorn): being enabled again never loses it;
\*   and it is in one place only, and dispatched on one hart, unless that happened
\*   or it was enabled again after it had been moved (irqTwice).
IrqOnePlace ==
    \A i \in Irqs :
        LET in == {g \in IrqGroups : i \in irqWord[g]} IN
        /\ in \subseteq Places(i)
        /\ i \in irqPut \ irqTorn => in # {} \/ IrqInTransit(i)
        /\ i \notin irqTorn \cup irqTwice =>
              /\ \A f, g \in in : f = g
              /\ IrqInTransit(i) => in = {}
              /\ \A c, d \in Dispatches :
                    (\A e \in {c, d} : irqAt[e].step # "idle" /\ irqAt[e].irq = i) => c = d
=============================================================================
