-------------------------------- MODULE Ipi --------------------------------
(***************************************************************************)
(* Inter-processor messages of drivers/mbox/v2: the synchronous layer      *)
(* ipi.c over the mailbox layer mbox_common.c.                             *)
(*                                                                         *)
(* One mailbox joins this processor (tasks and one interrupt handler) and  *)
(* the remote processor.  An IPI id owns at most one send pin and at most  *)
(* one receive pin.  A pin is a slot of shared memory and one bit of an    *)
(* interrupt register: the sender sets the bit after it wrote the slot,    *)
(* the receiver clears it after it read the slot.                          *)
(*                                                                         *)
(* A step is a critical section of the code, a blocking kernel call or a   *)
(* store another context can see.  The interrupt handler preempts every    *)
(* task: while it runs no task of this processor takes a step, but the     *)
(* remote processor does.                                                  *)
(***************************************************************************)
EXTENDS Integers, Sequences, FiniteSets

CONSTANTS
  Tasks,      \* tasks of this processor
  Ids,        \* IPI ids, all below IPI_COUNT
  SendPins,   \* ids with a pin in mbox_pin_send_table
  RecvPins,   \* ids with a pin in mbox_pin_recv_table
  MessagePins,\* receive pins with recv_opt = MBOX_RECV_MESSAGE (others: ACK)
  IrqPins,    \* receive pins with cb_ctx_opt = MBOX_CB_IN_IRQ (others: TASK)
  Uses,       \* Uses[t]: the calls <<operation, id>> task t makes
  Boot,       \* ids whose receive pin is registered before the model starts
  Retries,    \* values of the retry_timeout argument
  AckTimeout, \* TRUE: response_timeout of ipi_send_compl may expire
  TooLong,    \* TRUE: callers may pass a message larger than the pin
  QueueMode,  \* TRUE: MBOX_OPT_QUEUE_*: the remote header holds a length
  MaxSend,    \* bound: messages sent by this processor
  MaxRemote,  \* bound: messages started by the remote processor
  Free,       \* an unlocked mutex
  None        \* no message

Ops == {"send", "compl", "recv", "reply", "reg", "unreg"}

ASSUME PinAssumption ==
  /\ Ids # {}
  /\ SendPins \subseteq Ids
  /\ RecvPins \subseteq Ids
  /\ MessagePins \subseteq RecvPins
  /\ IrqPins \subseteq RecvPins
  /\ Boot \subseteq RecvPins
ASSUME UsesAssumption == Uses \in [Tasks -> SUBSET (Ops \X Ids)]
\* The answers of ipi_recv_reply go out without pin->mutex, so the code relies
\* on an id that is answered having no other sender.
ASSUME ReplyAssumption ==
  \A t \in Tasks, i \in Ids : <<"reply", i>> \in Uses[t] =>
    \A s \in Tasks \ {t} :
      Uses[s] \cap {<<"send", i>>, <<"compl", i>>, <<"reply", i>>} = {}
ASSUME BoundAssumption ==
  /\ Retries \subseteq Nat
  /\ MaxSend \in Nat
  /\ MaxRemote \in Nat
ASSUME OptionAssumption ==
  AckTimeout \in BOOLEAN /\ TooLong \in BOOLEAN /\ QueueMode \in BOOLEAN
ASSUME MarkAssumption == Free \notin Tasks /\ None \notin Nat

VARIABLES
  pc, op, id, msg, retry, res,      \* per task: control point and arguments
  mutex,                            \* pin_send.mutex, one per send pin
  slot, busy,                       \* send slot and its bit in set_irq_reg
  rslot, rbusy, roversize,          \* receive slot, its bit, a bad length
  cb, buf, prdata,                  \* pin_recv: what ipi_register stored
  data,                             \* contents of the registered buffer
  notify,                           \* pin_recv.notify, a binary semaphore
  regMutex,                         \* mutex_ipi_reg
  isr,                              \* the interrupt handler
  owed,                             \* remote: requests it has not answered
  sent, rsent,                      \* numbers of the last messages
  posted, taken, answered,          \* history: message numbers
  handled                           \* history: what the callbacks received

local  == <<pc, op, id, msg, retry, res>>
sendq  == <<slot, busy, posted>>
reg    == <<cb, buf, prdata>>
recvq  == <<rslot, rbusy, roversize>>
remote == <<owed, taken, rsent>>
vars   == <<pc, op, id, msg, retry, res, mutex, slot, busy, posted,
            rslot, rbusy, roversize, cb, buf, prdata, data, notify, regMutex,
            isr, owed, sent, rsent, taken, answered, handled>>

Messages == 1..MaxSend
Results  == {"none", "done", "no_memory", "pin_busy", "recv_timeout",
             "unavailable", "duplex"}
Points   == {"idle", "lock", "check", "write", "trigger", "await", "unlock",
             "recv", "deliver", "call", "cb", "reglock", "stcb", "stbuf",
             "stprdata", "regunlock"}

Init ==
  /\ pc = [t \in Tasks |-> "idle"]
  /\ op = [t \in Tasks |-> "send"]
  /\ id = [t \in Tasks |-> CHOOSE i \in Ids : TRUE]
  /\ msg = [t \in Tasks |-> None]
  /\ retry = [t \in Tasks |-> 0]
  /\ res = [t \in Tasks |-> "none"]
  /\ mutex = [i \in Ids |-> Free]
  /\ slot = [i \in Ids |-> None]
  /\ busy = [i \in Ids |-> FALSE]
  /\ rslot = [i \in Ids |-> None]
  /\ rbusy = [i \in Ids |-> FALSE]
  /\ roversize = [i \in Ids |-> FALSE]
  /\ cb = [i \in Ids |-> i \in Boot /\ i \in MessagePins]
  /\ buf = [i \in Ids |-> i \in Boot]
  /\ prdata = [i \in Ids |-> i \in Boot]
  /\ data = [i \in Ids |-> None]
  /\ notify = [i \in Ids |-> FALSE]
  /\ regMutex = Free
  /\ isr = [at |-> "off", status |-> {}]
  /\ owed = [i \in Ids |-> <<>>]
  /\ sent = 0 /\ rsent = 0
  /\ posted = {} /\ taken = {} /\ answered = {}
  /\ handled = [i \in Ids |-> <<>>]

----------------------------------------------------------------------------
(* Steps of a task.  None is possible while the interrupt handler runs.    *)

At(t, p) == isr.at = "off" /\ pc[t] = p

Go(t, p) == pc' = [pc EXCEPT ![t] = p]

\* Return from a call with result r: the callers that hold the pin's mutex
\* release it first.
Finish(t, r) ==
  /\ res' = [res EXCEPT ![t] = r]
  /\ Go(t, IF op[t] \in {"send", "compl"} THEN "unlock" ELSE "idle")

Start(t, o, i, p) ==
  /\ At(t, "idle")
  /\ <<o, i>> \in Uses[t]
  /\ op' = [op EXCEPT ![t] = o]
  /\ id' = [id EXCEPT ![t] = i]
  /\ res' = [res EXCEPT ![t] = "none"]
  /\ Go(t, p)

\* ipi_send and ipi_send_compl up to the wait for pin->mutex.  The message
\* None is one whose slot_len exceeds pin->msg_size.
CallSend(t, o, i) ==
  /\ o \in {"send", "compl"}
  /\ i \in SendPins
  /\ Start(t, o, i, "lock")
  /\ \/ /\ sent < MaxSend
        /\ sent' = sent + 1
        /\ msg' = [msg EXCEPT ![t] = sent + 1]
     \/ /\ TooLong
        /\ msg' = [msg EXCEPT ![t] = None]
        /\ sent' = sent
  /\ \E r \in Retries : retry' = [retry EXCEPT ![t] = r]
  /\ UNCHANGED <<mutex, sendq, recvq, reg, data, notify, regMutex, isr,
                 remote, answered, handled>>

\* ipi_recv up to the wait for pin->notify.
CallRecv(t, i) ==
  /\ i \in RecvPins
  /\ Start(t, "recv", i, "recv")
  /\ UNCHANGED <<msg, retry, mutex, sendq, recvq, reg, data, notify, regMutex,
                 isr, remote, sent, answered, handled>>

\* ipi_recv_reply up to the same wait; the answer is an argument, and will be
\* sent with no retry and without pin->mutex.
CallReply(t, i) ==
  /\ i \in RecvPins \cap SendPins
  /\ Start(t, "reply", i, "recv")
  /\ sent < MaxSend
  /\ sent' = sent + 1
  /\ msg' = [msg EXCEPT ![t] = sent + 1]
  /\ retry' = [retry EXCEPT ![t] = 0]
  /\ UNCHANGED <<mutex, sendq, recvq, reg, data, notify, regMutex, isr,
                 remote, answered, handled>>

\* A call on an id that has no pin of the direction it needs.
CallUnavailable(t, o, i) ==
  /\ \/ o \in {"send", "compl", "reply"} /\ i \notin SendPins
     \/ o \in {"recv", "reply", "reg", "unreg"} /\ i \notin RecvPins
  /\ At(t, "idle")
  /\ <<o, i>> \in Uses[t]
  /\ res' = [res EXCEPT ![t] = "unavailable"]
  /\ UNCHANGED <<pc, op, id, msg, retry, mutex, sendq, recvq, reg, data,
                 notify, regMutex, isr, remote, sent, answered, handled>>

\* xSemaphoreTake(pin->mutex, portMAX_DELAY) in _ipi_send.
TakeMutex(t) ==
  /\ At(t, "lock")
  /\ mutex[id[t]] = Free
  /\ mutex' = [mutex EXCEPT ![id[t]] = t]
  /\ Go(t, "check")
  /\ UNCHANGED <<op, id, msg, retry, res, sendq, recvq, reg, data, notify,
                 regMutex, isr, remote, sent, answered, handled>>

\* _mbox_send: the length test, then mbox_check_send_irq in a critical
\* section, repeated after ipi_mdelay(1) while retries are left.
CheckPin(t) ==
  /\ At(t, "check")
  /\ \/ /\ msg[t] = None
        /\ Finish(t, "no_memory")
        /\ retry' = retry
     \/ /\ msg[t] # None /\ ~busy[id[t]]
        /\ Go(t, "write")
        /\ UNCHANGED <<res, retry>>
     \/ /\ msg[t] # None /\ busy[id[t]] /\ retry[t] > 0
        /\ retry' = [retry EXCEPT ![t] = @ - 1]
        /\ UNCHANGED <<pc, res>>
     \/ /\ msg[t] # None /\ busy[id[t]] /\ retry[t] = 0
        /\ Finish(t, "pin_busy")
        /\ retry' = retry
  /\ UNCHANGED <<op, id, msg, mutex, sendq, recvq, reg, data, notify,
                 regMutex, isr, remote, sent, answered, handled>>

\* Mutant of WriteSlot: mbox_write returns without a write.
WriteNothing(t) ==
  /\ At(t, "write")
  /\ Go(t, "trigger")
  /\ UNCHANGED <<op, id, msg, retry, res, mutex, sendq, recvq, reg,
                 data, notify, regMutex, isr, remote, sent, answered, handled>>

\* _mbox_send: mbox_write in its critical section.
WriteSlot(t) ==
  /\ At(t, "write")
  /\ slot' = [slot EXCEPT ![id[t]] = msg[t]]
  /\ Go(t, "trigger")
  /\ UNCHANGED <<op, id, msg, retry, res, mutex, busy, posted, recvq, reg,
                 data, notify, regMutex, isr, remote, sent, answered, handled>>

\* _mbox_send: ipi_notify_receiver and mbox_trigger_irq.  ipi_send_compl
\* goes on to wait for the answer.
TriggerIrq(t) ==
  /\ At(t, "trigger")
  /\ busy' = [busy EXCEPT ![id[t]] = TRUE]
  /\ posted' = posted \union {msg[t]}
  /\ \/ op[t] = "compl" /\ id[t] \in RecvPins /\ Go(t, "await") /\ res' = res
     \/ op[t] = "compl" /\ id[t] \notin RecvPins /\ Finish(t, "unavailable")
     \/ op[t] # "compl" /\ Finish(t, "done")
  /\ UNCHANGED <<op, id, msg, retry, mutex, slot, recvq, reg, data, notify,
                 regMutex, isr, remote, sent, answered, handled>>

\* Mutant of AwaitAck: the semaphore is looked at and not taken.
AwaitAckPeek(t) ==
  /\ At(t, "await")
  /\ notify[id[t]]
  /\ Finish(t, "done")
  /\ UNCHANGED <<op, id, msg, retry, mutex, sendq, recvq, reg, data, notify,
                 regMutex, isr, remote, sent, answered, handled>>

\* ipi_send_compl: _ipi_recv takes pin->notify, or its time runs out while
\* the semaphore is empty.
AwaitAck(t) ==
  /\ At(t, "await")
  /\ \/ /\ notify[id[t]]
        /\ notify' = [notify EXCEPT ![id[t]] = FALSE]
        /\ Finish(t, "done")
     \/ /\ ~notify[id[t]] /\ AckTimeout
        /\ notify' = notify
        /\ Finish(t, "recv_timeout")
  /\ UNCHANGED <<op, id, msg, retry, mutex, sendq, recvq, reg, data, regMutex,
                 isr, remote, sent, answered, handled>>

\* Mutant of GiveMutex: a call that found the pin busy returns at once.
GiveMutexUnlessBusy(t) ==
  /\ At(t, "unlock")
  /\ mutex' = IF res[t] = "pin_busy" THEN mutex ELSE [mutex EXCEPT ![id[t]] = Free]
  /\ Go(t, "idle")
  /\ UNCHANGED <<op, id, msg, retry, res, sendq, recvq, reg, data, notify,
                 regMutex, isr, remote, sent, answered, handled>>

\* xSemaphoreGive(pin->mutex), then ipi_send or ipi_send_compl returns.
GiveMutex(t) ==
  /\ At(t, "unlock")
  /\ mutex' = [mutex EXCEPT ![id[t]] = Free]
  /\ Go(t, "idle")
  /\ UNCHANGED <<op, id, msg, retry, res, sendq, recvq, reg, data, notify,
                 regMutex, isr, remote, sent, answered, handled>>

\* _ipi_recv(MBOX_RECV_MESSAGE): xSemaphoreTake(pin->notify, portMAX_DELAY).
TakeNotify(t) ==
  /\ At(t, "recv")
  /\ notify[id[t]]
  /\ notify' = [notify EXCEPT ![id[t]] = FALSE]
  /\ Go(t, "deliver")
  /\ UNCHANGED <<op, id, msg, retry, res, mutex, sendq, recvq, reg, data,
                 regMutex, isr, remote, sent, answered, handled>>

\* What follows the callback: ipi_recv returns, ipi_recv_reply sends.
AfterRecv(t) ==
  IF op[t] = "reply"
  THEN Go(t, "check") /\ res' = res
  ELSE Go(t, "idle") /\ res' = [res EXCEPT ![t] = "done"]

\* _ipi_recv: the test of pin->mbox_pin_cb and pin->cb_ctx_opt.
TestCallback(t) ==
  /\ At(t, "deliver")
  /\ IF cb[id[t]] /\ id[t] \notin IrqPins
     THEN Go(t, "call") /\ res' = res
     ELSE AfterRecv(t)
  /\ UNCHANGED <<op, id, msg, retry, mutex, sendq, recvq, reg, data, notify,
                 regMutex, isr, remote, sent, answered, handled>>

\* What a callback receives: the fields of the pin at the moment of the call.
Received(i) ==
  [set |-> cb[i] /\ buf[i] /\ prdata[i], msg |-> IF buf[i] THEN data[i] ELSE None]

\* _ipi_recv: the call through pin->mbox_pin_cb, in the context of the task.
CallCallback(t) ==
  /\ At(t, "call")
  /\ handled' = [handled EXCEPT ![id[t]] = Append(@, Received(id[t]))]
  /\ Go(t, "cb")
  /\ UNCHANGED <<op, id, msg, retry, res, mutex, sendq, recvq, reg, data,
                 notify, regMutex, isr, remote, sent, answered>>

\* Mutant of EndCallback: the semaphore is taken after the callback as well.
EndCallbackTake(t) ==
  /\ At(t, "cb")
  /\ AfterRecv(t)
  /\ notify' = [notify EXCEPT ![id[t]] = FALSE]
  /\ UNCHANGED <<op, id, msg, retry, mutex, sendq, recvq, reg, data,
                 regMutex, isr, remote, sent, answered, handled>>

EndCallback(t) ==
  /\ At(t, "cb")
  /\ AfterRecv(t)
  /\ UNCHANGED <<op, id, msg, retry, mutex, sendq, recvq, reg, data, notify,
                 regMutex, isr, remote, sent, answered, handled>>

\* ipi_register and ipi_unregister up to the wait for mutex_ipi_reg.
CallRegister(t, o, i) ==
  /\ o \in {"reg", "unreg"}
  /\ i \in RecvPins
  /\ Start(t, o, i, "reglock")
  /\ UNCHANGED <<msg, retry, mutex, sendq, recvq, reg, data, notify, regMutex,
                 isr, remote, sent, answered, handled>>

\* Mutant of TakeRegMutex: mutex_ipi_reg is not waited for.
TakeRegMutexAtOnce(t) ==
  /\ At(t, "reglock")
  /\ regMutex' = regMutex
  /\ IF op[t] = "reg" /\ buf[id[t]]
     THEN Go(t, "regunlock") /\ res' = [res EXCEPT ![t] = "duplex"]
     ELSE Go(t, "stcb") /\ res' = [res EXCEPT ![t] = "done"]
  /\ UNCHANGED <<op, id, msg, retry, mutex, sendq, recvq, reg, data, notify,
                 isr, remote, sent, answered, handled>>

\* xSemaphoreTake(mutex_ipi_reg); a second registration is refused.
TakeRegMutex(t) ==
  /\ At(t, "reglock")
  /\ regMutex = Free
  /\ regMutex' = t
  /\ IF op[t] = "reg" /\ buf[id[t]]
     THEN Go(t, "regunlock") /\ res' = [res EXCEPT ![t] = "duplex"]
     ELSE Go(t, "stcb") /\ res' = [res EXCEPT ![t] = "done"]
  /\ UNCHANGED <<op, id, msg, retry, mutex, sendq, recvq, reg, data, notify,
                 isr, remote, sent, answered, handled>>

\* pin->mbox_pin_cb, pin->pin_buf and pin->prdata are stored one after the
\* other; an interrupt may come between two stores.
StoreCallback(t) ==
  /\ At(t, "stcb")
  /\ cb' = [cb EXCEPT ![id[t]] = op[t] = "reg"]
  /\ Go(t, "stbuf")
  /\ UNCHANGED <<op, id, msg, retry, res, mutex, sendq, recvq, buf, prdata,
                 data, notify, regMutex, isr, remote, sent, answered, handled>>

StoreBuffer(t) ==
  /\ At(t, "stbuf")
  /\ buf' = [buf EXCEPT ![id[t]] = op[t] = "reg"]
  /\ Go(t, "stprdata")
  /\ UNCHANGED <<op, id, msg, retry, res, mutex, sendq, recvq, cb, prdata,
                 data, notify, regMutex, isr, remote, sent, answered, handled>>

StorePrdata(t) ==
  /\ At(t, "stprdata")
  /\ prdata' = [prdata EXCEPT ![id[t]] = op[t] = "reg"]
  /\ Go(t, "regunlock")
  /\ UNCHANGED <<op, id, msg, retry, res, mutex, sendq, recvq, cb, buf,
                 data, notify, regMutex, isr, remote, sent, answered, handled>>

GiveRegMutex(t) ==
  /\ At(t, "regunlock")
  /\ regMutex' = Free
  /\ Go(t, "idle")
  /\ UNCHANGED <<op, id, msg, retry, res, mutex, sendq, recvq, reg, data,
                 notify, isr, remote, sent, answered, handled>>

----------------------------------------------------------------------------
(* The interrupt handler mbox_isr, with ipi_isr_cb as its hook.            *)

\* Mutant of IsrReceive: the buffer is wiped for a message of a bad length.
IsrReceiveWipe ==
  /\ isr.at = "off"
  /\ \E i \in RecvPins : rbusy[i]
  /\ LET status == {i \in RecvPins : rbusy[i]}
         good   == {i \in status : ~roversize[i]}
     IN /\ isr' = [at |-> "clear", status |-> status]
        /\ data' = [i \in Ids |-> IF i \in status /\ buf[i]
                                  THEN IF i \in good THEN rslot[i] ELSE None
                                  ELSE data[i]]
  /\ UNCHANGED <<local, mutex, sendq, recvq, reg, notify, regMutex, remote,
                 sent, answered, handled>>

\* The status is read once; every pin in it is copied to its buffer, and its
\* callback runs if it is one of interrupt context.
IsrReceive ==
  /\ isr.at = "off"
  /\ \E i \in RecvPins : rbusy[i]
  /\ LET status  == {i \in RecvPins : rbusy[i]}
         good    == {i \in status : ~(QueueMode /\ roversize[i])}
         stored  == [i \in Ids |-> IF i \in good /\ buf[i] THEN rslot[i] ELSE data[i]]
         invoked == {i \in good : i \in MessagePins \cap IrqPins /\ cb[i]}
     IN /\ isr' = [at |-> "clear", status |-> status]
        /\ data' = stored
        /\ answered' = answered \union
             {rslot[i] : i \in {j \in good \ MessagePins : buf[j]}}
        /\ handled' = [i \in Ids |->
             IF i \in invoked
             THEN Append(handled[i],
                    [set |-> buf[i] /\ prdata[i],
                     msg |-> IF buf[i] THEN stored[i] ELSE None])
             ELSE handled[i]]
  /\ UNCHANGED <<local, mutex, sendq, recvq, reg, notify, regMutex, remote, sent>>

\* Mutant of IsrClear: every bit of the register is cleared.
IsrClearAll ==
  /\ isr.at = "clear"
  /\ rbusy' = [i \in Ids |-> FALSE]
  /\ isr' = [isr EXCEPT !.at = "notify"]
  /\ UNCHANGED <<local, mutex, sendq, rslot, roversize, reg, data, notify,
                 regMutex, remote, sent, answered, handled>>

\* mbox_clr_irq(mbox, irq_temp): from here the remote may use the pins again.
IsrClear ==
  /\ isr.at = "clear"
  /\ rbusy' = [i \in Ids |-> rbusy[i] /\ i \notin isr.status]
  /\ isr' = [isr EXCEPT !.at = "notify"]
  /\ UNCHANGED <<local, mutex, sendq, rslot, roversize, reg, data, notify,
                 regMutex, remote, sent, answered, handled>>

\* The second loop: ipi_isr_cb gives pin->notify, whatever the copy returned.
IsrNotify ==
  /\ isr.at = "notify"
  /\ notify' = [i \in Ids |-> notify[i] \/ i \in isr.status]
  /\ isr' = [at |-> "off", status |-> {}]
  /\ UNCHANGED <<local, mutex, sendq, recvq, reg, data, regMutex, remote,
                 sent, answered, handled>>

----------------------------------------------------------------------------
(* The remote processor.  It keeps the same protocol on its side: it reads *)
(* a slot before it clears its bit, and writes a slot only while the bit   *)
(* of that slot is clear.                                                  *)

\* It reads a message and clears the bit; one on an id with an ACK receive
\* pin is a request it will answer.
RemoteTake(i) ==
  /\ busy[i]
  /\ busy' = [busy EXCEPT ![i] = FALSE]
  /\ taken' = taken \union {slot[i]}
  /\ owed' = IF i \in RecvPins \ MessagePins
             THEN [owed EXCEPT ![i] = Append(@, slot[i])]
             ELSE owed
  /\ UNCHANGED <<local, mutex, slot, posted, recvq, reg, data, notify,
                 regMutex, isr, rsent, sent, answered, handled>>

\* It answers its oldest request on i.
RemoteAnswer(i) ==
  /\ owed[i] # <<>>
  /\ ~rbusy[i]
  /\ rslot' = [rslot EXCEPT ![i] = Head(owed[i])]
  /\ rbusy' = [rbusy EXCEPT ![i] = TRUE]
  /\ owed' = [owed EXCEPT ![i] = Tail(@)]
  /\ UNCHANGED <<local, mutex, sendq, roversize, reg, data, notify, regMutex,
                 isr, taken, rsent, sent, answered, handled>>

\* It starts a message of its own; in queue mode the header may hold a
\* length the pin has no room for.
RemoteSend(i) ==
  /\ i \in MessagePins
  /\ ~rbusy[i]
  /\ rsent < MaxRemote
  /\ rsent' = rsent + 1
  /\ rslot' = [rslot EXCEPT ![i] = rsent + 1]
  /\ rbusy' = [rbusy EXCEPT ![i] = TRUE]
  /\ \E o \in IF QueueMode THEN BOOLEAN ELSE {FALSE} :
        roversize' = [roversize EXCEPT ![i] = o]
  /\ UNCHANGED <<local, mutex, sendq, reg, data, notify, regMutex, isr, owed,
                 taken, sent, answered, handled>>

----------------------------------------------------------------------------
Call(t) ==
  \E i \in Ids :
    \/ \E o \in Ops : CallSend(t, o, i) \/ CallUnavailable(t, o, i)
                      \/ CallRegister(t, o, i)
    \/ CallRecv(t, i)
    \/ CallReply(t, i)

\* The steps of a task inside a call.
Run(t) ==
  \/ TakeMutex(t) \/ CheckPin(t) \/ WriteSlot(t) \/ TriggerIrq(t)
  \/ AwaitAck(t) \/ GiveMutex(t)
  \/ TakeNotify(t) \/ TestCallback(t) \/ CallCallback(t) \/ EndCallback(t)
  \/ TakeRegMutex(t) \/ StoreCallback(t) \/ StoreBuffer(t) \/ StorePrdata(t)
  \/ GiveRegMutex(t)

Isr == IsrReceive \/ IsrClear \/ IsrNotify

Remote(i) == RemoteTake(i) \/ RemoteAnswer(i) \/ RemoteSend(i)

Next ==
  \/ \E t \in Tasks : Call(t) \/ Run(t)
  \/ Isr
  \/ \E i \in Ids : Remote(i)

Spec == Init /\ [][Next]_vars

(* Every task inside a call is scheduled, the interrupt is taken, and the  *)
(* remote processor serves its interrupts and answers its requests.  A     *)
(* task need not call, and the remote need not start a message.            *)
Fairness ==
  /\ \A t \in Tasks : WF_vars(Run(t))
  /\ WF_vars(Isr)
  /\ \A i \in Ids : WF_vars(RemoteTake(i)) /\ WF_vars(RemoteAnswer(i))

FairSpec == Spec /\ Fairness

\* A receiver that calls ipi_recv again whenever it returns.
ListenSpec ==
  FairSpec /\ \A t \in Tasks : \A i \in Ids : WF_vars(CallRecv(t, i))

----------------------------------------------------------------------------
(* Types of the send side: the calls of the tasks and the send pins.       *)
SendTypes ==
  /\ pc \in [Tasks -> Points]
  /\ op \in [Tasks -> Ops]
  /\ id \in [Tasks -> Ids]
  /\ msg \in [Tasks -> Messages \union {None}]
  /\ mutex \in [Ids -> Tasks \union {Free}]
  /\ slot \in [Ids -> Messages \union {None}]
  /\ busy \in [Ids -> BOOLEAN]
  /\ sent \in 0..MaxSend
  /\ posted \subseteq Messages
  /\ taken \subseteq Messages \union {None}

(* Types of the receive side, where a message is an answer to a message of *)
(* this processor or one that the remote started.                          *)
Incoming == Messages \union (1..MaxRemote) \union {None}
RecvTypes ==
  /\ retry \in [Tasks -> Nat]
  /\ res \in [Tasks -> Results]
  /\ regMutex \in Tasks \union {Free}
  /\ rslot \in [Ids -> Incoming] /\ data \in [Ids -> Incoming]
  /\ rbusy \in [Ids -> BOOLEAN] /\ roversize \in [Ids -> BOOLEAN]
  /\ notify \in [Ids -> BOOLEAN]
  /\ cb \in [Ids -> BOOLEAN] /\ buf \in [Ids -> BOOLEAN]
  /\ prdata \in [Ids -> BOOLEAN]
  /\ isr \in [at : {"off", "clear", "notify"}, status : SUBSET RecvPins]
  /\ owed \in [Ids -> Seq(Messages \union {None})]
  /\ handled \in [Ids -> Seq([set : BOOLEAN, msg : Incoming])]
  /\ rsent \in 0..MaxRemote
  /\ answered \subseteq Incoming

TypeOK == SendTypes /\ RecvTypes

----------------------------------------------------------------------------
(* The inductive invariant of the send side.                               *)

\* Where a task can be in which call.
CallShape ==
  \A t \in Tasks :
    /\ pc[t] # "idle" => <<op[t], id[t]>> \in Uses[t]
    /\ pc[t] \in {"lock", "unlock"} => op[t] \in {"send", "compl"}
    /\ pc[t] = "await" => op[t] = "compl"
    /\ pc[t] \in {"check", "write", "trigger"} => op[t] \in {"send", "compl", "reply"}
    /\ pc[t] \in {"recv", "deliver", "call", "cb"} => op[t] \in {"recv", "reply"}

\* ipi_send and ipi_send_compl hold pin->mutex until they return.
HoldsMutex ==
  \A t \in Tasks :
    /\ op[t] \in {"send", "compl"}
    /\ pc[t] \in {"check", "write", "trigger", "await", "unlock"}
    => mutex[id[t]] = t

\* Between the busy test and the trigger the pin stays idle.
WindowIdle ==
  \A t \in Tasks :
    /\ pc[t] \in {"write", "trigger"} => msg[t] # None /\ ~busy[id[t]]
    /\ pc[t] = "trigger" => slot[id[t]] = msg[t]

\* Task t has a message that is not posted yet.
Holding(t) ==
  /\ msg[t] # None
  /\ \/ pc[t] \in {"lock", "check", "write", "trigger"}
     \/ op[t] = "reply" /\ pc[t] \in {"recv", "deliver", "call", "cb"}

\* Messages are numbered as the calls are made, so no two calls hold one.
UnsentFresh ==
  \A t \in Tasks : Holding(t) =>
    /\ msg[t] \in (1..sent) \ posted
    /\ \A s \in Tasks \ {t} : Holding(s) => msg[s] # msg[t]

\* What is pending was posted and not taken, each message in one slot.
PendingPosted ==
  /\ posted \subseteq 1..sent
  /\ taken \subseteq posted
  /\ \A i \in Ids : busy[i] =>
       /\ slot[i] \in posted \ taken
       /\ \A j \in Ids \ {i} : busy[j] => slot[j] # slot[i]

SendInv ==
  SendTypes /\ CallShape /\ HoldsMutex /\ WindowIdle /\ UnsentFresh /\ PendingPosted

----------------------------------------------------------------------------
(* The inductive invariants of the receive side.                           *)

\* Pins whose registration nobody changes.
Kept ==
  {i \in Boot : \A t \in Tasks : {<<"reg", i>>, <<"unreg", i>>} \cap Uses[t] = {}}
Registered == Kept \cap MessagePins

\* Task t stores the fields of a pin; mutex_ipi_reg is its own.
Storing(t) == pc[t] \in {"stcb", "stbuf", "stprdata", "regunlock"}

\* How far a registration has come says which fields of its pin are new.
RegInv ==
  /\ \A t \in Tasks :
       /\ Storing(t) => regMutex = t
       /\ Storing(t) \/ pc[t] = "reglock" => op[t] \in {"reg", "unreg"}
       /\ pc[t] = "stbuf" /\ id[t] \in MessagePins =>
            cb[id[t]] = (op[t] = "reg") /\ buf[id[t]] = prdata[id[t]]
       /\ pc[t] = "stprdata" /\ id[t] \in MessagePins =>
            cb[id[t]] = (op[t] = "reg") /\ buf[id[t]] = (op[t] = "reg")
  /\ \A i \in MessagePins :
       (\A t \in Tasks : id[t] = i => pc[t] \notin {"stbuf", "stprdata"})
         => cb[i] = buf[i] /\ buf[i] = prdata[i]

\* What nobody registers or unregisters stays as it was at boot.
KeptSet ==
  /\ \A i \in Kept : buf[i] /\ prdata[i]
  /\ \A i \in Registered : cb[i]

\* What lies on the pins, and who may be on its way to a callback.
PinInv ==
  /\ \A i \in Ids : roversize[i] => QueueMode /\ i \in MessagePins
  /\ \A i \in MessagePins :
       /\ owed[i] = <<>>
       /\ rslot[i] \in (1..rsent) \union {None}
       /\ rbusy[i] => rslot[i] # None
  /\ isr.at = "off" => isr.status = {}
  /\ isr.at = "clear" => \A i \in isr.status : rbusy[i]
  /\ \A t \in Tasks : pc[t] = "call" => id[t] \notin IrqPins

\* The interrupt has not come to what lies on pin i.
Waits(i) == rbusy[i] /\ ~(isr.at = "clear" /\ i \in isr.status)

\* A callback of interrupt context has seen no more than what came, and what
\* waits is newer.
SeenInOrder(i) ==
  /\ \A n \in DOMAIN handled[i] :
       /\ rslot[i] # None /\ handled[i][n].msg # None
       /\ handled[i][n].msg <= rslot[i]
       /\ Waits(i) => handled[i][n].msg < rslot[i]
       /\ \A m \in DOMAIN handled[i] :
            m < n => handled[i][m].msg < handled[i][n].msg
  /\ rslot[i] # None /\ ~roversize[i] /\ ~Waits(i) =>
       \E n \in DOMAIN handled[i] : handled[i][n].msg = rslot[i]
IrqInv == \A i \in Registered \cap IrqPins : SeenInOrder(i)

----------------------------------------------------------------------------
(* The busy test, the write and the trigger of _mbox_send are three        *)
(* critical sections: a message on the pin's slot whose bit is set is one  *)
(* that was posted and not yet taken, and nobody is between the test and   *)
(* the trigger of that pin.                                                *)
PendingIntact ==
  \A i \in Ids : busy[i] =>
    /\ slot[i] \in posted \ taken
    /\ \A t \in Tasks : ~(pc[t] \in {"write", "trigger"} /\ id[t] = i)

(* Two tasks are never both between the busy test and the trigger of one   *)
(* pin (_mbox_send under pin->mutex).                                      *)
OneWriter ==
  \A s, t \in Tasks :
    /\ s # t
    /\ pc[s] \in {"write", "trigger"}
    /\ pc[t] \in {"write", "trigger"}
    => id[s] # id[t]

(* The send pins implement one-place mailboxes: messages are not           *)
(* overwritten, not duplicated and not lost between the two processors.    *)
Box == INSTANCE Mailbox WITH
  box <- [i \in Ids |-> IF busy[i] THEN slot[i] ELSE None]
MailboxSpec == Box!Spec

(* ipi_send_compl waits for the answer of the message it sent: when it     *)
(* returns IPI_ACTION_DONE that answer has been received.                  *)
AnswerIsMine ==
  \A t \in Tasks :
    pc[t] = "unlock" /\ op[t] = "compl" /\ res[t] = "done"
      => msg[t] \in answered

\* The ids on which answers are waited for, each with one answer to one request:
\* an ACK pin that stays registered, and calls that give up on no answer and ask
\* for none that nobody takes.
Asked == {i \in RecvPins : \E t \in Tasks : <<"compl", i>> \in Uses[t]}
Undisturbed ==
  /\ ~AckTimeout
  /\ Asked \subseteq Kept \ MessagePins
  /\ \A i \in Asked, t \in Tasks :
       {<<"send", i>>, <<"recv", i>>, <<"reply", i>>} \cap Uses[t] = {}

\* Nothing of a request or an answer is on id i.
Quiet(i) ==
  ~busy[i] /\ owed[i] = <<>> /\ ~rbusy[i] /\ i \notin isr.status /\ ~notify[i]

\* Where the request m of id i, or its answer, is: in one place.
OnWay(i, m) ==
  \/ /\ busy[i] /\ slot[i] = m
     /\ owed[i] = <<>> /\ ~rbusy[i] /\ i \notin isr.status /\ ~notify[i]
  \/ /\ owed[i] = <<m>>
     /\ ~busy[i] /\ ~rbusy[i] /\ i \notin isr.status /\ ~notify[i]
  \/ /\ rbusy[i] /\ rslot[i] = m
     /\ ~busy[i] /\ owed[i] = <<>> /\ ~notify[i] /\ i \notin isr.status
  \/ /\ i \in isr.status /\ m \in answered
     /\ ~busy[i] /\ owed[i] = <<>> /\ ~notify[i]
     /\ rbusy[i] <=> isr.at = "clear"
  \/ /\ notify[i] /\ m \in answered
     /\ ~busy[i] /\ owed[i] = <<>> /\ ~rbusy[i] /\ i \notin isr.status

AnswerPin(i) ==
  /\ (\A t \in Tasks : id[t] = i => pc[t] # "await") => Quiet(i)
  /\ \A t \in Tasks : id[t] = i /\ pc[t] = "await" => OnWay(i, msg[t])
AnswerInv ==
  /\ AnswerIsMine
  /\ \A t \in Tasks : pc[t] = "await" => id[t] \in Asked
  /\ \A i \in Asked : AnswerPin(i)

Handled(i) == {handled[i][n].msg : n \in DOMAIN handled[i]}

(* A callback of interrupt context runs once for every message of the      *)
(* remote whose length is right, in the order it sent them: the slot is    *)
(* free for the next one only when this one was handled, though the        *)
(* interrupt is cleared after the callback and with other pins' bits.      *)
IrqExactlyOnce ==
  \A i \in Registered \cap IrqPins :
    /\ rslot[i] # None /\ ~roversize[i] =>
         (rslot[i] \in Handled(i) <=> (rbusy[i] => isr.at = "clear" /\ i \in isr.status))
    /\ \A m, n \in DOMAIN handled[i] :
         m < n => handled[i][m].msg < handled[i][n].msg

\* Those whose callback runs in a receiving task, where no ipi_send_compl takes
\* the notifications for its own.
TaskPins ==
  {i \in Registered \ IrqPins : \A t \in Tasks : <<"compl", i>> \notin Uses[t]}

(* A receiving task blocks only when it has handled what is in its buffer: *)
(* the interrupt handler gives pin->notify after it cleared the interrupt, *)
(* and the binary semaphore merges two notifications, yet no message is    *)
(* left waiting with nobody told.                                          *)
NotForgotten(i) ==
  \/ data[i] = None
  \/ notify[i]
  \/ isr.at # "off" /\ i \in isr.status
  \/ \E t \in Tasks : pc[t] \in {"deliver", "call"} /\ id[t] = i
  \/ handled[i] # <<>> /\ handled[i][Len(handled[i])].msg = data[i]
NothingForgotten == \A i \in TaskPins : NotForgotten(i)

(* Callbacks of task context may see a message twice or miss one that was  *)
(* overwritten, but never an older one, or an empty buffer, after a newer  *)
(* one.                                                                    *)
NeverBackwards ==
  \A i \in TaskPins : \A m, n \in DOMAIN handled[i] :
    m < n /\ handled[i][m].msg # None =>
      handled[i][n].msg # None /\ handled[i][m].msg <= handled[i][n].msg

\* A buffer holds no more than what came, and callbacks of task context have
\* seen no more than what it holds.
ToldInOrder(i) ==
  /\ data[i] # None => rslot[i] # None /\ data[i] <= rslot[i]
  /\ \A n \in DOMAIN handled[i] :
       handled[i][n].msg # None =>
         /\ data[i] # None /\ handled[i][n].msg <= data[i]
         /\ \A k \in DOMAIN handled[i] : n < k =>
              handled[i][k].msg # None /\ handled[i][n].msg <= handled[i][k].msg
TaskInv == NothingForgotten /\ \A i \in TaskPins : ToldInOrder(i)

(* Whatever tasks register and unregister at the same time, outside        *)
(* mutex_ipi_reg a pin has all three of callback, buffer and private data  *)
(* or none of them.                                                        *)
RegistrationWhole ==
  regMutex = Free =>
    \A i \in MessagePins : cb[i] = buf[i] /\ buf[i] = prdata[i]

(* Whoever takes the mutex of a pin gives it back: retries are bounded,    *)
(* and the answer to a completed send arrives.                             *)
MutexReleased ==
  \A t \in Tasks, i \in Ids : mutex[i] = t ~> mutex[i] # t

(* A message of the remote, or a later one, reaches the callback of a      *)
(* listening task; one whose length the handler refused does not count.    *)
LatestHandled ==
  \A i \in TaskPins, m \in 1..MaxRemote :
    rbusy[i] /\ ~roversize[i] /\ rslot[i] = m ~> \E n \in Handled(i) : n # None /\ n >= m
=============================================================================
