-------------------------------- MODULE IpiV1 --------------------------------
(***************************************************************************)
(* The mailboxes of the older platforms, drivers/mbox/v1: ipi_mbox.c over  *)
(* mbox.c.  One mailbox carries the messages of this processor and the     *)
(* answers to them, one the messages of the other processor and ours.      *)
(*                                                                         *)
(* A pin is a slot in share memory with an interrupt bit each way.  Tasks  *)
(* call; the interrupt stops them all, but not the other processor, which  *)
(* looks at its bits as this one does.  A message is a number, its answer  *)
(* the negated number.                                                     *)
(***************************************************************************)
EXTENDS Integers, FiniteSets, FiniteSetsExt

CONSTANTS
    V1Send,      \* send pins, integers: the interrupt serves them in order
    V1Answered,  \*   those whose messages are answered; callers of the others do not wait
    V1Recv,      \* receive pins, integers; the messages of V1Answered are answered
    V1Senders,   \* tasks that send
    V1Listener,  \* [V1Recv -> the task that registers and listens]
    V1Messages,  \* bound: messages of each side
    V1Free       \* no task

V1Pins == V1Send \cup V1Recv

ASSUME V1Assumption ==
    /\ V1Send \cap V1Recv = {} /\ V1Free \notin V1Senders
    /\ IsFiniteSet(V1Pins) /\ V1Pins \subseteq Int /\ V1Messages \in Nat

VARIABLES
    v1Out, v1In,  \* pins with their bit of OUT_IRQ, IN_IRQ
    v1Slot,       \* [pin -> what is in the slot]
    v1Mutex,      \* [send pin -> holder of mutex_send]
    v1Ack,        \* send pins whose sema_ack is given
    v1Act,        \* receive pins with an action
    v1Created,    \*   whose sema_ipi_task exists
    v1Sema,       \*   whose sema_ipi_task is given
    v1Data,       \* [receive pin -> action->data]
    v1At,         \* [task -> what it does next, for which pin and message]
    v1Isr,        \* the interrupt: its mailbox, the bits it read, pins still to serve
    v1Far,        \* [pin -> what the other processor works on, or waits for]
    v1Sent,       \* [send pin, receive pin -> messages so far]
    v1Got,        \* [send pin -> message and answer of the last call that returned one]
    v1Due,        \* [receive pin -> the last message sent to a registered pin]
    v1Seen,       \* [receive pin -> the last message that the task has read]
    v1Long,       \* send pins of which a call gave up its answer
    v1Halted      \* an assertion has stopped the system

v1Wires == <<v1Out, v1In, v1Slot>>
v1Tables == <<v1Mutex, v1Ack, v1Act, v1Created, v1Sema, v1Data>>
v1History == <<v1Sent, v1Got, v1Due, v1Seen, v1Long>>
v1Vars == <<v1Wires, v1Tables, v1At, v1Isr, v1Far, v1History, v1Halted>>

V1Idle == [do |-> "idle", pin |-> 0, msg |-> 0, wait |-> FALSE]
V1NoIsr == [on |-> FALSE, irq |-> {}, left |-> {}]
V1Tasks == V1Senders \cup {V1Listener[r] : r \in V1Recv}

\* A task takes a step.
V1Runs(task, do) == ~v1Halted /\ v1Isr = V1NoIsr /\ v1At[task].do = do
V1Goes(task, do) == v1At' = [v1At EXCEPT ![task].do = do]
V1Returns(task) == v1At' = [v1At EXCEPT ![task] = V1Idle]
---------------------------------------------------------------------------
(* ipi_send_async, ipi_send_async_wait_ex, and ipi_send_sync_ex for both *)

\* The mutex: a caller that does not wait for the answer does not wait for it either.
V1SendAsync(task, pin) ==
    /\ V1Runs(task, "idle")
    /\ v1Sent[pin] < V1Messages
    /\ v1Mutex[pin] = V1Free
    /\ v1Mutex' = [v1Mutex EXCEPT ![pin] = task]
    /\ v1Sent' = [v1Sent EXCEPT ![pin] = @ + 1]
    /\ v1At' = [v1At EXCEPT ![task] = [do |-> "test", pin |-> pin, msg |-> v1Sent[pin] + 1,
                                       wait |-> pin \in V1Answered]]
    /\ UNCHANGED <<v1Wires, v1Ack, v1Act, v1Created, v1Sema, v1Data, v1Isr, v1Far,
                   v1Got, v1Due, v1Seen, v1Long, v1Halted>>

\* mbox_send looks at the busy bit outside its critical section.
V1MboxTest(task) ==
    LET pin == v1At[task].pin IN
    /\ V1Runs(task, "test")
    /\ IF pin \in v1Out
       THEN /\ V1Returns(task)
            /\ v1Mutex' = IF pin \in V1Send THEN [v1Mutex EXCEPT ![pin] = V1Free] ELSE v1Mutex
       ELSE V1Goes(task, "write") /\ UNCHANGED v1Mutex
    /\ UNCHANGED <<v1Wires, v1Ack, v1Act, v1Created, v1Sema, v1Data, v1Isr, v1Far, v1History,
                   v1Halted>>

V1MboxSend(task) ==
    LET at == v1At[task] IN
    /\ V1Runs(task, "write")
    /\ v1Slot' = [v1Slot EXCEPT ![at.pin] = at.msg]
    /\ v1Out' = v1Out \cup {at.pin}
    /\ IF at.wait
       THEN V1Goes(task, "await") /\ UNCHANGED v1Mutex
       ELSE /\ V1Returns(task)
            /\ v1Mutex' = IF at.pin \in V1Send THEN [v1Mutex EXCEPT ![at.pin] = V1Free] ELSE v1Mutex
    /\ UNCHANGED <<v1In, v1Ack, v1Act, v1Created, v1Sema, v1Data, v1Isr, v1Far, v1History, v1Halted>>

\* More is asked for than the pin has room for: found out only here.
V1TooLong(task) ==
    LET pin == v1At[task].pin IN
    /\ V1Runs(task, "await")
    /\ V1Returns(task)
    /\ v1Mutex' = [v1Mutex EXCEPT ![pin] = V1Free]
    /\ v1Long' = v1Long \cup {pin}
    /\ UNCHANGED <<v1Wires, v1Ack, v1Act, v1Created, v1Sema, v1Data, v1Isr, v1Far,
                   v1Sent, v1Got, v1Due, v1Seen, v1Halted>>

\* Mutant: the pin is given back before the answer is copied from its slot.
V1AwaitGives(task) ==
    LET pin == v1At[task].pin IN
    /\ V1Runs(task, "await")
    /\ pin \in v1Ack
    /\ v1Ack' = v1Ack \ {pin}
    /\ V1Goes(task, "copy")
    /\ v1Mutex' = [v1Mutex EXCEPT ![pin] = V1Free]
    /\ UNCHANGED <<v1Wires, v1Act, v1Created, v1Sema, v1Data, v1Isr, v1Far, v1History, v1Halted>>

V1Await(task) ==
    LET pin == v1At[task].pin IN
    /\ V1Runs(task, "await")
    /\ pin \in v1Ack
    /\ v1Ack' = v1Ack \ {pin}
    /\ V1Goes(task, "copy")
    /\ UNCHANGED <<v1Wires, v1Mutex, v1Act, v1Created, v1Sema, v1Data, v1Isr, v1Far, v1History,
                   v1Halted>>

\* prdata points to the slot.
V1Copy(task) ==
    LET pin == v1At[task].pin IN
    /\ V1Runs(task, "copy")
    /\ v1Got' = [v1Got EXCEPT ![pin] = <<v1At[task].msg, v1Slot[pin]>>]
    /\ v1Mutex' = [v1Mutex EXCEPT ![pin] = V1Free]
    /\ V1Returns(task)
    /\ UNCHANGED <<v1Wires, v1Ack, v1Act, v1Created, v1Sema, v1Data, v1Isr, v1Far,
                   v1Sent, v1Due, v1Seen, v1Long, v1Halted>>
---------------------------------------------------------------------------
(* ipi_recv_registration, ipi_recv_wait, ipi_send_ack_ex *)

\* The mutex is about registrations only; the semaphore comes after it.
V1Register(pin) ==
    LET task == V1Listener[pin] IN
    /\ V1Runs(task, "idle")
    /\ pin \notin v1Act
    /\ v1Act' = v1Act \cup {pin}
    /\ v1At' = [v1At EXCEPT ![task] = [V1Idle EXCEPT !.do = "create", !.pin = pin]]
    /\ UNCHANGED <<v1Wires, v1Mutex, v1Ack, v1Created, v1Sema, v1Data, v1Isr, v1Far, v1History,
                   v1Halted>>
V1Create(task) ==
    /\ V1Runs(task, "create")
    /\ v1Created' = v1Created \cup {v1At[task].pin}
    /\ V1Returns(task)
    /\ UNCHANGED <<v1Wires, v1Mutex, v1Ack, v1Act, v1Sema, v1Data, v1Isr, v1Far, v1History,
                   v1Halted>>

V1RecvWait(pin) ==
    LET task == V1Listener[pin] IN
    /\ V1Runs(task, "idle")
    /\ pin \in v1Sema
    /\ v1Sema' = v1Sema \ {pin}
    /\ v1At' = [v1At EXCEPT ![task] = [V1Idle EXCEPT !.do = "read", !.pin = pin]]
    /\ UNCHANGED <<v1Wires, v1Mutex, v1Ack, v1Act, v1Created, v1Data, v1Isr, v1Far, v1History,
                   v1Halted>>

\* The task looks at the data and answers with ipi_send_ack.
V1Read(task) ==
    LET pin == v1At[task].pin IN
    /\ V1Runs(task, "read")
    /\ v1Seen' = [v1Seen EXCEPT ![pin] = v1Data[pin]]
    /\ IF pin \in V1Answered
       THEN v1At' = [v1At EXCEPT ![task] = [do |-> "test", pin |-> pin, msg |-> -v1Data[pin],
                                            wait |-> FALSE]]
       ELSE V1Returns(task)
    /\ UNCHANGED <<v1Wires, v1Tables, v1Isr, v1Far, v1Sent, v1Got, v1Due, v1Long, v1Halted>>
---------------------------------------------------------------------------
(* mbox_isr and ipi_isr_cb *)

V1IsrEnter(mbox) ==
    /\ ~v1Halted /\ v1Isr = V1NoIsr
    /\ v1In \cap mbox # {}
    /\ v1Isr' = [on |-> TRUE, irq |-> v1In \cap mbox, left |-> v1In \cap mbox]
    /\ UNCHANGED <<v1Wires, v1Tables, v1At, v1Far, v1History, v1Halted>>

\* ipi_do_ack
V1DoAck ==
    LET pin == Min(v1Isr.left) IN
    /\ v1Isr.left # {} /\ pin \in V1Send
    /\ v1Isr' = [v1Isr EXCEPT !.left = @ \ {pin}]
    /\ v1Ack' = v1Ack \cup {pin}
    /\ UNCHANGED <<v1Wires, v1Mutex, v1Act, v1Created, v1Sema, v1Data, v1At, v1Far, v1History,
                   v1Halted>>

\* ipi_do_recv: a semaphore that does not exist yet is an assertion.
V1DoRecv ==
    LET pin == Min(v1Isr.left)  called == pin \in v1Act IN
    /\ ~v1Halted /\ v1Isr.left # {} /\ pin \in V1Recv
    /\ v1Isr' = [v1Isr EXCEPT !.left = @ \ {pin}]
    /\ v1Data' = IF called THEN [v1Data EXCEPT ![pin] = v1Slot[pin]] ELSE v1Data
    /\ v1Sema' = IF called THEN v1Sema \cup {pin} ELSE v1Sema
    /\ v1Halted' = (called /\ pin \notin v1Created)
    /\ UNCHANGED <<v1Wires, v1Mutex, v1Ack, v1Act, v1Created, v1At, v1Far, v1History>>

\* Mutant: all that has come is cleared, not only what was served.
V1IsrClearAll ==
    /\ ~v1Halted /\ v1Isr.on /\ v1Isr.left = {}
    /\ v1In' = {}
    /\ v1Isr' = V1NoIsr
    /\ UNCHANGED <<v1Out, v1Slot, v1Tables, v1At, v1Far, v1History, v1Halted>>

V1IsrClear ==
    /\ ~v1Halted /\ v1Isr.on /\ v1Isr.left = {}
    /\ v1In' = v1In \ v1Isr.irq
    /\ v1Isr' = V1NoIsr
    /\ UNCHANGED <<v1Out, v1Slot, v1Tables, v1At, v1Far, v1History, v1Halted>>
---------------------------------------------------------------------------
(* The other processor *)

\* It takes a message, and answers once its bit is free.
V1FarTakes(pin) ==
    /\ pin \in V1Send \cap v1Out
    /\ v1Out' = v1Out \ {pin}
    /\ v1Far' = IF pin \in V1Answered THEN [v1Far EXCEPT ![pin] = v1Slot[pin]] ELSE v1Far
    /\ UNCHANGED <<v1In, v1Slot, v1Tables, v1At, v1Isr, v1History, v1Halted>>
V1FarAnswers(pin) ==
    /\ pin \in V1Send \ v1In /\ v1Far[pin] # 0
    /\ v1Slot' = [v1Slot EXCEPT ![pin] = -v1Far[pin]]
    /\ v1In' = v1In \cup {pin}
    /\ v1Far' = [v1Far EXCEPT ![pin] = 0]
    /\ UNCHANGED <<v1Out, v1Tables, v1At, v1Isr, v1History, v1Halted>>

\* It sends, and of a pin that is answered not again before the answer.
V1FarSends(pin) ==
    LET msg == v1Sent[pin] + 1 IN
    /\ pin \in V1Recv \ v1In /\ v1Far[pin] = 0
    /\ msg <= V1Messages
    /\ v1Sent' = [v1Sent EXCEPT ![pin] = msg]
    /\ v1Slot' = [v1Slot EXCEPT ![pin] = msg]
    /\ v1In' = v1In \cup {pin}
    /\ v1Far' = IF pin \in V1Answered THEN [v1Far EXCEPT ![pin] = msg] ELSE v1Far
    /\ v1Due' = IF pin \in v1Act THEN [v1Due EXCEPT ![pin] = msg] ELSE v1Due
    /\ UNCHANGED <<v1Out, v1Tables, v1At, v1Isr, v1Got, v1Seen, v1Long, v1Halted>>
V1FarHears(pin) ==
    /\ pin \in V1Recv \cap v1Out
    /\ v1Out' = v1Out \ {pin}
    /\ v1Far' = IF v1Slot[pin] = -v1Far[pin] THEN [v1Far EXCEPT ![pin] = 0] ELSE v1Far
    /\ UNCHANGED <<v1In, v1Slot, v1Tables, v1At, v1Isr, v1History, v1Halted>>
---------------------------------------------------------------------------
V1Init ==
    /\ v1Out = {} /\ v1In = {} /\ v1Slot = [p \in V1Pins |-> 0]
    /\ v1Mutex = [p \in V1Send |-> V1Free] /\ v1Ack = {}
    /\ v1Act = {} /\ v1Created = {} /\ v1Sema = {} /\ v1Data = [p \in V1Recv |-> 0]
    /\ v1At = [task \in V1Tasks |-> V1Idle]
    /\ v1Isr = V1NoIsr
    /\ v1Far = [p \in V1Pins |-> 0]
    /\ v1Sent = [p \in V1Pins |-> 0] /\ v1Got = [p \in V1Send |-> <<0, 0>>]
    /\ v1Due = [p \in V1Recv |-> 0] /\ v1Seen = [p \in V1Recv |-> 0]
    /\ v1Long = {} /\ v1Halted = FALSE

V1Next ==
    \/ \E task \in V1Senders, pin \in V1Send : V1SendAsync(task, pin)
    \/ \E task \in V1Tasks :
          \/ V1MboxTest(task) \/ V1MboxSend(task)
          \/ V1TooLong(task) \/ V1Await(task) \/ V1Copy(task)
          \/ V1Create(task) \/ V1Read(task)
    \/ \E pin \in V1Recv : V1Register(pin) \/ V1RecvWait(pin)
    \/ V1IsrEnter(V1Send) \/ V1IsrEnter(V1Recv)
    \/ V1DoAck \/ V1DoRecv \/ V1IsrClear
    \/ \E pin \in V1Pins :
          V1FarTakes(pin) \/ V1FarAnswers(pin) \/ V1FarSends(pin) \/ V1FarHears(pin)

V1Spec == V1Init /\ [][V1Next]_v1Vars
---------------------------------------------------------------------------
(* The invariant behind V1Delivers, in parts.                              *)

V1Steps == {"idle", "test", "write", "await", "copy", "create", "read"}
V1Ats == [do : V1Steps, pin : Int, msg : Int, wait : BOOLEAN]
V1WiresOK ==
    /\ v1Out \subseteq V1Pins /\ v1In \subseteq V1Pins
    /\ v1Slot \in [V1Pins -> Int] /\ v1Far \in [V1Pins -> Int]
    /\ v1Isr \in [on : BOOLEAN, irq : SUBSET V1Pins, left : SUBSET V1Pins]
V1TablesOK ==
    /\ v1Mutex \in [V1Send -> V1Senders \cup {V1Free}] /\ v1Ack \subseteq V1Send
    /\ v1Act \subseteq V1Recv /\ v1Sema \subseteq V1Recv
    /\ v1Data \in [V1Recv -> Int]
V1HistoryOK ==
    /\ v1Sent \in [V1Pins -> Nat] /\ v1Got \in [V1Send -> Int \X Int]
    /\ v1Due \in [V1Recv -> Nat] /\ v1Seen \in [V1Recv -> Int]
    /\ v1Long \subseteq V1Send
V1TypeOK == v1At \in [V1Tasks -> V1Ats] /\ V1WiresOK /\ V1TablesOK /\ V1HistoryOK

\* The interrupt clears what it read; until then no new message comes over these pins.
V1IsrOK == v1Isr.left \subseteq v1Isr.irq /\ v1Isr.irq \subseteq v1In

\* What has come and is not served yet.
V1Pending == v1In \ (v1Isr.irq \ v1Isr.left)

\* Who is on a pin: the holder of its mutex, or its listener.
V1Place(task) ==
    LET at == v1At[task] IN
    /\ at.do # "idle" => at.pin \in V1Pins
    /\ at.do # "idle" /\ at.pin \in V1Send =>
          /\ task \in V1Senders /\ v1Mutex[at.pin] = task
          /\ at.do \in {"test", "write", "await", "copy"}
    /\ at.do # "idle" /\ at.pin \in V1Recv =>
          /\ task = V1Listener[at.pin]
          /\ at.do \in {"test", "write", "create", "read"}
          /\ at.do \in {"test", "write"} => at.pin \in V1Answered
    /\ at.do \in {"test", "write"} =>
          at.wait = (at.pin \in V1Send /\ at.pin \in V1Answered)
    /\ at.do \in {"await", "copy"} => at.pin \in V1Answered /\ at.pin \in V1Send

\* task is on the pin and does one of these.
V1On(task, pin, dos) == v1At[task].do \in dos /\ v1At[task].pin = pin

\* At most one of four.
V1AtMostOne(a, b, c, d) ==
    ~(a /\ b) /\ ~(a /\ c) /\ ~(a /\ d) /\ ~(b /\ c) /\ ~(b /\ d) /\ ~(c /\ d)

\* A message is on its way out, at the other processor, on its way back, or answered.
V1Asked(pin) ==
    LET task == v1Mutex[pin]  msg == v1At[task].msg  out == pin \in v1Out
        away == v1Far[pin] # 0  back == pin \in V1Pending  ack == pin \in v1Ack IN
    /\ V1AtMostOne(out, away, back, ack)
    /\ out \/ away \/ back \/ ack => task \in V1Senders /\ V1On(task, pin, {"await"})
    /\ out => v1Slot[pin] = msg
    /\ away => v1Far[pin] = msg
    /\ back \/ ack => v1Slot[pin] = -msg

V1Ask(pin) ==
    /\ pin \notin V1Answered => v1Far[pin] = 0 /\ pin \notin v1In /\ pin \notin v1Ack
    /\ pin \in V1Answered \ v1Long =>
          /\ V1Asked(pin)
          /\ \A task \in V1Senders :
                V1On(task, pin, {"copy"}) => v1Slot[pin] = -v1At[task].msg
    /\ pin \notin v1Long => v1Got[pin][2] = -v1Got[pin][1]

\* A message whose answer is due is on its way in, at the listener, or on its way back.
V1Told(pin) ==
    LET task == V1Listener[pin]  in == pin \in V1Pending  out == pin \in v1Out
        heard == pin \in v1Sema \/ V1On(task, pin, {"read"})
        answers == V1On(task, pin, {"test", "write"}) IN
    /\ V1AtMostOne(in, out, heard, answers)
    /\ ~(pin \in v1Sema /\ V1On(task, pin, {"read"}))
    /\ in \/ out \/ heard \/ answers => v1Far[pin] # 0
    /\ in => v1Slot[pin] = v1Far[pin]
    /\ out => v1Slot[pin] = -v1Far[pin]
    /\ heard => v1Data[pin] = v1Far[pin]
    /\ answers => v1At[task].msg = -v1Far[pin]

V1Tell(pin) ==
    LET heard == pin \in v1Sema \/ V1On(V1Listener[pin], pin, {"read"}) IN
    /\ v1Due[pin] <= v1Sent[pin]
    /\ pin \notin v1Act => v1Due[pin] = 0 /\ v1Seen[pin] = 0 /\ ~heard
    /\ pin \in V1Pending => v1Slot[pin] >= v1Due[pin]
    /\ pin \notin V1Pending => v1Seen[pin] >= v1Due[pin] \/ heard
    /\ heard /\ pin \notin V1Pending => v1Data[pin] >= v1Due[pin]
    /\ pin \in V1Answered => V1Told(pin)
    /\ pin \notin V1Answered => pin \notin v1Out

V1Inv ==
    /\ V1TypeOK /\ V1IsrOK
    /\ \A task \in V1Tasks : V1Place(task)
    /\ \A pin \in V1Send : V1Ask(pin)
    /\ \A pin \in V1Recv : V1Tell(pin)
---------------------------------------------------------------------------
(* A call that returns an answer returns the answer to its own message,    *)
(* whoever uses the pin next: the slot that holds it is kept until it is   *)
(* copied.  Not so after a call that asked for more words than the pin     *)
(* has: it lets go of the pin and leaves its answer to the next call.      *)
V1AnswerIsMine ==
    \A pin \in V1Send \ v1Long : v1Got[pin][2] = -v1Got[pin][1]

(* A message to a registered pin whose bit is cleared has been read, in    *)
(* its last form, by the task that listens, or the task is about to.       *)
V1Heard ==
    \A pin \in V1Recv \ v1In :
        \/ v1Halted
        \/ v1Seen[pin] >= v1Due[pin]
        \/ pin \in v1Sema
        \/ v1At[V1Listener[pin]].do = "read" /\ v1At[V1Listener[pin]].pin = pin

(* Both: an older mailbox delivers messages and answers.                   *)
V1Delivers == V1AnswerIsMine /\ V1Heard
=============================================================================
