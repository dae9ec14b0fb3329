----------------------------- MODULE IpiProofs -----------------------------
(***************************************************************************)
(* Proofs about Ipi for every set of tasks, ids, pins and calls: the send  *)
(* pins never overwrite, duplicate or lose a message, and implement the    *)
(* one-place mailboxes of Mailbox; registrations are whole; a message      *)
(* received is handled once by an interrupt callback, and neither          *)
(* forgotten nor overtaken by an older one on its way to a task's; and an  *)
(* answer completes the request it was sent for.                           *)
(***************************************************************************)
EXTENDS Ipi, TLAPS

sendVars == <<pc, op, id, msg, mutex, slot, busy, posted, sent, taken>>

(* Only one call at a time is between the busy test and the trigger of a   *)
(* pin: senders hold the mutex, and an id that is answered has no other    *)
(* sender.                                                                 *)
LEMMA OneCall ==
  ASSUME SendTypes, CallShape, HoldsMutex,
         NEW s \in Tasks, NEW t \in Tasks, s # t,
         pc[s] \in {"check", "write", "trigger"},
         pc[t] \in {"check", "write", "trigger"}
  PROVE  id[s] # id[t]
<1> SUFFICES ASSUME id[s] = id[t] PROVE FALSE
  OBVIOUS
<1>1. /\ op[s] \in {"send", "compl", "reply"} /\ <<op[s], id[s]>> \in Uses[s]
      /\ op[t] \in {"send", "compl", "reply"} /\ <<op[t], id[t]>> \in Uses[t]
      /\ id[t] \in Ids
  BY DEF CallShape, SendTypes
<1>2. CASE op[s] = "reply"
  BY <1>1, <1>2, ReplyAssumption
<1>3. CASE op[t] = "reply"
  BY <1>1, <1>3, ReplyAssumption
<1>4. CASE op[s] # "reply" /\ op[t] # "reply"
  BY <1>1, <1>4 DEF HoldsMutex
<1> QED BY <1>2, <1>3, <1>4

(* A step of the task that leaves the send pins alone and moves within the *)
(* receiving or the registering calls.                                     *)
LEMMA ReceiveStep ==
  ASSUME SendInv, NEW t \in Tasks, NEW p \in Points,
         pc' = [pc EXCEPT ![t] = p],
         UNCHANGED <<op, id, msg, mutex, slot, busy, posted, sent, taken>>,
         pc[t] # "idle",
         p \notin {"lock", "write", "trigger", "await", "unlock"},
         p = "check" => op[t] = "reply" /\ pc[t] \in {"deliver", "cb"},
         p \in {"recv", "deliver", "call", "cb"} =>
           pc[t] \in {"recv", "deliver", "call", "cb"}
  PROVE  SendInv'
<1> USE DEF SendInv
<1>1. SendTypes'
  BY DEF SendTypes, Messages
<1>2. CallShape'
  BY DEF SendTypes, CallShape
<1>3. HoldsMutex'
  BY DEF SendTypes, HoldsMutex
<1>4. WindowIdle'
  BY DEF SendTypes, WindowIdle
<1>5. UnsentFresh'
  BY DEF SendTypes, UnsentFresh, Holding
<1>6. PendingPosted'
  BY DEF SendTypes, PendingPosted
<1> QED BY <1>1, <1>2, <1>3, <1>4, <1>5, <1>6

(* A task that enters a call keeps the invariant. *)
LEMMA CallStep ==
  ASSUME SendInv, NEW t \in Tasks, Call(t)
  PROVE  SendInv'
<1> USE DEF SendInv
<1> PICK i \in Ids : \/ \E o \in Ops : CallSend(t, o, i) \/ CallUnavailable(t, o, i)
                                       \/ CallRegister(t, o, i)
                     \/ CallRecv(t, i)
                     \/ CallReply(t, i)
  BY DEF Call
<1>1. ASSUME NEW o \in Ops, CallSend(t, o, i) PROVE SendInv'
  <2> USE <1>1 DEF CallSend, Start, At, Go, sendq, remote
  <2>1. SendTypes'
    BY BoundAssumption DEF SendTypes, Messages, Points
  <2>2. CallShape' /\ HoldsMutex' /\ WindowIdle'
    BY DEF SendTypes, CallShape, HoldsMutex, WindowIdle
  <2>3. UnsentFresh'
    BY BoundAssumption DEF SendTypes, UnsentFresh, Holding, PendingPosted
  <2>4. PendingPosted'
    BY BoundAssumption DEF SendTypes, PendingPosted
  <2> QED BY <2>1, <2>2, <2>3, <2>4
<1>2. ASSUME NEW o \in Ops, CallRegister(t, o, i) PROVE SendInv'
  <2> USE <1>2 DEF CallRegister, Start, At, Go, sendq, remote
  <2>1. SendTypes'
    BY DEF SendTypes, Points
  <2>2. CallShape' /\ HoldsMutex' /\ WindowIdle'
    BY DEF SendTypes, CallShape, HoldsMutex, WindowIdle
  <2>3. UnsentFresh'
    BY DEF SendTypes, UnsentFresh, Holding
  <2>4. PendingPosted'
    BY DEF PendingPosted
  <2> QED BY <2>1, <2>2, <2>3, <2>4
<1>3. ASSUME NEW o \in Ops, CallUnavailable(t, o, i) PROVE SendInv'
  BY <1>3, ZenonT(40)
     DEF CallUnavailable, sendq, remote, SendTypes, CallShape, HoldsMutex,
         WindowIdle, UnsentFresh, Holding, PendingPosted
<1>4. CASE CallRecv(t, i)
  <2> USE <1>4 DEF CallRecv, Start, At, Go, sendq, remote
  <2>1. SendTypes'
    BY DEF SendTypes, Points, Ops
  <2>2. CallShape' /\ HoldsMutex' /\ WindowIdle'
    BY DEF SendTypes, CallShape, HoldsMutex, WindowIdle
  <2>3. UnsentFresh'
    BY DEF SendTypes, UnsentFresh, Holding
  <2>4. PendingPosted'
    BY DEF PendingPosted
  <2> QED BY <2>1, <2>2, <2>3, <2>4
<1>5. CASE CallReply(t, i)
  <2> USE <1>5 DEF CallReply, Start, At, Go, sendq, remote
  <2>1. SendTypes'
    BY BoundAssumption DEF SendTypes, Messages, Points, Ops
  <2>2. CallShape' /\ HoldsMutex' /\ WindowIdle'
    BY DEF SendTypes, CallShape, HoldsMutex, WindowIdle
  <2>3. UnsentFresh'
    BY BoundAssumption DEF SendTypes, UnsentFresh, Holding, PendingPosted
  <2>4. PendingPosted'
    BY BoundAssumption DEF SendTypes, PendingPosted
  <2> QED BY <2>1, <2>2, <2>3, <2>4
<1> QED BY <1>1, <1>2, <1>3, <1>4, <1>5

(* So does every step of a sending call. *)
LEMMA SendStep ==
  ASSUME SendInv, NEW t \in Tasks,
         \/ TakeMutex(t) \/ CheckPin(t) \/ WriteSlot(t) \/ TriggerIrq(t)
         \/ AwaitAck(t) \/ GiveMutex(t)
  PROVE  SendInv'
<1> USE DEF SendInv, At, Go, Finish, sendq, remote
<1>1. CASE TakeMutex(t)
  <2> USE <1>1 DEF TakeMutex
  <2>1. SendTypes'
    BY DEF SendTypes, Points
  <2>2. CallShape' /\ WindowIdle'
    BY DEF SendTypes, CallShape, WindowIdle
  <2>3. HoldsMutex'
    BY MarkAssumption DEF SendTypes, HoldsMutex
  <2>4. UnsentFresh' /\ PendingPosted'
    BY DEF SendTypes, UnsentFresh, Holding, PendingPosted
  <2> QED BY <2>1, <2>2, <2>3, <2>4
<1>2. CASE CheckPin(t)
  <2> USE <1>2 DEF CheckPin
  <2>1. SendTypes'
    BY DEF SendTypes, Points
  <2>2a. CallShape'
    BY DEF SendTypes, CallShape
  <2>2b. WindowIdle'
    BY DEF SendTypes, WindowIdle
  <2>3. HoldsMutex'
    BY DEF SendTypes, HoldsMutex
  <2>4. UnsentFresh' /\ PendingPosted'
    BY DEF SendTypes, UnsentFresh, Holding, PendingPosted
  <2> QED BY <2>1, <2>2a, <2>2b, <2>3, <2>4
<1>3. CASE WriteSlot(t)
  <2> USE <1>3 DEF WriteSlot
  <2>0. \A s \in Tasks \ {t} : pc[s] = "trigger" => id[s] # id[t]
    BY OneCall
  <2>1. SendTypes'
    BY DEF SendTypes, Points
  <2>2. CallShape' /\ HoldsMutex'
    BY DEF SendTypes, CallShape, HoldsMutex
  <2>3. WindowIdle'
    BY <2>0 DEF SendTypes, WindowIdle
  <2>4. UnsentFresh'
    BY DEF SendTypes, UnsentFresh, Holding
  <2>5. PendingPosted'
    BY DEF SendTypes, PendingPosted, WindowIdle
  <2> QED BY <2>1, <2>2, <2>3, <2>4, <2>5
<1>4. CASE TriggerIrq(t)
  <2> USE <1>4 DEF TriggerIrq
  <2>0. \A s \in Tasks \ {t} : pc[s] \in {"write", "trigger"} => id[s] # id[t]
    BY OneCall
  <2>1. /\ ~busy[id[t]] /\ slot[id[t]] = msg[t] /\ msg[t] # None
        /\ msg[t] \in (1..sent) \ posted
    BY DEF WindowIdle, UnsentFresh, Holding
  <2>2. SendTypes'
    BY <2>1 DEF SendTypes, Points
  <2>3. CallShape' /\ HoldsMutex'
    BY DEF SendTypes, CallShape, HoldsMutex
  <2>4. WindowIdle'
    BY <2>0 DEF SendTypes, WindowIdle
  <2>5. UnsentFresh'
    BY <2>1 DEF SendTypes, UnsentFresh, Holding
  <2>6. PendingPosted'
    BY <2>1 DEF SendTypes, PendingPosted
  <2> QED BY <2>2, <2>3, <2>4, <2>5, <2>6
<1>5. CASE AwaitAck(t)
  <2> USE <1>5 DEF AwaitAck
  <2>1. SendTypes'
    BY DEF SendTypes, Points
  <2>2. CallShape' /\ WindowIdle'
    BY DEF SendTypes, CallShape, WindowIdle
  <2>3. HoldsMutex'
    BY DEF SendTypes, HoldsMutex
  <2>4. UnsentFresh' /\ PendingPosted'
    BY DEF SendTypes, UnsentFresh, Holding, PendingPosted
  <2> QED BY <2>1, <2>2, <2>3, <2>4
<1>6. CASE GiveMutex(t)
  <2> USE <1>6 DEF GiveMutex
  <2>1. SendTypes'
    BY DEF SendTypes, Points
  <2>2. CallShape' /\ WindowIdle'
    BY DEF SendTypes, CallShape, WindowIdle
  <2>3. HoldsMutex'
    BY ZenonT(40) DEF SendTypes, HoldsMutex, CallShape
  <2>4. UnsentFresh' /\ PendingPosted'
    BY DEF SendTypes, UnsentFresh, Holding, PendingPosted
  <2> QED BY <2>1, <2>2, <2>3, <2>4
<1> QED BY <1>1, <1>2, <1>3, <1>4, <1>5, <1>6

(* So does every step inside any call. *)
LEMMA RunStep ==
  ASSUME SendInv, NEW t \in Tasks, Run(t)
  PROVE  SendInv'
<1> USE DEF At, Go, sendq, remote
<1>1. CASE TakeNotify(t)
  BY <1>1, ReceiveStep DEF TakeNotify, Points
<1>2. CASE TestCallback(t)
  <2>1. CASE pc' = [pc EXCEPT ![t] = "call"]
    BY <1>2, <2>1, ReceiveStep DEF TestCallback, Points, AfterRecv
  <2>2. CASE AfterRecv(t)
    BY <1>2, <2>2, ReceiveStep DEF TestCallback, Points, AfterRecv
  <2> QED BY <1>2, <2>1, <2>2 DEF TestCallback
<1>3. CASE CallCallback(t)
  BY <1>3, ReceiveStep DEF CallCallback, Points
<1>4. CASE EndCallback(t)
  BY <1>4, ReceiveStep DEF EndCallback, Points, AfterRecv
<1>5. CASE TakeRegMutex(t)
  BY <1>5, ReceiveStep DEF TakeRegMutex, Points
<1>6. CASE StoreCallback(t)
  BY <1>6, ReceiveStep DEF StoreCallback, Points
<1>7. CASE StoreBuffer(t)
  BY <1>7, ReceiveStep DEF StoreBuffer, Points
<1>8. CASE StorePrdata(t)
  BY <1>8, ReceiveStep DEF StorePrdata, Points
<1>9. CASE GiveRegMutex(t)
  BY <1>9, ReceiveStep DEF GiveRegMutex, Points
<1> QED
  BY <1>1, <1>2, <1>3, <1>4, <1>5, <1>6, <1>7, <1>8, <1>9, SendStep DEF Run

(* The send side keeps its invariant in every reachable state.             *)
THEOREM SendInductive == Spec => []SendInv
<1>1. Init => SendInv
  <2> SUFFICES ASSUME Init PROVE SendInv
    OBVIOUS
  <2>1. (CHOOSE i \in Ids : TRUE) \in Ids
    BY PinAssumption
  <2> QED
    BY <2>1, BoundAssumption DEF Init, SendInv, SendTypes, CallShape, HoldsMutex,
       WindowIdle, UnsentFresh, Holding, PendingPosted, Points, Ops
<1>2. SendInv /\ [Next]_vars => SendInv'
  <2> SUFFICES ASSUME SendInv, [Next]_vars PROVE SendInv'
    OBVIOUS
  <2>1. ASSUME UNCHANGED sendVars PROVE SendInv'
    BY <2>1 DEF sendVars, SendInv, SendTypes, CallShape, HoldsMutex, WindowIdle,
       UnsentFresh, Holding, PendingPosted
  <2>2. CASE Isr
    BY <2>1, <2>2 DEF Isr, IsrReceive, IsrClear, IsrNotify, sendVars, local,
       sendq, remote
  <2>3. ASSUME NEW i \in Ids, RemoteTake(i) PROVE SendInv'
    <3> USE <2>3 DEF RemoteTake, local, SendInv
    <3>1. slot[i] \in posted \ taken
      BY DEF PendingPosted
    <3>2. SendTypes'
      BY <3>1 DEF SendTypes
    <3>3. CallShape' /\ HoldsMutex' /\ WindowIdle'
      BY DEF SendTypes, CallShape, HoldsMutex, WindowIdle
    <3>4. UnsentFresh'
      BY DEF UnsentFresh, Holding
    <3>5. PendingPosted'
      BY <3>1 DEF SendTypes, PendingPosted
    <3> QED BY <3>2, <3>3, <3>4, <3>5
  <2>4. ASSUME NEW i \in Ids, RemoteAnswer(i) \/ RemoteSend(i) PROVE SendInv'
    BY <2>1, <2>4 DEF RemoteAnswer, RemoteSend, sendVars, local, sendq
  <2>5. CASE UNCHANGED vars
    BY <2>1, <2>5 DEF vars, sendVars
  <2> QED
    BY <2>2, <2>3, <2>4, <2>5, CallStep, RunStep DEF Next, Remote
<1> QED BY <1>1, <1>2, PTL DEF Spec

(* A message pending on a pin is intact: it was posted and not yet taken,  *)
(* and nobody is between the busy test and the trigger of the pin.         *)
THEOREM PendingIntactHolds == Spec => []PendingIntact
<1>1. SendInv => PendingIntact
  BY DEF SendInv, PendingPosted, WindowIdle, PendingIntact
<1> QED BY <1>1, SendInductive, PTL

(* Two tasks never write one pin at the same time.                         *)
THEOREM OneWriterHolds == Spec => []OneWriter
<1>1. SendInv => OneWriter
  BY OneCall DEF SendInv, OneWriter
<1> QED BY <1>1, SendInductive, PTL

(* A pending slot holds a message. *)
LEMMA PendingNotNone ==
  ASSUME SendInv, NEW i \in Ids, busy[i]
  PROVE  slot[i] # None
<1>1. slot[i] \in posted /\ posted \subseteq Messages
  BY DEF SendInv, SendTypes, PendingPosted
<1>2. None \notin Messages
  BY MarkAssumption, BoundAssumption DEF Messages
<1> QED BY <1>1, <1>2

(* The send pins implement the one-place mailboxes: every step of the      *)
(* drivers puts one new message into an empty place, takes one, or leaves  *)
(* all places alone.                                                       *)
THEOREM ImplementsMailbox == Spec => MailboxSpec
<1> DEFINE box == [i \in Ids |-> IF busy[i] THEN slot[i] ELSE None]
<1>1. Init => Box!Init
  BY DEF Init, Box!Init
<1>2. SendInv /\ [Next]_vars => [Box!Next]_<<box, posted, taken>>
  <2> SUFFICES ASSUME SendInv, [Next]_vars
               PROVE  Box!Next \/ UNCHANGED <<box, posted, taken>>
    OBVIOUS
  <2> USE DEF SendInv
  <2>0. ASSUME UNCHANGED <<slot, busy, posted, taken>>
        PROVE  UNCHANGED <<box, posted, taken>>
    BY <2>0
  <2>1. ASSUME NEW t \in Tasks, TriggerIrq(t) PROVE Box!Next
    <3> USE <2>1 DEF TriggerIrq, At, remote
    <3>1. /\ id[t] \in Ids /\ ~busy[id[t]] /\ slot[id[t]] = msg[t]
          /\ msg[t] \in Messages \ posted
      BY DEF WindowIdle, UnsentFresh, Holding, SendTypes
    <3> PICK i \in Ids, m \in Messages : i = id[t] /\ m = msg[t]
      BY <3>1
    <3>2. Box!Put(i, m)
      BY <3>1 DEF Box!Put, SendTypes
    <3> QED BY <3>2 DEF Box!Next
  <2>2. ASSUME NEW t \in Tasks, WriteSlot(t) PROVE UNCHANGED <<box, posted, taken>>
    <3> USE <2>2 DEF WriteSlot, At, remote
    <3>1. id[t] \in Ids /\ ~busy[id[t]]
      BY DEF WindowIdle, SendTypes
    <3> QED BY <3>1 DEF SendTypes
  <2>3. ASSUME NEW t \in Tasks, Call(t) PROVE UNCHANGED <<box, posted, taken>>
    BY <2>0, <2>3 DEF Call, CallSend, CallUnavailable, CallRegister, CallRecv,
       CallReply, Start, sendq, remote
  <2>4. ASSUME NEW t \in Tasks, Run(t), ~TriggerIrq(t), ~WriteSlot(t)
        PROVE  UNCHANGED <<box, posted, taken>>
    BY <2>0, <2>4 DEF Run, TakeMutex, CheckPin, AwaitAck, GiveMutex, TakeNotify,
       TestCallback, CallCallback, EndCallback, TakeRegMutex, StoreCallback,
       StoreBuffer, StorePrdata, GiveRegMutex, sendq, remote
  <2>5. CASE Isr
    BY <2>0, <2>5 DEF Isr, IsrReceive, IsrClear, IsrNotify, sendq, remote
  <2>6. ASSUME NEW i \in Ids, RemoteTake(i) PROVE Box!Next
    <3> USE <2>6 DEF RemoteTake
    <3>2. slot[i] # None
      BY PendingNotNone
    <3>3. Box!Take(i)
      BY <3>2 DEF Box!Take, SendTypes
    <3> QED BY <3>3 DEF Box!Next
  <2>7. ASSUME NEW i \in Ids, RemoteAnswer(i) \/ RemoteSend(i)
        PROVE  UNCHANGED <<box, posted, taken>>
    BY <2>0, <2>7 DEF RemoteAnswer, RemoteSend, sendq
  <2>8. CASE UNCHANGED vars
    BY <2>0, <2>8 DEF vars
  <2> QED
    BY <2>1, <2>2, <2>3, <2>4, <2>5, <2>6, <2>7, <2>8 DEF Next, Remote
<1> QED BY <1>1, <1>2, SendInductive, PTL DEF Spec, MailboxSpec, Box!Spec

----------------------------------------------------------------------------
(* Appending to the history of one id keeps the type of all histories.     *)
LEMMA AppendTyped ==
  ASSUME NEW S, NEW f \in [Ids -> Seq(S)], NEW i \in Ids, NEW e \in S
  PROVE  [f EXCEPT ![i] = Append(@, e)] \in [Ids -> Seq(S)]
<1>1. Append(f[i], e) \in Seq(S)
  OBVIOUS
<1> QED BY <1>1

(* Every variable keeps its type in every reachable state.                 *)
THEOREM TypeCorrect == Spec => []TypeOK
<1> USE DEF TypeOK
<1>1. Init => RecvTypes
  <2> SUFFICES ASSUME Init PROVE RecvTypes
    OBVIOUS
  <2> USE DEF Init, RecvTypes, Incoming
  <2>1. owed \in [Ids -> Seq(Messages \union {None})]
    OBVIOUS
  <2>2. handled \in [Ids -> Seq([set : BOOLEAN, msg : Incoming])]
    OBVIOUS
  <2>3. isr \in [at : {"off", "clear", "notify"}, status : SUBSET RecvPins]
    OBVIOUS
  <2> QED BY <2>1, <2>2, <2>3, BoundAssumption DEF Results
<1>2. SendTypes /\ RecvTypes /\ [Next]_vars => RecvTypes'
  <2> SUFFICES ASSUME SendTypes, RecvTypes, [Next]_vars PROVE RecvTypes'
    OBVIOUS
  <2> USE DEF RecvTypes, local, recvq, reg, remote
  <2>1. ASSUME NEW t \in Tasks, Call(t) PROVE RecvTypes'
    <3> PICK i \in Ids : \/ \E o \in Ops : CallSend(t, o, i) \/ CallUnavailable(t, o, i)
                                           \/ CallRegister(t, o, i)
                         \/ CallRecv(t, i)
                         \/ CallReply(t, i)
      BY <2>1 DEF Call
    <3>1. CASE \E o \in Ops : CallSend(t, o, i)
      <4>1. retry' \in [Tasks -> Nat]
        BY <3>1, BoundAssumption DEF CallSend
      <4>2. res' \in [Tasks -> Results]
        BY <3>1 DEF CallSend, Start, Results
      <4> QED BY <3>1, <4>1, <4>2 DEF CallSend
    <3>2. CASE \E o \in Ops : CallUnavailable(t, o, i) \/ CallRegister(t, o, i)
      BY <3>2 DEF CallUnavailable, CallRegister, Start, Results
    <3>3. CASE CallRecv(t, i)
      BY <3>3 DEF CallRecv, Start, Results
    <3>4. CASE CallReply(t, i)
      BY <3>4 DEF CallReply, Start, Results
    <3> QED BY <3>1, <3>2, <3>3, <3>4
  <2>2. ASSUME NEW t \in Tasks, Run(t) PROVE RecvTypes'
    <3>1. CASE TakeMutex(t) \/ WriteSlot(t) \/ GiveMutex(t)
      BY <3>1 DEF TakeMutex, WriteSlot, GiveMutex
    <3>2. CASE CheckPin(t)
      <4>1. retry' \in [Tasks -> Nat]
        BY <3>2 DEF CheckPin
      <4>2. res' \in [Tasks -> Results]
        BY <3>2 DEF CheckPin, Finish, Results
      <4> QED BY <3>2, <4>1, <4>2 DEF CheckPin
    <3>3. CASE TriggerIrq(t)
      BY <3>3 DEF TriggerIrq, Finish, Results
    <3>4. CASE AwaitAck(t)
      BY <3>4 DEF AwaitAck, Finish, Results, SendTypes
    <3>5. CASE TakeNotify(t)
      BY <3>5 DEF TakeNotify, SendTypes
    <3>6. CASE TestCallback(t) \/ EndCallback(t)
      BY <3>6 DEF TestCallback, EndCallback, AfterRecv, Results
    <3>7. CASE CallCallback(t)
      <4> USE <3>7 DEF CallCallback
      <4>1. id[t] \in Ids
        BY DEF SendTypes
      <4>2. Received(id[t]) \in [set : BOOLEAN, msg : Incoming]
        BY <4>1 DEF Received, Incoming
      <4>3. handled' \in [Ids -> Seq([set : BOOLEAN, msg : Incoming])]
        BY <4>1, <4>2, AppendTyped
      <4> QED BY <4>3
    <3>8. CASE TakeRegMutex(t) \/ GiveRegMutex(t)
      BY <3>8 DEF TakeRegMutex, GiveRegMutex, Results
    <3>9. CASE StoreCallback(t) \/ StoreBuffer(t) \/ StorePrdata(t)
      BY <3>9 DEF StoreCallback, StoreBuffer, StorePrdata, SendTypes
    <3> QED
      BY <2>2, <3>1, <3>2, <3>3, <3>4, <3>5, <3>6, <3>7, <3>8, <3>9 DEF Run
  <2>3. CASE IsrReceive
    <3> USE <2>3 DEF IsrReceive
    <3>1. data' \in [Ids -> Incoming]
      OBVIOUS
    <3>2. answered' \subseteq Incoming
      BY PinAssumption
    <3>3. isr' \in [at : {"off", "clear", "notify"}, status : SUBSET RecvPins]
      OBVIOUS
    <3>4. handled' \in [Ids -> Seq([set : BOOLEAN, msg : Incoming])]
      <4> SUFFICES ASSUME NEW i \in Ids
                   PROVE  handled'[i] \in Seq([set : BOOLEAN, msg : Incoming])
        OBVIOUS
      <4> DEFINE e == [set |-> buf[i] /\ prdata[i],
                       msg |-> IF buf[i] THEN data'[i] ELSE None]
      <4>1. e \in [set : BOOLEAN, msg : Incoming]
        BY <3>1 DEF Incoming
      <4>2. handled'[i] = handled[i] \/ handled'[i] = Append(handled[i], e)
        OBVIOUS
      <4>3. handled[i] \in Seq([set : BOOLEAN, msg : Incoming])
        OBVIOUS
      <4> HIDE DEF e
      <4>4. Append(handled[i], e) \in Seq([set : BOOLEAN, msg : Incoming])
        BY <4>1, <4>3
      <4> QED BY <4>2, <4>3, <4>4
    <3> QED BY <3>1, <3>2, <3>3, <3>4
  <2>4. CASE IsrClear
    BY <2>4, PinAssumption DEF IsrClear
  <2>5. CASE IsrNotify
    BY <2>5 DEF IsrNotify
  <2>6. ASSUME NEW i \in Ids, RemoteTake(i) PROVE RecvTypes'
    <3>1. owed' \in [Ids -> Seq(Messages \union {None})]
      BY <2>6, AppendTyped DEF RemoteTake, SendTypes
    <3> QED BY <2>6, <3>1 DEF RemoteTake
  <2>7. ASSUME NEW i \in Ids, RemoteAnswer(i) PROVE RecvTypes'
    <3> USE <2>7 DEF RemoteAnswer
    <3>1. /\ Head(owed[i]) \in Messages \union {None}
          /\ Tail(owed[i]) \in Seq(Messages \union {None})
      OBVIOUS
    <3> QED BY <3>1 DEF Incoming
  <2>8. ASSUME NEW i \in Ids, RemoteSend(i) PROVE RecvTypes'
    <3> USE <2>8 DEF RemoteSend
    <3>1. rsent' \in 0..MaxRemote /\ rslot' \in [Ids -> Incoming]
      BY BoundAssumption DEF Incoming
    <3>2. roversize' \in [Ids -> BOOLEAN]
      OBVIOUS
    <3> QED BY <3>1, <3>2
  <2>9. CASE UNCHANGED vars
    BY <2>9 DEF vars
  <2> QED
    BY <2>1, <2>2, <2>3, <2>4, <2>5, <2>6, <2>7, <2>8, <2>9
    DEF Next, Isr, Remote
<1>3. SendInv => SendTypes
  BY DEF SendInv
<1> QED BY <1>1, <1>2, <1>3, SendInductive, PTL DEF Spec

----------------------------------------------------------------------------
(* The receive side: registrations, callbacks and answers.                 *)

Plain == Points \ {"reglock", "stcb", "stbuf", "stprdata", "regunlock"}

(* What the steps of sending and receiving calls leave alone.              *)
LEMMA PlainStep ==
  ASSUME TypeOK, NEW t \in Tasks, Run(t),
         ~(TakeRegMutex(t) \/ StoreCallback(t) \/ StoreBuffer(t) \/ StorePrdata(t)
           \/ GiveRegMutex(t))
  PROVE  /\ pc[t] \in Plain
         /\ \E p \in Plain : pc' = [pc EXCEPT ![t] = p]
         /\ UNCHANGED <<op, id, cb, buf, prdata, regMutex>>
<1> USE DEF Plain, Points, At, Go, Finish, reg, recvq, remote, sendq
<1>1. CASE TakeMutex(t) \/ WriteSlot(t) \/ GiveMutex(t)
  BY <1>1 DEF TakeMutex, WriteSlot, GiveMutex
<1>2. CASE CheckPin(t)
  <2>1. pc[t] = "check" /\ UNCHANGED <<op, id, cb, buf, prdata, regMutex>>
    BY <1>2 DEF CheckPin
  <2>2. \E p \in {"write", "unlock", "idle", "check"} : pc' = [pc EXCEPT ![t] = p]
    BY <1>2, <2>1 DEF CheckPin, TypeOK, SendTypes
  <2> QED BY <2>1, <2>2
<1>3. CASE TriggerIrq(t)
  BY <1>3 DEF TriggerIrq
<1>4. CASE AwaitAck(t)
  BY <1>4 DEF AwaitAck
<1>5. CASE TakeNotify(t) \/ CallCallback(t)
  BY <1>5 DEF TakeNotify, CallCallback
<1>6. CASE TestCallback(t) \/ EndCallback(t)
  BY <1>6 DEF TestCallback, EndCallback, AfterRecv
<1> QED BY <1>1, <1>2, <1>3, <1>4, <1>5, <1>6 DEF Run

(* What the interrupt and the remote processor leave alone.                *)
LEMMA OutsideStep ==
  ASSUME Isr \/ \E i \in Ids : Remote(i)
  PROVE  UNCHANGED <<pc, op, id, msg, retry, res, mutex, cb, buf, prdata, regMutex, sent>>
  BY DEF Isr, IsrReceive, IsrClear, IsrNotify, Remote, RemoteTake, RemoteAnswer,
     RemoteSend, local, reg, remote

(* A step of one task between points that are not about registrations.     *)
LEMMA RegPlain ==
  ASSUME TypeOK, RegInv, NEW t \in Tasks, NEW p \in Plain,
         pc[t] \in Plain, pc' = [pc EXCEPT ![t] = p],
         UNCHANGED <<cb, buf, prdata, regMutex>>,
         \A s \in Tasks \ {t} : op'[s] = op[s] /\ id'[s] = id[s]
  PROVE  RegInv'
<1>1. \A s \in Tasks : pc'[s] # pc[s] \/ id'[s] # id[s] \/ op'[s] # op[s] =>
        pc[s] \in Plain /\ pc'[s] \in Plain
  BY DEF TypeOK, SendTypes
<1> QED BY <1>1 DEF RegInv, Storing, Plain

(* The registration in progress says which fields are new.                 *)
LEMMA RegStep ==
  ASSUME TypeOK, RegInv, [Next]_vars
  PROVE  RegInv'
<1> USE DEF TypeOK, SendTypes, RecvTypes
<1>1. ASSUME NEW t \in Tasks, Call(t) PROVE RegInv'
  <2> PICK i \in Ids : \/ \E o \in Ops : CallSend(t, o, i) \/ CallUnavailable(t, o, i)
                                         \/ CallRegister(t, o, i)
                       \/ CallRecv(t, i)
                       \/ CallReply(t, i)
    BY <1>1 DEF Call
  <2>1. CASE (\E o \in Ops : CallSend(t, o, i)) \/ CallRecv(t, i) \/ CallReply(t, i)
    <3>1. /\ pc[t] \in Plain
          /\ \E p \in Plain : pc' = [pc EXCEPT ![t] = p]
          /\ UNCHANGED <<cb, buf, prdata, regMutex>>
          /\ \A s \in Tasks \ {t} : op'[s] = op[s] /\ id'[s] = id[s]
      BY <2>1 DEF CallSend, CallRecv, CallReply, Start, At, Go, reg, Plain, Points
    <3> QED BY <3>1, RegPlain
  <2>2. ASSUME NEW o \in Ops, CallUnavailable(t, o, i) PROVE RegInv'
    BY <2>2 DEF CallUnavailable, reg, RegInv, Storing
  <2>3. ASSUME NEW o \in Ops, CallRegister(t, o, i) PROVE RegInv'
    <3> USE <2>3 DEF CallRegister, Start, At, Go, reg
    <3>1. /\ pc[t] = "idle" /\ pc'[t] = "reglock" /\ op'[t] \in {"reg", "unreg"}
          /\ \A s \in Tasks \ {t} : pc'[s] = pc[s] /\ op'[s] = op[s] /\ id'[s] = id[s]
      OBVIOUS
    <3> QED BY <3>1 DEF RegInv, Storing
  <2> QED BY <2>1, <2>2, <2>3
<1>2. ASSUME NEW t \in Tasks, TakeRegMutex(t) PROVE RegInv'
  <2> USE <1>2 DEF TakeRegMutex, At, Go, reg
  <2>1. /\ pc[t] = "reglock" /\ pc'[t] \in {"stcb", "regunlock"} /\ regMutex' = t
        /\ \A s \in Tasks \ {t} : pc'[s] = pc[s]
        /\ UNCHANGED <<op, id, cb, buf, prdata>>
    OBVIOUS
  <2>2. \A s \in Tasks : ~Storing(s)
    BY MarkAssumption DEF RegInv
  <2> QED BY <2>1, <2>2 DEF RegInv, Storing
<1>3. ASSUME NEW t \in Tasks,
             StoreCallback(t) \/ StoreBuffer(t) \/ StorePrdata(t) \/ GiveRegMutex(t)
      PROVE  RegInv'
  <2>1. Storing(t) /\ UNCHANGED <<op, id>> /\ \A s \in Tasks \ {t} : pc'[s] = pc[s]
    BY <1>3 DEF StoreCallback, StoreBuffer, StorePrdata, GiveRegMutex, At, Go, Storing
  <2>2. \A s \in Tasks \ {t} : ~Storing(s)
    BY <2>1 DEF RegInv
  <2>3. CASE StoreCallback(t)
    BY <2>1, <2>2, <2>3 DEF StoreCallback, At, Go, RegInv, Storing
  <2>4. CASE StoreBuffer(t)
    BY <2>1, <2>2, <2>4 DEF StoreBuffer, At, Go, RegInv, Storing
  <2>5. CASE StorePrdata(t)
    BY <2>1, <2>2, <2>5 DEF StorePrdata, At, Go, RegInv, Storing
  <2>6. CASE GiveRegMutex(t)
    BY <2>1, <2>2, <2>6 DEF GiveRegMutex, At, Go, reg, RegInv, Storing
  <2> QED BY <1>3, <2>3, <2>4, <2>5, <2>6
<1>4. ASSUME NEW t \in Tasks, Run(t),
             ~(TakeRegMutex(t) \/ StoreCallback(t) \/ StoreBuffer(t) \/ StorePrdata(t)
               \/ GiveRegMutex(t))
      PROVE  RegInv'
  BY <1>4, PlainStep, RegPlain
<1>5. ASSUME UNCHANGED <<pc, op, id, cb, buf, prdata, regMutex>> PROVE RegInv'
  BY <1>5 DEF RegInv, Storing
<1>6. CASE Isr \/ \E i \in Ids : Remote(i)
  BY <1>5, <1>6, OutsideStep
<1>7. CASE UNCHANGED vars
  BY <1>5, <1>7 DEF vars
<1> QED BY <1>1, <1>2, <1>3, <1>4, <1>6, <1>7 DEF Next, Run

(* The registration in progress is known in every reachable state.         *)
LEMMA RegInductive == Spec => []RegInv
<1>1. Init => RegInv
  BY PinAssumption DEF Init, RegInv, Storing
<1>2. TypeOK /\ RegInv /\ [Next]_vars => RegInv'
  BY RegStep
<1> QED BY <1>1, <1>2, TypeCorrect, PTL DEF Spec

(* Outside mutex_ipi_reg a pin has callback, buffer and private data or    *)
(* none of them, whatever tasks register and unregister at the same time.  *)
THEOREM RegistrationWholeHolds == Spec => []RegistrationWhole
<1>1. RegInv => RegistrationWhole
  BY MarkAssumption DEF RegInv, RegistrationWhole, Storing
<1> QED BY <1>1, RegInductive, PTL

(* A pin that nobody registers or unregisters keeps what it had at boot.   *)
LEMMA KeptInductive == Spec => []KeptSet
<1>1. Init => KeptSet
  BY PinAssumption DEF Init, KeptSet, Kept, Registered
<1>2. TypeOK /\ SendInv /\ RegInv /\ KeptSet /\ [Next]_vars => KeptSet'
  <2> SUFFICES ASSUME TypeOK, SendInv, RegInv, KeptSet, [Next]_vars PROVE KeptSet'
    OBVIOUS
  <2> USE DEF TypeOK, SendTypes, RecvTypes
  <2>1. ASSUME UNCHANGED <<cb, buf, prdata>> PROVE KeptSet'
    BY <2>1 DEF KeptSet
  <2>2. ASSUME NEW t \in Tasks, StoreCallback(t) \/ StoreBuffer(t) \/ StorePrdata(t)
        PROVE  KeptSet'
    <3>1. Storing(t) /\ pc[t] # "idle"
      BY <2>2 DEF StoreCallback, StoreBuffer, StorePrdata, At, Storing
    <3>2. id[t] \notin Kept
      BY <3>1 DEF RegInv, SendInv, CallShape, Kept
    <3>3. \A i \in Kept : cb'[i] = cb[i] /\ buf'[i] = buf[i] /\ prdata'[i] = prdata[i]
      BY <2>2, <3>2, PinAssumption DEF StoreCallback, StoreBuffer, StorePrdata, Kept
    <3> QED BY <3>3 DEF KeptSet, Registered
  <2>3. ASSUME NEW t \in Tasks, Call(t) PROVE UNCHANGED <<cb, buf, prdata>>
    BY <2>3 DEF Call, CallSend, CallUnavailable, CallRegister, CallRecv, CallReply, reg
  <2>4. ASSUME NEW t \in Tasks, TakeRegMutex(t) \/ GiveRegMutex(t)
        PROVE  UNCHANGED <<cb, buf, prdata>>
    BY <2>4 DEF TakeRegMutex, GiveRegMutex, reg
  <2>5. CASE Isr \/ \E i \in Ids : Remote(i)
    BY <2>1, <2>5, OutsideStep
  <2>6. CASE UNCHANGED vars
    BY <2>1, <2>6 DEF vars
  <2>7. ASSUME NEW t \in Tasks, Run(t) PROVE KeptSet'
    BY <2>1, <2>2, <2>4, <2>7, PlainStep
  <2> QED BY <2>1, <2>3, <2>5, <2>6, <2>7 DEF Next
<1> QED BY <1>1, <1>2, TypeCorrect, SendInductive, RegInductive, PTL DEF Spec

(* What the tasks leave alone of what lies on the receive pins.            *)
LEMMA TaskLeaves ==
  ASSUME \E t \in Tasks : Call(t) \/ Run(t)
  PROVE  UNCHANGED <<rslot, rbusy, roversize, data, isr, owed, rsent, taken, answered>>
<1> USE DEF recvq, remote
<1>1. ASSUME NEW t \in Tasks, Call(t)
      PROVE  UNCHANGED <<rslot, rbusy, roversize, data, isr, owed, rsent, taken, answered>>
  BY <1>1 DEF Call, CallSend, CallUnavailable, CallRegister, CallRecv, CallReply
<1>2. ASSUME NEW t \in Tasks, Run(t)
      PROVE  UNCHANGED <<rslot, rbusy, roversize, data, isr, owed, rsent, taken, answered>>
  BY <1>2 DEF Run, TakeMutex, CheckPin, WriteSlot, TriggerIrq, AwaitAck, GiveMutex,
     TakeNotify, TestCallback, CallCallback, EndCallback, TakeRegMutex, StoreCallback,
     StoreBuffer, StorePrdata, GiveRegMutex
<1> QED BY <1>1, <1>2

(* A task that reaches its callback came from the test of cb_ctx_opt.      *)
LEMMA CallingKept ==
  ASSUME TypeOK, PinInv, NEW t \in Tasks, Call(t) \/ Run(t)
  PROVE  \A s \in Tasks : pc'[s] = "call" => id'[s] \notin IrqPins
<1> USE DEF TypeOK, SendTypes, At, Go, PinInv
<1>1. CASE Call(t)
  BY <1>1 DEF Call, CallSend, CallUnavailable, CallRegister, CallRecv, CallReply, Start
<1>2. CASE TestCallback(t)
  BY <1>2 DEF TestCallback, AfterRecv
<1>3. CASE Run(t) /\ ~TestCallback(t)
  <2>1. CASE TakeMutex(t) \/ WriteSlot(t) \/ GiveMutex(t) \/ TakeNotify(t) \/ CallCallback(t)
             \/ GiveRegMutex(t) \/ TakeRegMutex(t)
    BY <2>1 DEF TakeMutex, WriteSlot, GiveMutex, TakeNotify, CallCallback, GiveRegMutex,
       TakeRegMutex
  <2>2. CASE CheckPin(t) \/ TriggerIrq(t) \/ AwaitAck(t)
    BY <2>2 DEF CheckPin, TriggerIrq, AwaitAck, Finish
  <2>3. CASE EndCallback(t)
    BY <2>3 DEF EndCallback, AfterRecv
  <2>4. CASE StoreCallback(t) \/ StoreBuffer(t) \/ StorePrdata(t)
    BY <2>4 DEF StoreCallback, StoreBuffer, StorePrdata
  <2> QED BY <1>3, <2>1, <2>2, <2>3, <2>4 DEF Run
<1> QED BY <1>1, <1>2, <1>3

(* What lies on the receive pins came from the remote in its order.        *)
LEMMA PinStep ==
  ASSUME TypeOK, PinInv, [Next]_vars
  PROVE  PinInv'
<1> USE PinAssumption DEF TypeOK, SendTypes, RecvTypes
<1>1. ASSUME NEW t \in Tasks, Call(t) \/ Run(t) PROVE PinInv'
  BY <1>1, TaskLeaves, CallingKept DEF PinInv
<1>2. CASE IsrReceive
  BY <1>2 DEF IsrReceive, PinInv, local, recvq, remote
<1>3. CASE IsrClear
  BY <1>3 DEF IsrClear, PinInv, local, remote
<1>4. CASE IsrNotify
  BY <1>4 DEF IsrNotify, PinInv, local, recvq, remote
<1>5. ASSUME NEW i \in Ids, RemoteTake(i) PROVE PinInv'
  BY <1>5 DEF RemoteTake, PinInv, local, recvq
<1>6. ASSUME NEW i \in Ids, RemoteAnswer(i) PROVE PinInv'
  <2>1. i \notin MessagePins
    BY <1>6 DEF RemoteAnswer, PinInv
  <2> QED BY <1>6, <2>1 DEF RemoteAnswer, PinInv, local
<1>7. ASSUME NEW i \in Ids, RemoteSend(i) PROVE PinInv'
  <2> USE <1>7 DEF RemoteSend, local
  <2>1. rsent \in Nat /\ rsent' = rsent + 1 /\ rslot'[i] = rsent + 1 /\ rslot'[i] # None
    BY MarkAssumption, BoundAssumption
  <2>2. \A j \in MessagePins :
          /\ rslot'[j] \in (1..rsent') \union {None}
          /\ rbusy'[j] => rslot'[j] # None
    BY <2>1 DEF PinInv
  <2>3. \A j \in Ids : roversize'[j] => QueueMode /\ j \in MessagePins
    BY OptionAssumption DEF PinInv
  <2>4. \A j \in Ids : rbusy[j] => rbusy'[j]
    OBVIOUS
  <2> QED BY <2>2, <2>3, <2>4 DEF PinInv
<1>8. CASE UNCHANGED vars
  BY <1>8 DEF vars, PinInv
<1> QED BY <1>1, <1>2, <1>3, <1>4, <1>5, <1>6, <1>7, <1>8 DEF Next, Isr, Remote

(* The receive pins hold what the remote sent, in every reachable state.   *)
LEMMA PinInductive == Spec => []PinInv
<1>1. Init => PinInv
  BY PinAssumption DEF Init, PinInv
<1>2. TypeOK /\ PinInv /\ [Next]_vars => PinInv'
  BY PinStep
<1> QED BY <1>1, <1>2, TypeCorrect, PTL DEF Spec

(* A sequence with one element more.                                       *)
LEMMA Appended ==
  ASSUME NEW S, NEW s \in Seq(S), NEW e \in S
  PROVE  /\ \A n \in DOMAIN Append(s, e) :
              \/ n \in DOMAIN s /\ Append(s, e)[n] = s[n]
              \/ n = Len(s) + 1 /\ Append(s, e)[n] = e
         /\ \A n \in DOMAIN s : n \in DOMAIN Append(s, e) /\ n < Len(s) + 1
         /\ Len(s) + 1 \in DOMAIN Append(s, e) /\ Append(s, e)[Len(s) + 1] = e
         /\ Append(s, e) # <<>> /\ Len(Append(s, e)) = Len(s) + 1
         /\ DOMAIN s \subseteq Nat /\ Len(s) \in Nat
  OBVIOUS

(* Messages are numbers, and what callbacks were told has that type.       *)
LEMMA MessageTypes ==
  ASSUME TypeOK, NEW i \in Ids
  PROVE  /\ rslot[i] # None => rslot[i] \in Nat
         /\ data[i] # None => data[i] \in Nat
         /\ handled[i] \in Seq([set : BOOLEAN, msg : Incoming])
         /\ DOMAIN handled[i] \subseteq Nat
         /\ \A n \in DOMAIN handled[i] :
              /\ handled[i][n] \in [set : BOOLEAN, msg : Incoming]
              /\ handled[i][n].msg # None => handled[i][n].msg \in Nat
         /\ Received(i) \in [set : BOOLEAN, msg : Incoming]
<1>1. \A m \in Incoming : m # None => m \in Nat
  BY BoundAssumption DEF Incoming, Messages
<1>2. handled[i] \in Seq([set : BOOLEAN, msg : Incoming])
  BY DEF TypeOK, RecvTypes
<1>3. ASSUME NEW n \in DOMAIN handled[i]
      PROVE  handled[i][n] \in [set : BOOLEAN, msg : Incoming]
  <2> DEFINE S == [set : BOOLEAN, msg : Incoming]
  <2>1. handled[i] \in Seq(S)
    BY <1>2
  <2> HIDE DEF S
  <2>2. handled[i][n] \in S
    BY <2>1
  <2> QED BY <2>2 DEF S
<1>4. Received(i) \in [set : BOOLEAN, msg : Incoming]
  BY DEF Received, TypeOK, RecvTypes, Incoming
<1> QED BY <1>1, <1>2, <1>3, <1>4 DEF TypeOK, RecvTypes

(* Only the test of a callback of task context leads to its call.          *)
LEMMA TaskHandles ==
  ASSUME TypeOK, PinInv, NEW t \in Tasks, Call(t) \/ Run(t), NEW i \in Ids
  PROVE  \/ handled'[i] = handled[i]
         \/ i \notin IrqPins /\ CallCallback(t) /\ i = id[t]
<1>1. CASE Call(t)
  BY <1>1 DEF Call, CallSend, CallUnavailable, CallRegister, CallRecv, CallReply
<1>2. CASE CallCallback(t)
  BY <1>2 DEF CallCallback, At, PinInv, TypeOK, RecvTypes
<1>3. CASE Run(t) /\ ~CallCallback(t)
  BY <1>3 DEF Run, TakeMutex, CheckPin, WriteSlot, TriggerIrq, AwaitAck, GiveMutex,
     TakeNotify, TestCallback, EndCallback, TakeRegMutex, StoreCallback,
     StoreBuffer, StorePrdata, GiveRegMutex
<1> QED BY <1>1, <1>2, <1>3

(* A pin on which nothing moves stays in order.                            *)
LEMMA SeenSame ==
  ASSUME NEW i \in Ids, SeenInOrder(i), handled'[i] = handled[i], rslot'[i] = rslot[i],
         roversize'[i] = roversize[i], Waits(i)' = Waits(i)
  PROVE  SeenInOrder(i)'
  BY DEF SeenInOrder

(* The interrupt handler takes what waits, and its callback is told.       *)
LEMMA SeenReceive ==
  ASSUME TypeOK, PinInv, KeptSet, IsrReceive, NEW i \in Registered \cap IrqPins,
         SeenInOrder(i)
  PROVE  SeenInOrder(i)'
<1> USE DEF IsrReceive, recvq, local
<1>0. i \in Ids /\ i \in RecvPins /\ i \in MessagePins /\ cb[i] /\ buf[i] /\ prdata[i]
  BY PinAssumption DEF Registered, Kept, KeptSet
<1>1. ~Waits(i)' /\ rslot'[i] = rslot[i] /\ roversize'[i] = roversize[i]
  BY <1>0 DEF Waits
<1>2. CASE ~rbusy[i]
  <2>1. handled'[i] = handled[i]
    BY <1>0, <1>2
  <2>2. Waits(i)' = Waits(i)
    BY <1>0, <1>2, <1>1 DEF Waits, TypeOK, RecvTypes
  <2> QED BY <1>0, <1>1, <2>1, <2>2, SeenSame
<1>3. CASE rbusy[i] /\ QueueMode /\ roversize[i]
  <2>1. handled'[i] = handled[i]
    BY <1>0, <1>3
  <2> QED BY <1>1, <1>3, <2>1 DEF SeenInOrder
<1>4. CASE rbusy[i] /\ ~(QueueMode /\ roversize[i])
  <2> DEFINE e == [set |-> buf[i] /\ prdata[i], msg |-> rslot[i]]
  <2>1. handled'[i] = Append(handled[i], e)
    BY <1>0, <1>4
  <2>2. Waits(i) /\ rslot[i] # None /\ rslot[i] \in Nat
    BY <1>0, <1>4, MessageTypes DEF Waits, PinInv
  <2>3. e \in [set : BOOLEAN, msg : Incoming] /\ e.msg = rslot[i]
    BY <1>0 DEF TypeOK, RecvTypes
  <2> HIDE DEF e
  <2>4. /\ \A n \in DOMAIN handled'[i] :
              \/ n \in DOMAIN handled[i] /\ handled'[i][n] = handled[i][n]
              \/ n = Len(handled[i]) + 1 /\ handled'[i][n] = e
        /\ \A n \in DOMAIN handled[i] : n < Len(handled[i]) + 1
        /\ Len(handled[i]) + 1 \in DOMAIN handled'[i]
        /\ handled'[i][Len(handled[i]) + 1] = e
        /\ DOMAIN handled[i] \subseteq Nat /\ Len(handled[i]) \in Nat
    BY <1>0, <2>1, <2>3, MessageTypes, Appended
  <2>5. \A n \in DOMAIN handled[i] :
          handled[i][n].msg \in Nat /\ handled[i][n].msg < rslot[i]
    BY <1>0, <2>2, MessageTypes DEF SeenInOrder
  <2>6. ASSUME NEW n \in DOMAIN handled'[i], NEW m \in DOMAIN handled'[i], m < n
        PROVE  handled'[i][m].msg < handled'[i][n].msg
    BY <2>3, <2>4, <2>5, <2>6 DEF SeenInOrder
  <2>7. \A n \in DOMAIN handled'[i] :
          handled'[i][n].msg # None /\ handled'[i][n].msg <= rslot[i]
    BY <2>2, <2>3, <2>4, <2>5 DEF SeenInOrder
  <2> QED BY <1>1, <2>2, <2>3, <2>4, <2>6, <2>7 DEF SeenInOrder
<1> QED BY <1>2, <1>3, <1>4

(* A message of the remote is newer than all that its pin had.             *)
LEMMA SeenSend ==
  ASSUME TypeOK, PinInv, NEW i \in Registered \cap IrqPins, RemoteSend(i),
         SeenInOrder(i)
  PROVE  SeenInOrder(i)'
<1> USE DEF RemoteSend, local
<1>0. i \in Ids /\ i \in MessagePins
  BY PinAssumption DEF Registered, Kept
<1>1. /\ rsent \in Nat /\ rslot'[i] = rsent + 1 /\ handled'[i] = handled[i]
      /\ rslot'[i] # None
  BY <1>0, BoundAssumption, MarkAssumption DEF TypeOK, RecvTypes
<1>2. Waits(i)'
  BY <1>0 DEF Waits, PinInv, TypeOK, RecvTypes
<1>3. rslot[i] # None => rslot[i] \in 1..rsent
  BY <1>0 DEF PinInv
<1>4. \A n \in DOMAIN handled[i] : handled[i][n].msg \in Nat /\ handled[i][n].msg < rsent + 1
  BY <1>0, <1>1, <1>3, MessageTypes DEF SeenInOrder
<1> QED BY <1>1, <1>2, <1>4 DEF SeenInOrder

(* Callbacks of interrupt context see each message once, in order.         *)
LEMMA IrqStep ==
  ASSUME TypeOK, PinInv, KeptSet, IrqInv, [Next]_vars
  PROVE  IrqInv'
<1> SUFFICES ASSUME NEW i \in Registered \cap IrqPins
             PROVE  SeenInOrder(i)'
  BY DEF IrqInv
<1>0. i \in Ids /\ i \in MessagePins /\ SeenInOrder(i)
  BY PinAssumption DEF Registered, Kept, IrqInv
<1>1. ASSUME NEW t \in Tasks, Call(t) \/ Run(t) PROVE SeenInOrder(i)'
  BY <1>0, <1>1, TaskLeaves, TaskHandles, SeenSame DEF Waits
<1>2. CASE IsrReceive
  BY <1>0, <1>2, SeenReceive
<1>3. CASE IsrClear
  BY <1>0, <1>3, SeenSame DEF IsrClear, Waits, TypeOK, RecvTypes
<1>4. CASE IsrNotify
  BY <1>0, <1>4, SeenSame DEF IsrNotify, Waits, recvq, TypeOK, RecvTypes
<1>5. ASSUME NEW j \in Ids, RemoteTake(j) PROVE SeenInOrder(i)'
  BY <1>0, <1>5, SeenSame DEF RemoteTake, Waits, recvq
<1>6. ASSUME NEW j \in Ids, RemoteAnswer(j) PROVE SeenInOrder(i)'
  <2>1. i # j
    BY <1>0, <1>6 DEF RemoteAnswer, PinInv
  <2> QED BY <1>0, <1>6, <2>1, SeenSame DEF RemoteAnswer, Waits, TypeOK, RecvTypes
<1>7. ASSUME NEW j \in Ids, RemoteSend(j) PROVE SeenInOrder(i)'
  <2>1. CASE i = j
    BY <1>0, <1>7, <2>1, SeenSend
  <2>2. CASE i # j
    BY <1>0, <1>7, <2>2, SeenSame DEF RemoteSend, Waits, TypeOK, RecvTypes
  <2> QED BY <2>1, <2>2
<1>8. CASE UNCHANGED vars
  BY <1>0, <1>8, SeenSame DEF vars, Waits
<1> QED BY <1>1, <1>2, <1>3, <1>4, <1>5, <1>6, <1>7, <1>8 DEF Next, Isr, Remote

(* A callback of interrupt context runs once for every message of the      *)
(* remote whose length is right, in the order it sent them.                *)
THEOREM IrqExactlyOnceHolds == Spec => []IrqExactlyOnce
<1>1. Init => IrqInv
  BY PinAssumption DEF Init, IrqInv, SeenInOrder, Registered, Kept
<1>2. TypeOK /\ PinInv /\ KeptSet /\ IrqInv /\ [Next]_vars => IrqInv'
  BY IrqStep
<1>3. TypeOK /\ IrqInv => IrqExactlyOnce
  <2> SUFFICES ASSUME TypeOK, IrqInv, NEW i \in Registered \cap IrqPins
               PROVE  /\ rslot[i] # None /\ ~roversize[i] =>
                           (rslot[i] \in Handled(i) <=> ~Waits(i))
                      /\ \A m, n \in DOMAIN handled[i] :
                           m < n => handled[i][m].msg < handled[i][n].msg
    BY DEF IrqExactlyOnce, Waits
  <2>0. i \in Ids /\ SeenInOrder(i)
    BY PinAssumption DEF Registered, Kept, IrqInv
  <2>1. ASSUME rslot[i] # None, ~roversize[i], ~Waits(i) PROVE rslot[i] \in Handled(i)
    BY <2>0, <2>1 DEF SeenInOrder, Handled
  <2>2. ASSUME rslot[i] # None, Waits(i) PROVE rslot[i] \notin Handled(i)
    BY <2>0, <2>2, MessageTypes DEF SeenInOrder, Handled
  <2> QED BY <2>0, <2>1, <2>2 DEF SeenInOrder
<1> QED BY <1>1, <1>2, <1>3, TypeCorrect, PinInductive, KeptInductive, PTL DEF Spec

----------------------------------------------------------------------------
(* A pin of task context: what is known of it, and what its callback sees. *)
LEMMA TaskPinTypes ==
  ASSUME TypeOK, KeptSet, NEW i \in TaskPins
  PROVE  /\ i \in Ids /\ i \in RecvPins /\ i \in MessagePins /\ i \notin IrqPins
         /\ cb[i] /\ buf[i] /\ prdata[i]
         /\ Received(i).msg = data[i]
         /\ \A t \in Tasks : <<"compl", i>> \notin Uses[t]
<1>1. i \in Ids /\ i \in RecvPins /\ i \in MessagePins /\ i \notin IrqPins /\ i \in Registered
  BY PinAssumption DEF TaskPins, Registered, Kept
<1>2. cb[i] /\ buf[i] /\ prdata[i]
  BY <1>1 DEF KeptSet, Registered
<1> QED BY <1>1, <1>2 DEF TaskPins, Received

(* What the interrupt copies to the buffer of a task pin.                  *)
LEMMA Copied ==
  ASSUME TypeOK, KeptSet, IsrReceive, NEW i \in TaskPins
  PROVE  /\ handled'[i] = handled[i]
         /\ data'[i] # data[i] => rbusy[i] /\ i \in isr'.status /\ data'[i] = rslot[i]
         /\ isr'.at = "clear"
  BY TaskPinTypes DEF IsrReceive

(* A callback of task context never sees an older message after a newer.   *)
LEMMA ToldStep ==
  ASSUME TypeOK, KeptSet, PinInv, [Next]_vars, NEW i \in TaskPins, ToldInOrder(i)
  PROVE  ToldInOrder(i)'
<1>0. i \in Ids /\ i \in MessagePins /\ i \notin IrqPins
  BY TaskPinTypes
<1>1. ASSUME handled'[i] = handled[i], data'[i] = data[i], rslot'[i] = rslot[i]
      PROVE  ToldInOrder(i)'
  BY <1>1 DEF ToldInOrder
<1>2. ASSUME NEW t \in Tasks, CallCallback(t), i = id[t] PROVE ToldInOrder(i)'
  <2> DEFINE e == Received(i)
  <2>1. handled'[i] = Append(handled[i], e) /\ data' = data /\ rslot' = rslot
    BY <1>0, <1>2 DEF CallCallback, TypeOK, RecvTypes, recvq
  <2>2. e \in [set : BOOLEAN, msg : Incoming] /\ e.msg = data[i]
    BY <1>0, MessageTypes, TaskPinTypes
  <2> HIDE DEF e
  <2>3. /\ \A n \in DOMAIN handled'[i] :
              \/ n \in DOMAIN handled[i] /\ handled'[i][n] = handled[i][n]
              \/ n = Len(handled[i]) + 1 /\ handled'[i][n] = e
        /\ \A n \in DOMAIN handled[i] : n < Len(handled[i]) + 1
        /\ DOMAIN handled[i] \subseteq Nat /\ Len(handled[i]) \in Nat
    BY <1>0, <2>1, <2>2, MessageTypes, Appended
  <2>4. ASSUME NEW n \in DOMAIN handled'[i], handled'[i][n].msg # None
        PROVE  data[i] # None /\ handled'[i][n].msg <= data[i]
    BY <1>0, <2>2, <2>3, <2>4, MessageTypes DEF ToldInOrder
  <2>5. ASSUME NEW n \in DOMAIN handled'[i], NEW k \in DOMAIN handled'[i],
               handled'[i][n].msg # None, n < k
        PROVE  handled'[i][k].msg # None /\ handled'[i][n].msg <= handled'[i][k].msg
    <3>1. n \in DOMAIN handled[i] /\ handled'[i][n] = handled[i][n]
      BY <2>3, <2>5
    <3>2. CASE k \in DOMAIN handled[i] /\ handled'[i][k] = handled[i][k]
      BY <2>5, <3>1, <3>2 DEF ToldInOrder
    <3>3. CASE handled'[i][k] = e
      BY <2>2, <2>4, <2>5, <3>3
    <3> QED BY <2>3, <3>2, <3>3
  <2> QED BY <2>1, <2>4, <2>5 DEF ToldInOrder
<1>3. ASSUME NEW t \in Tasks, Call(t) \/ Run(t) PROVE ToldInOrder(i)'
  BY <1>0, <1>1, <1>2, <1>3, TaskLeaves, TaskHandles
<1>4. CASE IsrReceive
  <2>1. /\ handled'[i] = handled[i] /\ rslot' = rslot
        /\ data'[i] = data[i] \/ (rbusy[i] /\ data'[i] = rslot[i])
    BY <1>4, Copied DEF IsrReceive, recvq
  <2>2. CASE data'[i] = data[i]
    BY <1>1, <2>1, <2>2
  <2>3. CASE rbusy[i] /\ data'[i] = rslot[i]
    <3>1. rslot[i] # None /\ rslot[i] \in Nat
      BY <1>0, <2>3, MessageTypes DEF PinInv
    <3>2. \A n \in DOMAIN handled[i] : handled[i][n].msg # None =>
            handled[i][n].msg \in Nat /\ handled[i][n].msg <= rslot[i]
      BY <1>0, <3>1, MessageTypes DEF ToldInOrder
    <3> QED BY <2>1, <2>3, <3>1, <3>2 DEF ToldInOrder
  <2> QED BY <2>1, <2>2, <2>3
<1>5. CASE IsrClear \/ IsrNotify
  BY <1>1, <1>5 DEF IsrClear, IsrNotify, recvq
<1>6. ASSUME NEW j \in Ids, RemoteTake(j) PROVE ToldInOrder(i)'
  BY <1>1, <1>6 DEF RemoteTake, recvq
<1>7. ASSUME NEW j \in Ids, RemoteAnswer(j) PROVE ToldInOrder(i)'
  <2>1. i # j
    BY <1>0, <1>7 DEF RemoteAnswer, PinInv
  <2> QED BY <1>1, <1>7, <2>1 DEF RemoteAnswer, TypeOK, RecvTypes
<1>8. ASSUME NEW j \in Ids, RemoteSend(j) PROVE ToldInOrder(i)'
  <2> USE <1>8 DEF RemoteSend
  <2>1. CASE i = j
    <3>1. /\ rslot'[i] = rsent + 1 /\ rsent \in Nat /\ rslot'[i] # None
          /\ data' = data /\ handled' = handled
      BY <1>0, <2>1, BoundAssumption, MarkAssumption DEF TypeOK, RecvTypes
    <3>2. data[i] # None => data[i] \in Nat /\ data[i] <= rsent
      BY <1>0, <3>1, MessageTypes DEF ToldInOrder, PinInv
    <3> QED BY <3>1, <3>2 DEF ToldInOrder
  <2>2. CASE i # j
    BY <1>0, <1>1, <2>2 DEF TypeOK, RecvTypes
  <2> QED BY <2>1, <2>2
<1>9. CASE UNCHANGED vars
  BY <1>1, <1>9 DEF vars
<1> QED BY <1>3, <1>4, <1>5, <1>6, <1>7, <1>8, <1>9 DEF Next, Isr, Remote

(* A notification is taken by a task that tests the callback next.         *)
LEMMA RememberTask ==
  ASSUME TypeOK, SendInv, KeptSet, NEW t \in Tasks, Call(t) \/ Run(t),
         NEW i \in TaskPins, NotForgotten(i)
  PROVE  NotForgotten(i)'
<1> USE DEF TypeOK, SendTypes, At, Go
<1>0. i \in Ids /\ i \notin IrqPins /\ cb[i] /\ Received(i).msg = data[i]
      /\ \A s \in Tasks : <<"compl", i>> \notin Uses[s]
  BY TaskPinTypes
<1>1. UNCHANGED <<data, isr>>
  BY TaskLeaves
<1>2. CASE CallCallback(t)
  <2>1. CASE id[t] = i
    <3>1. handled'[i] = Append(handled[i], Received(i))
      BY <1>0, <1>2, <2>1 DEF CallCallback, RecvTypes
    <3>2. handled'[i] # <<>> /\ handled'[i][Len(handled'[i])] = Received(i)
      BY <1>0, <3>1, MessageTypes, Appended
    <3> QED BY <1>0, <1>1, <3>2 DEF NotForgotten
  <2>2. CASE id[t] # i
    BY <1>0, <1>1, <1>2, <2>2 DEF CallCallback, NotForgotten, RecvTypes
  <2> QED BY <2>1, <2>2
<1>3. CASE TakeNotify(t)
  <2>1. CASE id[t] = i
    BY <1>3, <2>1 DEF TakeNotify, NotForgotten
  <2>2. CASE id[t] # i
    BY <1>0, <1>1, <1>3, <2>2 DEF TakeNotify, NotForgotten, RecvTypes
  <2> QED BY <2>1, <2>2
<1>4. CASE TestCallback(t)
  <2>1. CASE id[t] = i
    BY <1>0, <1>4, <2>1 DEF TestCallback, NotForgotten
  <2>2. CASE id[t] # i
    BY <1>1, <1>4, <2>2 DEF TestCallback, AfterRecv, NotForgotten
  <2> QED BY <2>1, <2>2
<1>5. CASE AwaitAck(t)
  <2>1. id[t] # i
    BY <1>0, <1>5 DEF AwaitAck, SendInv, CallShape
  <2>2. notify'[i] = notify[i] /\ UNCHANGED <<handled, id>>
    BY <1>0, <1>5, <2>1 DEF AwaitAck, RecvTypes
  <2>3. \A s \in Tasks : pc[s] \in {"deliver", "call"} => pc'[s] = pc[s]
    BY <1>5 DEF AwaitAck, Finish
  <2> QED BY <1>1, <2>2, <2>3 DEF NotForgotten
<1>6. CASE Call(t)
  <2>1. UNCHANGED <<handled, notify>>
    BY <1>6 DEF Call, CallSend, CallUnavailable, CallRegister, CallRecv, CallReply
  <2>2. /\ \A s \in Tasks \ {t} : pc'[s] = pc[s] /\ id'[s] = id[s]
        /\ pc[t] \in {"deliver", "call"} => pc'[t] = pc[t] /\ id'[t] = id[t]
    BY <1>6 DEF Call, CallSend, CallUnavailable, CallRegister, CallRecv, CallReply, Start
  <2> QED BY <1>1, <2>1, <2>2 DEF NotForgotten
<1>7. CASE Run(t) /\ ~CallCallback(t) /\ ~TakeNotify(t) /\ ~TestCallback(t) /\ ~AwaitAck(t)
  <2>1. UNCHANGED <<handled, notify, id>> /\ pc[t] \notin {"deliver", "call"}
    BY <1>7 DEF Run, TakeMutex, CheckPin, WriteSlot, TriggerIrq, GiveMutex, EndCallback,
       TakeRegMutex, StoreCallback, StoreBuffer, StorePrdata, GiveRegMutex
  <2>2. \A s \in Tasks \ {t} : pc'[s] = pc[s]
    BY <1>7, PlainStep DEF TakeRegMutex, StoreCallback, StoreBuffer, StorePrdata, GiveRegMutex
  <2> QED BY <1>1, <2>1, <2>2 DEF NotForgotten
<1> QED BY <1>2, <1>3, <1>4, <1>5, <1>6, <1>7

(* What a task has not handled is notified, or about to be.                *)
LEMMA RememberStep ==
  ASSUME TypeOK, SendInv, KeptSet, PinInv, [Next]_vars, NEW i \in TaskPins, NotForgotten(i)
  PROVE  NotForgotten(i)'
<1>0. i \in Ids
  BY TaskPinTypes
<1>1. ASSUME UNCHANGED <<pc, id, data, notify, isr, handled>> PROVE NotForgotten(i)'
  BY <1>1 DEF NotForgotten
<1>2. CASE IsrReceive
  BY <1>2, Copied DEF IsrReceive, NotForgotten, local
<1>3. CASE IsrClear
  BY <1>3 DEF IsrClear, NotForgotten, local, TypeOK, RecvTypes
<1>4. CASE IsrNotify
  BY <1>0, <1>4 DEF IsrNotify, NotForgotten, local
<1>5. ASSUME NEW j \in Ids, Remote(j) PROVE NotForgotten(i)'
  BY <1>1, <1>5 DEF Remote, RemoteTake, RemoteAnswer, RemoteSend, local
<1>6. CASE UNCHANGED vars
  BY <1>1, <1>6 DEF vars
<1> QED BY <1>2, <1>3, <1>4, <1>5, <1>6, RememberTask DEF Next, Isr

(* The pins of task context, in every reachable state.                     *)
LEMMA TaskInductive == Spec => []TaskInv
<1>1. Init => TaskInv
  BY PinAssumption DEF Init, TaskInv, NothingForgotten, NotForgotten, ToldInOrder,
     TaskPins, Registered, Kept
<1>2. TypeOK /\ SendInv /\ KeptSet /\ PinInv /\ TaskInv /\ [Next]_vars => TaskInv'
  BY ToldStep, RememberStep DEF TaskInv, NothingForgotten
<1> QED BY <1>1, <1>2, TypeCorrect, SendInductive, KeptInductive, PinInductive, PTL DEF Spec

(* No message is left in a buffer with nobody told of it, though the       *)
(* semaphore is binary and merges notifications.                           *)
THEOREM NothingForgottenHolds == Spec => []NothingForgotten
<1>1. TaskInv => NothingForgotten
  BY DEF TaskInv
<1> QED BY <1>1, TaskInductive, PTL

(* A callback of task context never sees an older message after a newer.   *)
THEOREM NeverBackwardsHolds == Spec => []NeverBackwards
<1>1. TaskInv => NeverBackwards
  BY DEF TaskInv, ToldInOrder, NeverBackwards
<1> QED BY <1>1, TaskInductive, PTL

----------------------------------------------------------------------------
(* Answers: where they are waited for, a request and its answer are in one *)
(* place at a time.                                                        *)

(* Who sends on an id where answers are waited for waits for its answer.   *)
LEMMA AskedOnly ==
  ASSUME Undisturbed, SendInv, NEW i \in Asked, NEW t \in Tasks, id[t] = i
  PROVE  /\ i \in Ids /\ i \in RecvPins /\ i \notin MessagePins /\ i \in Kept
         /\ pc[t] \in {"lock", "check", "write", "trigger", "await", "unlock"}
              => op[t] = "compl"
         /\ pc[t] \notin {"recv", "deliver", "call", "cb"}
<1>1. i \in Ids /\ i \in RecvPins /\ i \notin MessagePins /\ i \in Kept
  BY PinAssumption DEF Asked, Undisturbed
<1>2. pc[t] # "idle" => op[t] \notin {"send", "recv", "reply"}
  BY <1>1 DEF Undisturbed, SendInv, CallShape
<1> QED BY <1>1, <1>2 DEF SendInv, CallShape

(* It holds the mutex of the pin, so nobody else waits there.              *)
LEMMA AskedAlone ==
  ASSUME Undisturbed, SendInv, NEW i \in Asked, NEW t \in Tasks, id[t] = i,
         pc[t] \in {"check", "write", "trigger", "await"},
         NEW s \in Tasks, id[s] = i, pc[s] \in {"check", "write", "trigger", "await"}
  PROVE  s = t
  BY AskedOnly DEF SendInv, HoldsMutex

(* A pin on which nothing happens, and whose callers stay.                 *)
LEMMA AnswerSame ==
  ASSUME NEW i \in Ids, AnswerPin(i),
         busy'[i] = busy[i], slot'[i] = slot[i], owed'[i] = owed[i], rbusy'[i] = rbusy[i],
         rslot'[i] = rslot[i], notify'[i] = notify[i], isr' = isr, answered' = answered,
         \A t \in Tasks : (id'[t] = i /\ pc'[t] = "await") = (id[t] = i /\ pc[t] = "await"),
         \A t \in Tasks : pc[t] = "await" => msg'[t] = msg[t]
  PROVE  AnswerPin(i)'
  BY DEF AnswerPin, Quiet, OnWay

(* The steps of the tasks keep requests and answers in one place.          *)
LEMMA AnswerTask ==
  ASSUME Undisturbed, TypeOK, SendInv, AnswerInv, NEW t \in Tasks, Call(t) \/ Run(t)
  PROVE  AnswerInv'
<1> USE DEF At, Go
<1>0. UNCHANGED <<rslot, rbusy, data, isr, owed, answered>>
  BY TaskLeaves
<1>t. /\ pc \in [Tasks -> Points] /\ op \in [Tasks -> Ops] /\ id \in [Tasks -> Ids]
      /\ msg \in [Tasks -> Messages \union {None}] /\ res \in [Tasks -> Results]
      /\ slot \in [Ids -> Messages \union {None}] /\ busy \in [Ids -> BOOLEAN]
      /\ notify \in [Ids -> BOOLEAN]
  BY DEF TypeOK, SendTypes, RecvTypes
<1>i. Asked \subseteq Ids
  BY PinAssumption DEF Asked
<1>s. ASSUME UNCHANGED <<busy, slot, notify>>,
             \A s \in Tasks \ {t} : UNCHANGED <<pc[s], op[s], id[s], msg[s], res[s]>>,
             pc[t] # "await", pc'[t] # "await",
             pc'[t] = "unlock" /\ op'[t] = "compl" => res'[t] # "done"
      PROVE  AnswerInv'
  <2>1. ASSUME NEW i \in Asked PROVE AnswerPin(i)'
    BY <1>0, <1>i, <1>s, AnswerSame DEF AnswerInv
  <2> QED BY <1>0, <1>s, <2>1 DEF AnswerInv, AnswerIsMine
<1>1. CASE Call(t)
  BY <1>s, <1>t, <1>1 DEF Call, CallSend, CallUnavailable, CallRegister, CallRecv, CallReply,
     Start, sendq
<1>2. CASE CheckPin(t)
  <2>1. /\ pc[t] = "check" /\ pc'[t] # "await"
        /\ \A s \in Tasks \ {t} : UNCHANGED <<pc[s], res[s]>>
        /\ pc'[t] = "unlock" => res'[t] # "done"
    BY <1>t, <1>2 DEF CheckPin, Finish
  <2> QED BY <1>s, <1>2, <2>1 DEF CheckPin, sendq
<1>3. CASE WriteSlot(t)
  <2>1. ASSUME NEW i \in Asked PROVE AnswerPin(i)'
    <3>1. CASE i = id[t]
      <4>1. \A s \in Tasks : id[s] = i => pc[s] # "await" /\ pc'[s] # "await"
        BY <1>3, <1>t, <3>1, AskedAlone DEF WriteSlot
      <4> QED BY <1>0, <1>3, <4>1 DEF WriteSlot, AnswerInv, AnswerPin, Quiet
    <3>2. CASE i # id[t]
      BY <1>0, <1>i, <1>3, <1>t, <3>2, AnswerSame DEF WriteSlot, AnswerInv
    <3> QED BY <3>1, <3>2
  <2> QED BY <1>0, <1>3, <1>t, <2>1 DEF WriteSlot, AnswerInv, AnswerIsMine
<1>4. CASE TriggerIrq(t)
  <2> USE <1>4 DEF TriggerIrq, Finish
  <2>1. /\ pc[t] = "trigger" /\ UNCHANGED <<op, id, msg, slot, notify>>
        /\ \A s \in Tasks \ {t} : UNCHANGED <<pc[s], res[s]>>
        /\ pc'[t] = "await" => op[t] = "compl" /\ id[t] \in RecvPins
        /\ pc'[t] = "unlock" /\ op[t] = "compl" => res'[t] # "done"
    BY <1>t
  <2>2. id[t] \in RecvPins /\ op[t] = "compl" => id[t] \in Asked
    BY <2>1, <1>t DEF SendInv, CallShape, Asked
  <2>3. ASSUME NEW i \in Asked PROVE AnswerPin(i)'
    <3>1. CASE i = id[t]
      <4>1. \A s \in Tasks : id[s] = i => pc[s] # "await"
        BY <2>1, <3>1, AskedAlone
      <4>2. Quiet(i)
        BY <4>1 DEF AnswerInv, AnswerPin
      <4>3. op[t] = "compl" /\ i \in RecvPins
        BY <2>1, <3>1, AskedOnly
      <4>4. pc'[t] = "await"
        BY <1>t, <3>1, <4>3
      <4>5. busy'[i] /\ slot'[i] = msg[t]
        BY <1>t, <2>1, <3>1 DEF SendInv, WindowIdle
      <4>6. OnWay(i, msg[t])'
        BY <1>0, <2>1, <4>2, <4>5 DEF Quiet, OnWay
      <4> QED BY <2>1, <3>1, <4>1, <4>4, <4>6 DEF AnswerPin
    <3>2. CASE i # id[t]
      BY <1>0, <1>i, <1>t, <2>1, <3>2, AnswerSame DEF AnswerInv
    <3> QED BY <3>1, <3>2
  <2> QED BY <1>0, <2>1, <2>2, <2>3 DEF AnswerInv, AnswerIsMine
<1>5. CASE AwaitAck(t)
  <2> USE <1>5 DEF AwaitAck, Finish
  <2>1. /\ pc[t] = "await" /\ UNCHANGED <<op, id, msg, slot, busy>>
        /\ notify[id[t]] /\ notify' = [notify EXCEPT ![id[t]] = FALSE]
        /\ \A s \in Tasks \ {t} : UNCHANGED <<pc[s], res[s]>>
        /\ pc'[t] # "await"
    BY <1>t DEF Undisturbed, sendq
  <2>2. id[t] \in Asked /\ OnWay(id[t], msg[t])
    BY <2>1 DEF AnswerInv, AnswerPin
  <2>3. msg[t] \in answered
    BY <2>1, <2>2 DEF OnWay
  <2>4. ASSUME NEW i \in Asked PROVE AnswerPin(i)'
    <3>1. CASE i = id[t]
      <4>1. \A s \in Tasks : id[s] = i => pc'[s] # "await"
        BY <2>1, <3>1, AskedAlone
      <4>2. Quiet(i)'
        BY <1>0, <1>i, <1>t, <2>1, <2>2, <3>1 DEF OnWay, Quiet
      <4> QED BY <2>1, <4>1, <4>2 DEF AnswerPin
    <3>2. CASE i # id[t]
      BY <1>0, <1>i, <1>t, <2>1, <3>2, AnswerSame DEF AnswerInv
    <3> QED BY <3>1, <3>2
  <2> QED BY <1>0, <2>1, <2>3, <2>4 DEF AnswerInv, AnswerIsMine
<1>6. CASE TakeNotify(t)
  <2>1. id[t] \notin Asked
    BY <1>6, AskedOnly DEF TakeNotify
  <2>2. /\ pc[t] = "recv" /\ pc'[t] = "deliver" /\ UNCHANGED <<op, id, msg, res, slot, busy>>
        /\ \A s \in Tasks \ {t} : UNCHANGED pc[s]
        /\ \A i \in Ids : i # id[t] => notify'[i] = notify[i]
    BY <1>6, <1>t DEF TakeNotify, sendq
  <2>3. ASSUME NEW i \in Asked PROVE AnswerPin(i)'
    BY <1>0, <1>i, <2>1, <2>2, AnswerSame DEF AnswerInv
  <2> QED BY <1>0, <2>2, <2>3 DEF AnswerInv, AnswerIsMine
<1>7. CASE TakeMutex(t) \/ CallCallback(t) \/ TakeRegMutex(t) \/ StoreCallback(t)
           \/ StoreBuffer(t) \/ StorePrdata(t) \/ GiveRegMutex(t) \/ GiveMutex(t)
  BY <1>s, <1>t, <1>7 DEF TakeMutex, CallCallback, TakeRegMutex, StoreCallback, StoreBuffer,
     StorePrdata, GiveRegMutex, GiveMutex, sendq
<1>8. CASE TestCallback(t) \/ EndCallback(t)
  BY <1>s, <1>t, <1>8 DEF TestCallback, EndCallback, AfterRecv, sendq
<1> QED BY <1>1, <1>2, <1>3, <1>4, <1>5, <1>6, <1>7, <1>8 DEF Run

(* So do those of the interrupt handler and the remote processor.          *)
LEMMA AnswerOutside ==
  ASSUME Undisturbed, TypeOK, KeptSet, PinInv, AnswerInv, Isr \/ \E i \in Ids : Remote(i)
  PROVE  AnswerInv'
<1>0. UNCHANGED <<pc, op, id, msg, res>>
  BY OutsideStep
<1>t. /\ isr \in [at : {"off", "clear", "notify"}, status : SUBSET RecvPins]
      /\ rbusy \in [Ids -> BOOLEAN] /\ rslot \in [Ids -> Incoming]
      /\ owed \in [Ids -> Seq(Messages \union {None})] /\ notify \in [Ids -> BOOLEAN]
      /\ busy \in [Ids -> BOOLEAN] /\ slot \in [Ids -> Messages \union {None}]
  BY DEF TypeOK, SendTypes, RecvTypes
<1>a. answered \subseteq answered'
  BY DEF Isr, IsrReceive, IsrClear, IsrNotify, Remote, RemoteTake, RemoteAnswer, RemoteSend
<1> SUFFICES ASSUME NEW i \in Asked PROVE AnswerPin(i)'
  BY <1>0, <1>a DEF AnswerInv, AnswerIsMine
<1>i. i \in Ids /\ i \in RecvPins /\ i \notin MessagePins /\ buf[i] /\ ~roversize[i] /\ AnswerPin(i)
  BY PinAssumption DEF Asked, Undisturbed, KeptSet, PinInv, AnswerInv
<1>p. ASSUME Quiet(i) => Quiet(i)',
             \A m : OnWay(i, m) => OnWay(i, m)'
      PROVE  AnswerPin(i)'
  BY <1>0, <1>i, <1>p DEF AnswerPin
<1>1. CASE IsrReceive
  <2>1. /\ isr.at = "off" /\ isr.status = {} /\ isr'.at = "clear"
        /\ i \in isr'.status <=> rbusy[i]
        /\ UNCHANGED <<busy, slot, owed, rbusy, rslot, notify>>
        /\ rbusy[i] => rslot[i] \in answered'
    BY <1>1, <1>i DEF IsrReceive, PinInv, sendq, recvq, remote
  <2> QED BY <1>p, <1>a, <2>1 DEF Quiet, OnWay
<1>2. CASE IsrClear
  <2>1. /\ isr.at = "clear" /\ isr'.at = "notify" /\ isr'.status = isr.status
        /\ rbusy'[i] = (rbusy[i] /\ i \notin isr.status)
        /\ UNCHANGED <<busy, slot, owed, rslot, notify, answered>>
    BY <1>2, <1>i, <1>t DEF IsrClear, sendq, remote
  <2> QED BY <1>p, <2>1 DEF Quiet, OnWay
<1>3. CASE IsrNotify
  <2>1. /\ isr.at = "notify" /\ isr'.at = "off" /\ isr'.status = {}
        /\ notify'[i] = (notify[i] \/ i \in isr.status)
        /\ UNCHANGED <<busy, slot, owed, rslot, rbusy, answered>>
    BY <1>3, <1>i, <1>t DEF IsrNotify, sendq, recvq, remote
  <2> QED BY <1>p, <2>1 DEF Quiet, OnWay
<1>4. ASSUME NEW j \in Ids, RemoteTake(j) PROVE AnswerPin(i)'
  <2>1. UNCHANGED <<slot, rslot, rbusy, notify, isr, answered>>
    BY <1>4 DEF RemoteTake, recvq
  <2>2. CASE i = j
    <3>1. busy[i] /\ ~busy'[i] /\ owed'[i] = Append(owed[i], slot[i])
      BY <1>4, <1>i, <1>t, <2>2 DEF RemoteTake
    <3>2. owed[i] = <<>> => owed'[i] = <<slot[i]>>
      BY <3>1
    <3> QED BY <1>p, <2>1, <3>1, <3>2 DEF Quiet, OnWay
  <2>3. CASE i # j
    <3>1. busy'[i] = busy[i] /\ owed'[i] = owed[i]
      BY <1>4, <1>i, <1>t, <2>3 DEF RemoteTake
    <3> QED BY <1>p, <2>1, <3>1 DEF Quiet, OnWay
  <2> QED BY <2>2, <2>3
<1>5. ASSUME NEW j \in Ids, RemoteAnswer(j) PROVE AnswerPin(i)'
  <2>1. UNCHANGED <<busy, slot, notify, isr, answered>>
    BY <1>5 DEF RemoteAnswer, sendq
  <2>2. CASE i = j
    <3>1. /\ owed[i] # <<>> /\ ~rbusy[i] /\ rbusy'[i]
          /\ rslot'[i] = Head(owed[i]) /\ owed'[i] = Tail(owed[i])
      BY <1>5, <1>i, <1>t, <2>2 DEF RemoteAnswer
    <3>2. \A m : owed[i] = <<m>> => rslot'[i] = m /\ owed'[i] = <<>>
      BY <3>1
    <3> QED BY <1>p, <2>1, <3>1, <3>2 DEF Quiet, OnWay
  <2>3. CASE i # j
    <3>1. rbusy'[i] = rbusy[i] /\ rslot'[i] = rslot[i] /\ owed'[i] = owed[i]
      BY <1>5, <1>i, <1>t, <2>3 DEF RemoteAnswer
    <3> QED BY <1>p, <2>1, <3>1 DEF Quiet, OnWay
  <2> QED BY <2>2, <2>3
<1>6. ASSUME NEW j \in Ids, RemoteSend(j) PROVE AnswerPin(i)'
  <2>1. /\ UNCHANGED <<busy, slot, notify, isr, answered, owed>>
        /\ rbusy'[i] = rbusy[i] /\ rslot'[i] = rslot[i]
    BY <1>6, <1>i, <1>t DEF RemoteSend, sendq
  <2> QED BY <1>p, <2>1 DEF Quiet, OnWay
<1> QED BY <1>1, <1>2, <1>3, <1>4, <1>5, <1>6 DEF Isr, Remote

(* When ipi_send_compl returns IPI_ACTION_DONE the answer to the message   *)
(* it sent has been received, on the ids where no answer is given up or    *)
(* left to nobody (the run MCIpiLate shows what a timeout does).           *)
THEOREM AnswerIsMineHolds ==
  ASSUME Undisturbed
  PROVE  Spec => []AnswerIsMine
<1>1. Init => AnswerInv
  <2> SUFFICES ASSUME Init PROVE AnswerInv
    OBVIOUS
  <2>1. \A i \in Asked : Quiet(i)
    BY PinAssumption DEF Init, Asked, Quiet
  <2>2. \A t \in Tasks : pc[t] = "idle"
    BY DEF Init
  <2> QED BY <2>1, <2>2 DEF AnswerInv, AnswerIsMine, AnswerPin
<1>2. TypeOK /\ SendInv /\ KeptSet /\ PinInv /\ AnswerInv /\ [Next]_vars => AnswerInv'
  <2>1. UNCHANGED vars /\ AnswerInv => AnswerInv'
    BY DEF vars, AnswerInv, AnswerIsMine, AnswerPin, Quiet, OnWay
  <2> QED BY <2>1, AnswerTask, AnswerOutside DEF Next
<1>3. AnswerInv => AnswerIsMine
  BY DEF AnswerInv
<1> QED
  BY <1>1, <1>2, <1>3, TypeCorrect, SendInductive, KeptInductive, PinInductive, PTL DEF Spec
=============================================================================
