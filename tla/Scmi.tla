-------------------------------- MODULE Scmi --------------------------------
(***************************************************************************)
(* The platform side of SCMI, src/middleware/scmi/v1: requests of an agent *)
(* on the AP, each in the shared memory of its channel, that the interrupt *)
(* answers at once or hands to the task of a feature, and notifications to *)
(* the agent in a channel of their own.                                    *)
(*                                                                         *)
(* An interrupt runs to its end before any task goes on; the agent runs at *)
(* all times.  The handlers that only look something up (version,          *)
(* attributes, vendor, agents, list of protocols) answer alike and are one *)
(* kind of request here.                                                   *)
(***************************************************************************)
EXTENDS Integers, Sequences

CONSTANTS
    ScmiChannels,  \* channels that carry requests
    ScmiFeatures,  \* features of the tinysys protocol
    ScmiAsks,      \* [ScmiChannels -> requests: kind, feature and IENABLED]
    Isr            \* the interrupt, as one that responds

\* The other kinds: "on" and "off" for EVENT_NOTIFY, and "query" for what the
\* interrupt answers without a change, also if the length, the protocol, the
\* message or its size is wrong.
Commands == {"set", "get"}

Kinds == Commands \cup {"on", "off", "query"}

\* A feature is asked on one channel: there is one record for its requests.
ASSUME ScmiAssumption ==
    /\ Isr \notin ScmiFeatures
    /\ \A c \in ScmiChannels :
          ScmiAsks[c] \subseteq [kind : Kinds, feature : ScmiFeatures, ie : BOOLEAN]
    /\ \A c, d \in ScmiChannels : \A m \in ScmiAsks[c], n \in ScmiAsks[d] :
          {m.kind, n.kind} \subseteq Commands /\ m.feature = n.feature => c = d

VARIABLES
    scmiMem,       \* [channel -> free: STATUS_FREE, ie: FLAGS_IENABLED, the message]
    scmiLocked,    \* [channel -> locked]
    scmiCopy,      \* [channel -> in and out, the copies of the message]
    scmiIrq,       \* channels whose interrupt is pending
    scmiAgentIrq,  \* channels whose interrupt to the agent is pending
    scmiFeature,   \* [feature -> its record: channel_id, recv_cmd_id, notify_sta]
    scmiBound,     \* [feature -> commands with a callback]
    scmiCreated,   \* features with a recv_lock
    scmiGiven,     \* features whose recv_lock is given
    scmiReply,     \* [feature -> reply_data]
    scmiAt,        \* [who responds -> what is next and for which channel]
    scmiNotice,    \* the channel of notifications
    scmiSeen,      \* the last notification that the agent has read
    scmiAsking,    \* [channel -> the request that the agent waits for, or <<>>]
    scmiHalted     \* an assertion has stopped the system

scmiAgent == <<scmiAgentIrq, scmiSeen, scmiAsking>>
scmiBinding == <<scmiBound, scmiCreated, scmiHalted>>
scmiVars == <<scmiMem, scmiLocked, scmiCopy, scmiIrq, scmiFeature, scmiGiven, scmiReply,
              scmiAt, scmiNotice, scmiAgent, scmiBinding>>

Responders == ScmiFeatures \cup {Isr}
\* What an answer says: to which request of which kind.
Answer(msg) == <<msg.kind, msg.token>>
Unasked == [kind |-> "query", token |-> 0, feature |-> Isr, ie |-> FALSE]
Request(ask, token) == [kind |-> ask.kind, token |-> token, feature |-> ask.feature, ie |-> ask.ie]
---------------------------------------------------------------------------
(* respond *)

\* Mutant: the agent gets the channel back while it is still locked.
RespondFreeFirst == <<"copy", "free", "unlock", "raise">>

\* The order of its effects, that others may see one by one.
RespondOrder == <<"copy", "unlock", "free", "raise">>

Idle == [next |-> 0, channel |-> 0, data |-> <<>>]
Respond(channel, data) == [next |-> 1, channel |-> channel, data |-> data]

\* A task runs while no interrupt does.
Runs(r) == ~scmiHalted /\ (r = Isr \/ scmiAt[Isr] = Idle)
RespondStep(r, step) ==
    LET at == scmiAt[r] IN
    /\ Runs(r)
    /\ at.next \in DOMAIN RespondOrder /\ RespondOrder[at.next] = step
    /\ scmiAt' = [scmiAt EXCEPT ![r] = IF at.next = Len(RespondOrder) THEN Idle
                                        ELSE [at EXCEPT !.next = @ + 1]]
    /\ UNCHANGED <<scmiCopy, scmiIrq, scmiFeature, scmiGiven, scmiReply, scmiNotice,
                   scmiSeen, scmiAsking, scmiBinding>>

RespondCopy(r) ==
    LET c == scmiAt[r].channel IN
    /\ RespondStep(r, "copy")
    /\ scmiMem' = [scmiMem EXCEPT ![c] = [free |-> FALSE, msg |-> scmiCopy[c],
                                          data |-> scmiAt[r].data]]
    /\ UNCHANGED <<scmiLocked, scmiAgentIrq>>
RespondUnlock(r) ==
    /\ RespondStep(r, "unlock")
    /\ scmiLocked' = [scmiLocked EXCEPT ![scmiAt[r].channel] = FALSE]
    /\ UNCHANGED <<scmiMem, scmiAgentIrq>>
RespondFree(r) ==
    /\ RespondStep(r, "free")
    /\ scmiMem' = [scmiMem EXCEPT ![scmiAt[r].channel].free = TRUE]
    /\ UNCHANGED <<scmiLocked, scmiAgentIrq>>
\* The flags are those of the next request if the agent has been quick.
RespondRaise(r) ==
    LET c == scmiAt[r].channel IN
    /\ RespondStep(r, "raise")
    /\ scmiAgentIrq' = IF scmiMem[c].msg.ie THEN scmiAgentIrq \cup {c} ELSE scmiAgentIrq
    /\ UNCHANGED <<scmiMem, scmiLocked>>
---------------------------------------------------------------------------
(* scmi_message_handler, in the interrupt *)

\* handler_to_callback, when the command has a callback: a semaphore that does not
\* exist yet is an assertion.
HandlerToCallback(c, msg) ==
    LET f == msg.feature IN
    /\ scmiFeature' = [scmiFeature EXCEPT ![f].channel = c, ![f].cmd = msg.kind]
    /\ scmiGiven' = scmiGiven \cup {f}
    /\ scmiHalted' = (f \notin scmiCreated)
    /\ UNCHANGED scmiAt

\* scmi_base_message_handler and its handlers: what the platform can do.
ScmiBaseMessageHandler(c, msg) ==
    /\ scmiAt' = [scmiAt EXCEPT ![Isr] = Respond(c, Answer(msg))]
    /\ UNCHANGED <<scmiFeature, scmiGiven, scmiHalted>>

\* The handlers of the tinysys protocol that need no callback, or have none.
IsrAnswers(c, msg) ==
    /\ scmiAt' = [scmiAt EXCEPT ![Isr] = Respond(c, Answer(msg))]
    /\ scmiFeature' = IF msg.kind \in {"on", "off"}   \* ..._event_notify_handler
                      THEN [scmiFeature EXCEPT ![msg.feature].notify = (msg.kind = "on")]
                      ELSE scmiFeature
    /\ UNCHANGED <<scmiGiven, scmiHalted>>

ScmiMessageHandler(c) ==
    LET msg == scmiMem[c].msg IN
    /\ Runs(Isr) /\ scmiAt[Isr] = Idle
    /\ c \in scmiIrq
    /\ scmiIrq' = scmiIrq \ {c}
    /\ IF scmiLocked[c] \/ scmiMem[c].free
       THEN UNCHANGED <<scmiLocked, scmiCopy, scmiAt, scmiFeature, scmiGiven, scmiHalted>>
       ELSE /\ scmiLocked' = [scmiLocked EXCEPT ![c] = TRUE]
            /\ scmiCopy' = [scmiCopy EXCEPT ![c] = msg]
            /\ IF msg.kind = "query" THEN ScmiBaseMessageHandler(c, msg)
               ELSE IF msg.kind \in Commands /\ msg.kind \in scmiBound[msg.feature]
               THEN HandlerToCallback(c, msg) ELSE IsrAnswers(c, msg)
    /\ UNCHANGED <<scmiMem, scmiReply, scmiNotice, scmiAgent, scmiBound, scmiCreated>>
---------------------------------------------------------------------------
(* Tasks *)

\* scmi_tinysys_message_receive: the semaphore and the callback, then respond to
\* the channel that the record of the feature names.
ScmiMessageReceive(f) ==
    LET rec == scmiFeature[f]
        called == IF rec.cmd \in scmiBound[f]
                  THEN <<rec.cmd, scmiCopy[rec.channel].token>> ELSE scmiReply[f] IN
    /\ Runs(f) /\ scmiAt[f] = Idle
    /\ f \in scmiGiven
    /\ scmiGiven' = scmiGiven \ {f}
    /\ scmiReply' = [scmiReply EXCEPT ![f] = called]
    /\ scmiAt' = [scmiAt EXCEPT ![f] = Respond(rec.channel, called)]
    /\ UNCHANGED <<scmiMem, scmiLocked, scmiCopy, scmiIrq, scmiFeature, scmiNotice,
                   scmiAgent, scmiBinding>>

\* scmi_tinysys_protocol_bind, in two steps: the callback, then the semaphore.
ScmiBind(f, cmd) ==
    /\ Runs(f)
    /\ cmd \notin scmiBound[f]
    /\ scmiBound' = [scmiBound EXCEPT ![f] = @ \cup {cmd}]
    /\ UNCHANGED <<scmiMem, scmiLocked, scmiCopy, scmiIrq, scmiFeature, scmiGiven,
                   scmiReply, scmiAt, scmiNotice, scmiAgent, scmiCreated, scmiHalted>>
ScmiBindCreate(f) ==
    /\ Runs(f)
    /\ scmiBound[f] # {}
    /\ scmiCreated' = scmiCreated \cup {f}
    /\ UNCHANGED <<scmiMem, scmiLocked, scmiCopy, scmiIrq, scmiFeature, scmiGiven,
                   scmiReply, scmiAt, scmiNotice, scmiAgent, scmiBound, scmiHalted>>

\* Mutant: the notification before is overwritten when the agent has not read it.
TransmitAlways == scmiNotice' = [free |-> FALSE, id |-> (scmiNotice.id + 1) % 2]

\* transmit, once it accepts.
Transmit ==
    /\ scmiNotice.free
    /\ scmiNotice' = [free |-> FALSE, id |-> (scmiNotice.id + 1) % 2]

\* scmi_tinysys_event_notifier, scmi_notify: a try in a critical section.  One
\* that finds the channel busy is repeated or given up.
EventNotifier(f) ==
    /\ Runs(f)
    /\ scmiFeature[f].notify
    /\ Transmit
    /\ UNCHANGED <<scmiMem, scmiLocked, scmiCopy, scmiIrq, scmiFeature, scmiGiven,
                   scmiReply, scmiAt, scmiAgent, scmiBinding>>
---------------------------------------------------------------------------
(* The agent *)

\* It sends in a free channel only, once it has taken the answer before.
AgentSends(c) ==
    /\ scmiAsking[c] = <<>> /\ scmiMem[c].free
    /\ \E ask \in ScmiAsks[c] : LET msg == Request(ask, 1 - scmiMem[c].msg.token) IN
          /\ scmiMem' = [scmiMem EXCEPT ![c] = [free |-> FALSE, msg |-> msg, data |-> <<>>]]
          /\ scmiAsking' = [scmiAsking EXCEPT ![c] = <<msg>>]
    /\ scmiIrq' = scmiIrq \cup {c}
    /\ UNCHANGED <<scmiLocked, scmiCopy, scmiFeature, scmiGiven, scmiReply, scmiAt,
                   scmiNotice, scmiAgentIrq, scmiSeen, scmiBinding>>

\* It polls, or waits for an interrupt if it has asked for one.
AgentTakes(c) ==
    /\ scmiAsking[c] # <<>> /\ scmiMem[c].free
    /\ scmiAsking[c][1].ie => c \in scmiAgentIrq
    /\ scmiAsking' = [scmiAsking EXCEPT ![c] = <<>>]
    /\ scmiAgentIrq' = scmiAgentIrq \ {c}
    /\ UNCHANGED <<scmiMem, scmiIrq, scmiLocked, scmiCopy, scmiFeature, scmiGiven,
                   scmiReply, scmiAt, scmiNotice, scmiSeen, scmiBinding>>

AgentTakesNotice ==
    /\ ~scmiNotice.free
    /\ scmiSeen' = scmiNotice.id
    /\ scmiNotice' = [scmiNotice EXCEPT !.free = TRUE]
    /\ UNCHANGED <<scmiMem, scmiIrq, scmiLocked, scmiCopy, scmiFeature, scmiGiven,
                   scmiReply, scmiAt, scmiAgentIrq, scmiAsking, scmiBinding>>
---------------------------------------------------------------------------
\* scmi_init, scmi_tinysys_protocol_init
ScmiInit ==
    /\ scmiMem = [c \in ScmiChannels |-> [free |-> TRUE, msg |-> Unasked, data |-> <<>>]]
    /\ scmiLocked = [c \in ScmiChannels |-> FALSE]
    /\ scmiCopy = [c \in ScmiChannels |-> Unasked]
    /\ scmiIrq = {} /\ scmiAgentIrq = {}
    /\ scmiFeature = [f \in ScmiFeatures |-> [channel |-> 0, cmd |-> "set", notify |-> FALSE]]
    /\ scmiBound = [f \in ScmiFeatures |-> {}]
    /\ scmiCreated = {} /\ scmiGiven = {}
    /\ scmiReply = [f \in ScmiFeatures |-> <<>>]
    /\ scmiAt = [r \in Responders |-> Idle]
    /\ scmiNotice = [free |-> TRUE, id |-> 0] /\ scmiSeen = 0
    /\ scmiAsking = [c \in ScmiChannels |-> <<>>]
    /\ scmiHalted = FALSE

ScmiRespond(r) == RespondCopy(r) \/ RespondUnlock(r) \/ RespondFree(r) \/ RespondRaise(r)

ScmiNext ==
    \/ \E r \in Responders : ScmiRespond(r)
    \/ \E c \in ScmiChannels : ScmiMessageHandler(c) \/ AgentSends(c) \/ AgentTakes(c)
    \/ AgentTakesNotice
    \/ \E f \in ScmiFeatures :
          \/ ScmiMessageReceive(f) \/ ScmiBindCreate(f) \/ EventNotifier(f)
          \/ \E cmd \in Commands : ScmiBind(f, cmd)

ScmiSpec == ScmiInit /\ [][ScmiNext]_scmiVars
---------------------------------------------------------------------------
(* Correctness *)

\* What the agent finds in a channel that it gets back is the answer to what it
\* asked there; and a notification that was accepted stays until the agent has
\* read it, so that none is lost.
ScmiMine ==
    /\ \A c \in ScmiChannels : scmiAsking[c] # <<>> /\ scmiMem[c].free =>
          scmiMem[c].data = Answer(scmiAsking[c][1])
    /\ scmiNotice.id = (IF scmiNotice.free THEN scmiSeen ELSE (scmiSeen + 1) % 2)

\* Every request is answered, whoever else asks: no channel stays locked, no
\* semaphore is given in vain.  (But for a feature asked before it has a semaphore.)
ScmiAnswered ==
    \A c \in ScmiChannels :
        scmiAsking[c] # <<>> ~> scmiMem[c].free \/ scmiHalted
---------------------------------------------------------------------------
(* The invariant behind ScmiMine, in parts.                                *)

ScmiMessages == [kind : Kinds, token : {0, 1}, feature : Responders, ie : BOOLEAN]
ScmiAnswers == (Kinds \X {0, 1}) \cup {<<>>}
ScmiTypeOK ==
    /\ scmiMem \in [ScmiChannels -> [free : BOOLEAN, msg : ScmiMessages, data : ScmiAnswers]]
    /\ scmiCopy \in [ScmiChannels -> ScmiMessages]
    /\ scmiAsking \in [ScmiChannels -> {<<>>} \cup {<<msg>> : msg \in ScmiMessages}]
    /\ scmiFeature \in [ScmiFeatures -> [channel : ScmiChannels \cup {0}, cmd : Commands,
                                         notify : BOOLEAN]]
    /\ scmiBound \in [ScmiFeatures -> SUBSET Commands]
    /\ scmiReply \in [ScmiFeatures -> ScmiAnswers]
    /\ scmiAt \in [Responders -> [next : 0 .. 4, channel : ScmiChannels \cup {0},
                                  data : ScmiAnswers]]
    /\ scmiIrq \subseteq ScmiChannels /\ scmiGiven \subseteq ScmiFeatures
    /\ scmiNotice \in [free : BOOLEAN, id : {0, 1}] /\ scmiSeen \in {0, 1}

\* r is to write the answer and to free the channel; a task is to be asked for it.
ScmiResponds(r, c) == scmiAt[r].next \in 1 .. 3 /\ scmiAt[r].channel = c
ScmiDue(f, c) == f \in scmiGiven /\ scmiFeature[f].channel = c
ScmiOwned(c) == (\E r \in Responders : ScmiResponds(r, c)) \/ (\E f \in ScmiFeatures : ScmiDue(f, c))

\* The agent has asked, nobody answers before the interrupt, and nobody once it is free.
ScmiPending(c) ==
    /\ scmiMem[c].free \/ c \in scmiIrq => ~ScmiOwned(c)
    /\ c \in scmiIrq => scmiAsking[c] = <<scmiMem[c].msg>> /\ ~scmiMem[c].free
    /\ scmiAsking[c] # <<>> => \E ask \in ScmiAsks[c] :
          ask.kind = scmiAsking[c][1].kind /\ ask.feature = scmiAsking[c][1].feature

\* Who answers has the request of the agent; a task that of its feature.
ScmiRightly(c, r) ==
    ScmiResponds(r, c) =>
        /\ scmiAsking[c] = <<scmiCopy[c]>> /\ scmiAt[r].data = Answer(scmiCopy[c])
        /\ scmiAt[r].next > 1 => scmiMem[c].data = scmiAt[r].data
        /\ r # Isr => scmiCopy[c].feature = r /\ scmiCopy[c].kind \in Commands /\ r \notin scmiGiven
        /\ r = Isr => \A f \in ScmiFeatures : ~ScmiResponds(f, c) /\ ~ScmiDue(f, c)
ScmiDuly(c, f) ==
    ScmiDue(f, c) =>
        /\ scmiAsking[c] = <<scmiCopy[c]>> /\ scmiCopy[c].feature = f
        /\ scmiFeature[f].cmd = scmiCopy[c].kind /\ scmiFeature[f].cmd \in scmiBound[f]

ScmiInv ==
    /\ ScmiTypeOK /\ ScmiMine
    /\ \A c \in ScmiChannels : ScmiPending(c)
    /\ \A c \in ScmiChannels, r \in Responders : ScmiRightly(c, r)
    /\ \A c \in ScmiChannels, f \in ScmiFeatures : ScmiDuly(c, f)
    /\ \A f \in scmiGiven : scmiFeature[f].channel \in ScmiChannels
=============================================================================
