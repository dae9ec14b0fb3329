----------------------------- MODULE MCServices -----------------------------
(***************************************************************************)
(* Small instances of what tasks, interrupts and the AP share without a    *)
(* mailbox of their own: the lock of the audio framework, and SCMI.  They  *)
(* share no state, and a behaviour is one of one of them.                  *)
(***************************************************************************)
EXTENDS AudioLock, Scmi, TLC

CONSTANTS
    taskA, taskB, taskC,   \* tasks: two that make every call of the lock, one that signals
    Parts      \* "lock", "scmi"

VARIABLE part

UsesAll == (taskA :> Ops) @@ (taskB :> Ops) @@ (taskC :> {"signal"})

\* One channel with the requests of a feature, one with those of another agent.
Ask(kind, ie) == [kind |-> kind, feature |-> "f", ie |-> ie]
MCAsks == (1 :> {Ask("set", TRUE), Ask("get", FALSE), Ask("on", FALSE)})
          @@ (2 :> {Ask("query", TRUE)})

MCInit == part \in Parts /\ Init /\ ScmiInit
MCNext ==
    \/ part = "lock" /\ Next /\ UNCHANGED <<part, scmiVars>>
    \/ part = "scmi" /\ ScmiNext /\ UNCHANGED <<part, vars>>
\* An assertion has stopped the system.
MCHalted == scmiHalted /\ UNCHANGED <<part, vars, scmiVars>>
\* Fairness as in FairSpec, and for SCMI: interrupts are served, and a task goes on
\* although interrupts come between, for the platform is faster than its agents.
MCSpec == /\ MCInit /\ [][MCNext \/ MCHalted]_<<part, vars, scmiVars>>
          /\ \A task \in Tasks : WF_vars(part = "lock" /\ Run(task))
          /\ \A ch \in ScmiChannels : SF_scmiVars(part = "scmi" /\ ScmiMessageHandler(ch))
          /\ WF_scmiVars(part = "scmi" /\ ScmiRespond(Isr))
          /\ \A f \in ScmiFeatures :
                SF_scmiVars(part = "scmi" /\ (ScmiMessageReceive(f) \/ ScmiRespond(f)))
=============================================================================
