------------------------------ MODULE MCStreams ------------------------------
(***************************************************************************)
(* Small instances of what audio streams go through: the mixer, the ring   *)
(* buffers of fixed size with the one that the AP fills, the pipes, and    *)
(* the libraries of a stream under commands.  They share no state, and a   *)
(* behaviour is one of one of them.                                        *)
(***************************************************************************)
EXTENDS MCSwMixer, RingBuf, AudioPipe, AurisysControl

CONSTANTS
    owner,      \* a task that owns a pipe
    t, u, isr,  \* two that attach to it, and the one that takes its interrupt
    music, voice,  \* two streams with libraries
    Parts       \* "mix", "ring", "shared", "pipe", "control"

VARIABLE part

\* A ring shared with the AP, one with all calls of its own, one that is copied to.
MCRbUses == <<{"read", "skip", "dma"},
              {"write", "moved", "read", "dma", "source", "skip", "reset"}, {"target", "read"}>>

\* Two streams with a library in one scenario; one with two libraries, one of which is
\* in two scenarios.
MCStream(scenario, way, names) == [scenario |-> scenario, way |-> way, libs |-> names]
MCCommand(kind, enable, names, scenarios) ==
    [kind |-> kind, enable |-> enable, libs |-> names, scenarios |-> scenarios]
Together == [streams |-> (music :> MCStream(1, "dl", <<"a">>)) @@ (voice :> MCStream(1, "ul", <<"a">>)),
             commands |-> {MCCommand("log", TRUE, <<"a">>, <<1>>), MCCommand("get", TRUE, <<"a">>, <<1>>)}]
Alone == [streams |-> music :> MCStream(1, "dl", <<"a", "b">>),
          commands |-> {MCCommand("dump", TRUE, <<"a", "b">>, <<1>>),
                        MCCommand("log", TRUE, <<"a">>, <<1, 2>>), MCCommand("log", FALSE, <<"a">>, <<1>>),
                        MCCommand("apply", TRUE, <<"a">>, <<1>>)}]
MCAcSetups == {Together, Alone}

MCInit == /\ Init /\ RbInit /\ PipeInit /\ AcInit /\ part \in Parts
          /\ part # "mix" => setup = LiveStay
          /\ part # "control" => acStreams = Alone.streams
MCNext ==
  /\ part' = part
  /\ \/ part = "mix" /\ Next /\ UNCHANGED <<rbVars, pipeVars, acVars>>
     \/ /\ \/ part = "ring" /\ RbNext /\ rbAp' = RbEmpty
           \/ part = "shared" /\ RbNext /\ \A b \in RbBufs \ {RbShared} : UNCHANGED <<rbRing[b], rbMem[b]>>
        /\ UNCHANGED <<vars, pipeVars, acVars>>
     \/ part = "pipe" /\ PipeNext /\ UNCHANGED <<vars, rbVars, acVars>>
     \/ part = "control" /\ AcNext /\ UNCHANGED <<vars, rbVars, pipeVars>>
     \* These end where their bounds are; the others must not stop.
     \/ part \in {"ring", "shared", "pipe"} /\ UNCHANGED <<vars, rbVars, pipeVars, acVars>>
\* The mixer has the fairness of FairSpec.
MCSpec == /\ MCInit /\ [][MCNext]_<<part, vars, rbVars, pipeVars, acVars>>
          /\ WF_vars(part = "mix" /\ MixerStep /\ UNCHANGED setup)
          /\ WF_vars(part = "mix" /\ ControlStep /\ UNCHANGED setup)
          /\ \A s \in Sources : WF_vars(part = "mix" /\ SourceStep(s) /\ UNCHANGED setup)
=============================================================================
