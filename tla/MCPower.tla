------------------------------ MODULE MCPower ------------------------------
(***************************************************************************)
(* Small instances of what decides whether the system is awake, powered    *)
(* and interrupted: the wakelocks, the clock tree with the power domains,  *)
(* the external interrupts and the interrupt controller.  But for clocks   *)
(* and domains these share no state, and a behaviour is one of one of      *)
(* them; or one of the clocks with all calls and no domain enabled, or one *)
(* of the domains while another task enables and re-parents clocks.        *)
(***************************************************************************)
EXTENDS Wakelock, PowerDomain, Eint, Irq, TLC

CONSTANTS
    l1,         \* wakelocks
    taskP, taskQ, taskB,    \* tasks: two that use domains, one that uses clocks
    pdDriver,   \* the driver of the domains
    Parts       \* "wakelock", "clock", "power", "pins", "irq"

VARIABLE part

\* An oscillator, a PLL with a voter, a mux between the two, a gate below it and
\* a clock that stands for the gate where a domain needs it.
MCParents == [xtal |-> <<>>, pll |-> <<"xtal">>, mux |-> <<"xtal", "pll">>,
              gate |-> <<"mux">>, vote |-> <<>>, pdck |-> <<>>]
MCNoClks == [c \in DOMAIN MCParents |-> <<>>]
MCHc == [MCNoClks EXCEPT !.pll = <<"vote">>]
MCPdck == [MCNoClks EXCEPT !.pdck = <<"gate">>]
MCOps == [xtal |-> {}, pll |-> {"prepare"}, mux |-> {"enable"},
          gate |-> {"enable"}, vote |-> {"prepare", "enable"}, pdck |-> {}]
MCClkUses == (taskB :> {<<"prepare", "gate">>, <<"enable", "mux">>})
             @@ (taskP :> {<<"prepare", "pll">>}) @@ (taskQ :> {})
MCClkSwitches == (taskB :> {<<"mux", "pll">>, <<"mux", "xtal">>}) @@ (taskP :> {}) @@ (taskQ :> {})

\* A domain in another one, and one that the boot loader leaves on.
MCMasters == [top |-> <<>>, sub |-> <<"top">>, boot |-> <<>>]
MCPdClk == [top |-> <<"pdck">>, sub |-> <<>>, boot |-> <<>>]
MCPdSubClk == [top |-> <<>>, sub |-> <<"gate">>, boot |-> <<>>]
MCPdUses == (taskP :> {"sub"}) @@ (taskQ :> {"top", "sub"})
MCMaxEnable == (taskP :> 1) @@ (taskQ :> 1)

\* A level that is served in its interrupt, and an edge that its driver unmasks.
MCDrivers == (1 :> {[level |-> TRUE, high |-> TRUE, auto |-> TRUE, unmask |-> TRUE]})
             @@ (2 :> {[level |-> FALSE, high |-> FALSE, auto |-> FALSE, unmask |-> FALSE]})

\* Two interrupts of one group, a task of one hart and a handler of the other that call.
MCIrqGroup == (4 :> 1) @@ (9 :> 1)
MCIrqCallers == {<<0, "task">>, <<1, "isr">>}

MCInit == /\ Init /\ PdInit /\ EintInit /\ IrqInit /\ part \in Parts
          /\ part \notin {"clock", "power"} => clkMux["mux"] = 0
MCNext ==
    \/ part = "wakelock" /\ Next /\ UNCHANGED <<part, pdVars, clkVars, eintVars, irqVars>>
    \/ /\ part \in {"clock", "power"} /\ PdNext /\ UNCHANGED <<part, vars, eintVars, irqVars>>
       /\ part = "clock" => UNCHANGED pdEnables
       /\ part = "power" => /\ pdOpen'["boot"]
                            /\ \A c \in Clks : clkCnt'["prepare"][c] = 0
    \/ part = "pins" /\ EintNext /\ UNCHANGED <<part, vars, pdVars, clkVars, irqVars>>
    \/ part = "irq" /\ IrqNext /\ UNCHANGED <<part, vars, pdVars, clkVars, eintVars>>
MCSpec == MCInit /\ [][MCNext]_<<part, vars, pdVars, clkVars, eintVars, irqVars>>
=============================================================================
